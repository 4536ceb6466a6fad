---------------------------- MODULE StatementView -----------------------------
(***************************************************************************)
(* TrialBalance, IncomeStatement and BalanceSheet, the components that     *)
(* draw a derived statement into a container: one life cycle, written      *)
(* three times, with one option more in the trial balance.  A statement is *)
(* drawn again only when the reference to its data, or what shapes its     *)
(* text, has changed since.                                                *)
(***************************************************************************)
EXTENDS Naturals, SequencesExt

CONSTANTS
    NoNode,           \* no element, no data, no options
    Containers,       \* elements the host may render into, or the document make
    Statements,       \* derived data, each object a reference of its own
    StatementOptions, \* what the host may pass as options
    MaxRenders        \* calls of the host

ASSUME SheetAssumption ==
    /\ NoNode \notin Containers /\ NoNode \notin Nat
    /\ \A options \in StatementOptions : options.showClassification \in BOOLEAN
    /\ MaxRenders \in Nat

VARIABLES
    sheet,            \* the component and the elements it draws in
    renders

sheetVars == <<sheet, renders>>

\* `tables` is what each shadow root holds, `root` the place among them of the
\* element drawn last.  `asked` and `revisited` are history: what the last render
\* asked for, and the containers come back to after another one.
NewSheet(options, managed) ==
    [options |-> options, managed |-> managed,
     container |-> NoNode, root |-> NoNode, rendered |-> NoNode,
     tables |-> [c \in Containers |-> <<>>], scheme |-> [c \in Containers |-> "system"],
     attached |-> {}, used |-> {}, asked |-> NoNode, revisited |-> {}]

\* An inline declaration for a pinned scheme, none for "system".
ApplyHostColorScheme(s) ==
    IF s.container = NoNode THEN s
    ELSE [s EXCEPT !.scheme[s.container] = s.options.colorScheme]

SetSheetOptions(s, options) ==
    IF options = NoNode THEN s
    ELSE ApplyHostColorScheme([s EXCEPT !.options = options])

\* The container given, else the present one, else a new element; another than
\* the present one makes the component forget what it drew.
GetOrCreateContainer(s, container) ==
    LET unused == Containers \ s.used
        next == CASE container # NoNode -> container
                  [] container = NoNode /\ s.container # NoNode -> s.container
                  [] OTHER -> CHOOSE c \in unused : TRUE
        placed == [s EXCEPT !.container = next, !.attached = @ \cup {next},
                            !.used = @ \cup {next}]
    IN IF next = s.container THEN placed
       ELSE [placed EXCEPT !.root = NoNode, !.rendered = NoNode,
                           !.revisited = @ \cup (s.used \cap {next})]

\* What decides the text that is drawn.
Shape(s, data) ==
    [data |-> data, amountFormat |-> s.options.amountFormat,
     showClassification |-> s.options.showClassification]

CanSkipByData(s, data, forceRender) ==   \* a changed format is not looked at
    ~forceRender /\ s.root # NoNode /\ s.rendered.data = data

CanSkip(s, data, forceRender) ==
    ~forceRender /\ s.root # NoNode /\ s.rendered = Shape(s, data)

\* The new tables take the place of the old ones, or join what is there.
DrawTables(s, data) ==
    LET there == s.tables[s.container]
        place == IF s.root # NoNode THEN s.root ELSE Len(there) + 1
        tables == IF s.root # NoNode THEN [there EXCEPT ![place] = Shape(s, data)]
                  ELSE Append(there, Shape(s, data))
    IN [s EXCEPT !.tables[s.container] = tables, !.root = place, !.rendered = Shape(s, data)]

RenderSheet(s, data, container, forceRender) ==
    LET placed == ApplyHostColorScheme(GetOrCreateContainer(s, container))
        asked == [placed EXCEPT !.asked = Shape(placed, data)]
    IN IF CanSkip(asked, data, forceRender) THEN asked ELSE DrawTables(asked, data)

\* A container that React owns stays where it is.
CleanUpSheet(s) ==
    [s EXCEPT !.attached = IF s.managed THEN @ ELSE @ \ {s.container},
              !.container = NoNode, !.root = NoNode, !.rendered = NoNode, !.asked = NoNode]

-----------------------------------------------------------------------------
(* Calls of a host, and of the hook that stands between React and a component *)

HostCalls(s) ==
    {SetSheetOptions(s, options) : options \in StatementOptions \cup {NoNode}}
    \cup {RenderSheet(s, data, container, forceRender) :
            data \in Statements, forceRender \in BOOLEAN,
            container \in IF s.container = NoNode /\ Containers \subseteq s.used
                          THEN Containers ELSE Containers \cup {NoNode}}
    \cup {CleanUpSheet(s)}

\* The ref callback gets an element: an instance of its own, drawn at once.
Created(s, container, options, data) ==
    RenderSheet([s EXCEPT !.options = options], data, container, FALSE)

Updated(s, options, data) == RenderSheet(SetSheetOptions(s, options), data, NoNode, FALSE)

HookCalls(s) ==
    IF s.container = NoNode
    THEN {Created(s, container, options, data) :
            container \in Containers \ s.used, options \in StatementOptions, data \in Statements}
    ELSE {Updated(s, options, data) :
            options \in StatementOptions \cup {NoNode}, data \in Statements}
         \cup {CleanUpSheet(s)}

SheetInit ==
    /\ sheet \in {NewSheet(options, managed) :
                    options \in StatementOptions, managed \in BOOLEAN}
    /\ renders = 0

SheetNext ==
    /\ renders < MaxRenders
    /\ renders' = renders + 1
    /\ sheet' \in IF sheet.managed THEN HookCalls(sheet) ELSE HostCalls(sheet)

SheetSpec == SheetInit /\ [][SheetNext]_sheetVars

-----------------------------------------------------------------------------
(* Properties *)

\* The fields of the component and of the elements it draws in.
SheetTypeOK ==
    LET shapes == [data : Statements, amountFormat : {o.amountFormat : o \in StatementOptions},
                   showClassification : BOOLEAN]
    IN /\ sheet.options \in StatementOptions
       /\ sheet.container \in Containers \cup {NoNode}
       /\ {sheet.rendered, sheet.asked} \subseteq shapes \cup {NoNode}
       /\ \A c \in Containers : \A i \in DOMAIN sheet.tables[c] : sheet.tables[c][i] \in shapes
       /\ sheet.root = NoNode \/ sheet.root \in DOMAIN sheet.tables[sheet.container]
       /\ sheet.attached \subseteq sheet.used /\ sheet.used \subseteq Containers
       /\ renders \in 0 .. MaxRenders

\* What stands in the container is what the last render asked for, in the format
\* and with the columns of the options of that moment, although a render may be
\* skipped; it stands there once, and in no container is there a second table,
\* unless the host came back to one; and the scheme pinned is that of the options.
TableCurrent ==
    /\ SheetTypeOK
    /\ sheet.container # NoNode =>
         /\ sheet.tables[sheet.container][sheet.root] = sheet.asked
         /\ sheet.scheme[sheet.container] = sheet.options.colorScheme
    /\ \A c \in Containers \ sheet.revisited : Len(sheet.tables[c]) <= 1

=============================================================================
