--------------------------- MODULE ThemeController ----------------------------
(***************************************************************************)
(* createThemeController and what binds elements to it: a selection (a     *)
(* mode and a theme for each scheme) that is saved and loaded again, the   *)
(* preference of the operating system, heard only while the mode is        *)
(* "system", and listeners that may call the controller back while they    *)
(* are told.                                                               *)
(***************************************************************************)
EXTENDS Naturals, SequencesExt

CONSTANTS
    Nothing,      \* no saved selection, no cached snapshot
    Schemes,      \* the scheme of every theme a catalog may have
    Elements,     \* elements connected to the controller
    MaxCalls      \* calls of the host, of its listener and of the system

VARIABLES
    control,            \* the controller, its storage and its document
    calls

themeVars == <<control, calls>>

Modes == {"light", "dark", "system"}

\* The defaults of a catalog are always in it.
Defaults == [light |-> "paper", dark |-> "ink"]

ASSUME ThemesAssumption ==
    /\ Schemes \in [DOMAIN Schemes -> {"light", "dark"}]
    /\ \A scheme \in {"light", "dark"} :
         Defaults[scheme] \in DOMAIN Schemes /\ Schemes[Defaults[scheme]] = scheme

ASSUME CallsAssumption == MaxCalls \in Nat /\ "host" \notin Elements

Catalogs ==
    {catalog \in SUBSET DOMAIN Schemes :
       {Defaults["light"], Defaults["dark"]} \subseteq catalog}

ValidThemeNameFor(catalog, scheme, name) ==
    IF name \in catalog /\ Schemes[name] = scheme THEN name ELSE Defaults[scheme]

Preferred(c) == IF c.prefersDark THEN "dark" ELSE "light"

ResolveScheme(c, mode) == IF mode # "system" THEN mode ELSE Preferred(c)

\* Attached, the query hears the changes from now on.
Listening(c, mode) ==
    IF mode = "system"
    THEN [c EXCEPT !.listening = TRUE, !.changed = @ /\ c.listening]
    ELSE [c EXCEPT !.listening = FALSE, !.changed = FALSE]

SelectionOf(c) == [mode |-> c.mode, light |-> c.light, dark |-> c.dark]

\* A save that fails leaves what was saved before.
Persist(c) ==
    IF c.denied THEN [c EXCEPT !.unsaved = TRUE]
    ELSE [c EXCEPT !.saved = SelectionOf(c), !.unsaved = FALSE]

Built(c) ==
    [mode |-> c.mode, scheme |-> c.resolvedScheme, theme |-> c[c.resolvedScheme]]

\* The snapshot is built when it is asked for and kept until the next change.
GetSnapshot(c) == IF c.snapshot = Nothing THEN [c EXCEPT !.snapshot = Built(c)] ELSE c

PublishOnce(c) ==                 \* not while listeners are being told
    [c EXCEPT !.snapshot = Nothing,
              !.telling = IF @ = <<>> THEN <<c.listeners>> ELSE @]

\* The listeners of the moment are told, inside whatever tells them now.
Publish(c) == [c EXCEPT !.snapshot = Nothing, !.telling = <<c.listeners>> \o @]

SetMode(c, mode) ==
    IF c.destroyed \/ mode = c.mode THEN c
    ELSE LET heard == Listening([c EXCEPT !.mode = mode], mode)
         IN Publish(Persist([heard EXCEPT !.resolvedScheme = ResolveScheme(heard, mode)]))

SetThemeSavedFirst(c, name) ==    \* what is saved is the selection before
    IF c.destroyed \/ name \notin c.catalog \/ c[Schemes[name]] = name THEN c
    ELSE Publish([Persist(c) EXCEPT ![Schemes[name]] = name])

SetTheme(c, name) ==
    IF c.destroyed \/ name \notin c.catalog \/ c[Schemes[name]] = name THEN c
    ELSE Publish(Persist([c EXCEPT ![Schemes[name]] = name]))

\* What the query says is asked again: a change taken back changes nothing.
OnMediaChange(c) ==
    LET heard == [c EXCEPT !.changed = FALSE]
    IN IF Preferred(c) = c.resolvedScheme THEN heard
       ELSE Publish([heard EXCEPT !.resolvedScheme = Preferred(c)])

Subscribe(c, listener) ==
    [c EXCEPT !.listeners = IF Contains(@, listener) THEN @ ELSE Append(@, listener)]

Unsubscribe(c, listener) ==
    [c EXCEPT !.listeners = IF ~Contains(@, listener) THEN @
                            ELSE RemoveAt(@, CHOOSE i \in DOMAIN @ : @[i] = listener)]

ApplyThemeToElement(c, element) ==
    LET read == GetSnapshot(c) IN [read EXCEPT !.shows[element] = read.snapshot]

ConnectThemeController(c, element) ==
    Subscribe(ApplyThemeToElement(c, element), element)

Destroy(c) ==
    [c EXCEPT !.destroyed = TRUE, !.listening = FALSE, !.changed = FALSE, !.listeners = <<>>]

\* Loaded names win over the initial ones, each valid or the default.
CreateThemeController(c, catalog, initialMode, corrupt) ==
    LET loaded == IF c.denied \/ corrupt THEN Nothing ELSE c.saved
        mode == IF loaded = Nothing THEN initialMode ELSE loaded.mode
        named(scheme) ==
            ValidThemeNameFor(catalog, scheme,
                              IF loaded = Nothing THEN Nothing ELSE loaded[scheme])
        created == [c EXCEPT
            !.catalog = catalog, !.mode = mode, !.light = named("light"),
            !.dark = named("dark"), !.snapshot = Nothing, !.destroyed = FALSE,
            !.listeners = <<>>, !.telling = <<>>, !.changed = FALSE,
            !.listening = FALSE, !.unsaved = loaded # c.saved]
    IN Listening([created EXCEPT !.resolvedScheme = ResolveScheme(c, mode)], mode)

-----------------------------------------------------------------------------
(* Actions *)

\* One step of the task under way: the next listener of the innermost telling.
\* An element is themed again; the host's own listener may call the controller.
CallListener(c, listener, reaction) ==
    CASE listener \in Elements -> ApplyThemeToElement(c, listener)
      [] listener = "host" ->
           (CASE reaction.call = "setMode" -> SetMode(c, reaction.with)
              [] reaction.call = "setTheme" -> SetTheme(c, reaction.with)
              [] reaction.call = "connect" -> ConnectThemeController(c, reaction.with)
              [] reaction.call = "disconnect" -> Unsubscribe(c, reaction.with)
              [] reaction.call = "destroy" -> Destroy(c)
              [] reaction.call = "none" -> c)

Reactions ==
    [call : {"setMode"}, with : Modes] \cup [call : {"setTheme"}, with : DOMAIN Schemes]
      \cup [call : {"connect", "disconnect"}, with : Elements]
      \cup [call : {"destroy", "none"}, with : {Nothing}]

Tell ==
    /\ control.telling # <<>>
    /\ IF Head(control.telling) = <<>>
       THEN control' = [control EXCEPT !.telling = Tail(@)] /\ UNCHANGED calls
       ELSE \E reaction \in Reactions :
              /\ reaction.call # "none" =>
                   Head(Head(control.telling)) = "host" /\ calls < MaxCalls
              /\ calls' = IF reaction.call = "none" THEN calls ELSE calls + 1
              /\ control' = CallListener([control EXCEPT !.telling[1] = Tail(@)],
                           Head(Head(control.telling)), reaction)

Calling(controllers) ==
    /\ control.telling = <<>>
    /\ calls < MaxCalls
    /\ calls' = calls + 1
    /\ control' \in controllers

Choose ==
    \/ Calling({SetMode(control, mode) : mode \in Modes})
    \/ Calling({SetTheme(control, name) : name \in DOMAIN Schemes})

Connect ==
    \/ Calling({ConnectThemeController(control, element) : element \in Elements})
    \/ Calling({Unsubscribe(control, listener) : listener \in Elements \cup {"host"}})
    \/ Calling({Subscribe(control, "host"), GetSnapshot(control), Destroy(control)})

\* The system's preference; the query tells of it some time later.
Prefer ==
    Calling({[control EXCEPT !.prefersDark = ~@, !.changed = control.listening]})

MediaChange ==
    /\ control.telling = <<>>
    /\ control.listening /\ control.changed
    /\ control' = OnMediaChange(control)
    /\ UNCHANGED calls

\* Storage that starts, or stops, refusing.
Deny == Calling({[control EXCEPT !.denied = ~@]})

\* The page is loaded again, perhaps with another catalog, perhaps with what was
\* saved no longer readable.
Reload ==
    Calling({CreateThemeController(control, catalog, initialMode, corrupt) :
          catalog \in Catalogs, initialMode \in {"light", "system"}, corrupt \in BOOLEAN})

Blank(prefersDark) ==
    [mode |-> "system", light |-> Defaults["light"], dark |-> Defaults["dark"],
     resolvedScheme |-> "light", snapshot |-> Nothing, destroyed |-> FALSE,
     listeners |-> <<>>, telling |-> <<>>, catalog |-> DOMAIN Schemes,
     prefersDark |-> prefersDark, listening |-> FALSE, changed |-> FALSE,
     saved |-> Nothing, denied |-> FALSE, unsaved |-> FALSE,
     shows |-> [element \in Elements |-> Nothing]]

ThemeInit ==
    /\ \E dark \in BOOLEAN, initialMode \in Modes :
         control = CreateThemeController(Blank(dark), DOMAIN Schemes, initialMode, FALSE)
    /\ calls = 0

ThemeNext == Tell \/ Choose \/ Connect \/ Prefer \/ MediaChange \/ Deny \/ Reload

ThemeSpec == ThemeInit /\ [][ThemeNext]_themeVars

-----------------------------------------------------------------------------
(* Properties *)

\* The fields of the controller, of its storage and of its document.
ThemeTypeOK ==
    LET selections == [mode : Modes, light : DOMAIN Schemes, dark : DOMAIN Schemes]
        snapshots == [mode : Modes, scheme : {"light", "dark"}, theme : DOMAIN Schemes]
    IN /\ SelectionOf(control) \in selections
       /\ control.saved \in selections \cup {Nothing}
       /\ control.resolvedScheme \in {"light", "dark"}
       /\ control.snapshot \in snapshots \cup {Nothing}
       /\ control.shows \in [Elements -> snapshots \cup {Nothing}]
       /\ control.catalog \in Catalogs
       /\ control.changed => control.listening
       /\ control.listening => control.mode = "system" /\ ~control.destroyed
       /\ calls \in 0 .. MaxCalls

\* Once everyone has been told and the system has nothing more to say, every
\* connected element of a live controller shows the mode, the scheme that applies and the theme
\* chosen for it: no snapshot kept too long, no change heard too late, and no
\* call a listener makes while others are told leaves one of them behind.
ElementsCurrent ==
    control.telling = <<>> /\ ~control.changed /\ ~control.destroyed =>
        \A element \in Elements : Contains(control.listeners, element) =>
            LET scheme == ResolveScheme(control, control.mode)
            IN control.shows[element] = [mode |-> control.mode, scheme |-> scheme, theme |-> control[scheme]]

\* The selection in use is the one saved, a name the catalog does not have for
\* the scheme read as its default, unless storage refused or lost it; so loading
\* the page again changes nothing the user chose.
SelectionKept ==
    control.saved # Nothing /\ ~control.unsaved =>
        /\ control.mode = control.saved.mode
        /\ \A scheme \in {"light", "dark"} :
             /\ control[scheme] \in control.catalog /\ Schemes[control[scheme]] = scheme
             /\ control[scheme] # Defaults[scheme] => control[scheme] = control.saved[scheme]
             /\ control.saved[scheme] \in control.catalog => control[scheme] = control.saved[scheme]

\* The theme shown, the theme in use and the theme saved are one.
ThemeHonest == ThemeTypeOK /\ ElementsCurrent /\ SelectionKept

=============================================================================
