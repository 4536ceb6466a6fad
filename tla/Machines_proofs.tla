--------------------------- MODULE Machines_proofs ----------------------------
(***************************************************************************)
(* What a theme controller shows and keeps, what a statement component     *)
(* leaves on the page, what a release run gives out, what an ingest call   *)
(* tells and leaves in the store, which ports worktrees claim and what a   *)
(* stream shows, tells and scrolls, for every value of the constants and   *)
(* any number of calls.  The six share no state: each has its own          *)
(* invariant, and that of the ingest takes in the scheduler's.             *)
(***************************************************************************)
EXTENDS ThemeController, StatementView, Release, EntryIngest, Worktrees, EntryStream,
        SequenceTheorems, FiniteSetTheorems, WellFoundedInduction, NaturalsInduction, TLAPS

(* The theme controller *)

ThemeFields == {"mode", "light", "dark", "resolvedScheme", "snapshot", "destroyed",
                "listeners", "telling", "catalog", "prefersDark", "listening", "changed",
                "saved", "denied", "unsaved", "shows"}

USE DEF ThemeFields

Listeners == Elements \cup {"host"}

Selections == [mode : Modes, light : DOMAIN Schemes, dark : DOMAIN Schemes]

Snapshots == [mode : Modes, scheme : {"light", "dark"}, theme : DOMAIN Schemes]

\* The record and the types of what it holds.
ThemeTyped(c) ==
    /\ DOMAIN c = ThemeFields
    /\ c.mode \in Modes
    /\ c.resolvedScheme \in {"light", "dark"}
    /\ c.snapshot \in Snapshots \cup {Nothing}
    /\ c.listeners \in Seq(Listeners)
    /\ c.telling \in Seq(Seq(Listeners))
    /\ c.catalog \in Catalogs
    /\ c.saved \in Selections \cup {Nothing}
    /\ c.shows \in [Elements -> Snapshots \cup {Nothing}]
    /\ c.destroyed \in BOOLEAN /\ c.prefersDark \in BOOLEAN /\ c.listening \in BOOLEAN
    /\ c.changed \in BOOLEAN /\ c.denied \in BOOLEAN /\ c.unsaved \in BOOLEAN

\* The themes in use, and those saved, are of the scheme they are used for.
NamesValid(c) ==
    /\ c.light \in c.catalog /\ Schemes[c.light] = "light"
    /\ c.dark \in c.catalog /\ Schemes[c.dark] = "dark"
    /\ c.saved # Nothing => /\ Schemes[c.saved.light] = "light"
                           /\ Schemes[c.saved.dark] = "dark"

\* The scheme that applies is the one in use, or the system has just changed it.
SchemeKnown(c) ==
    /\ ~c.destroyed /\ ~c.changed => c.resolvedScheme = ResolveScheme(c, c.mode)
    /\ c.changed => c.listening
    /\ c.listening => c.mode = "system" /\ ~c.destroyed
    /\ ~c.destroyed /\ c.mode = "system" => c.listening

SavedAsUsed(c) ==
    c.saved # Nothing /\ ~c.unsaved =>
        /\ c.mode = c.saved.mode
        /\ c.light # Defaults["light"] => c.light = c.saved.light
        /\ c.saved.light \in c.catalog => c.light = c.saved.light
        /\ c.dark # Defaults["dark"] => c.dark = c.saved.dark
        /\ c.saved.dark \in c.catalog => c.dark = c.saved.dark

SnapshotCurrent(c) == c.snapshot # Nothing => c.snapshot = Built(c)

\* An element shows what it should, or is still to be told.
EveryoneTold(c) ==
    \A e \in Elements : Contains(c.listeners, e) =>
        c.shows[e] = Built(c) \/ \E i \in DOMAIN c.telling : Contains(c.telling[i], e)

\* What holds of a controller whose listeners are yet to be told of a change.
ThemeSettled(c) == ThemeTyped(c) /\ NamesValid(c) /\ SchemeKnown(c) /\ SavedAsUsed(c)

ThemeInv(c) == ThemeSettled(c) /\ SnapshotCurrent(c) /\ EveryoneTold(c)

LEMMA BuiltTyped ==
    ASSUME NEW c, ThemeTyped(c), NamesValid(c)
    PROVE  /\ Built(c) \in Snapshots
           /\ SelectionOf(c) \in Selections
           /\ SelectionOf(c).mode = c.mode /\ SelectionOf(c).light = c.light
           /\ SelectionOf(c).dark = c.dark
  BY DEF ThemeTyped, NamesValid, Built, Snapshots, SelectionOf, Selections, Catalogs

LEMMA PublishKeeps ==
    ASSUME NEW c, ThemeSettled(c)
    PROVE  ThemeInv(Publish(c))
  <1> DEFINE telling == <<c.listeners>> \o c.telling
             t == Publish(c)
  <1>1. telling \in Seq(Seq(Listeners)) /\ 1 \in DOMAIN telling
                                        /\ telling[1] = c.listeners
    BY DEF ThemeSettled, ThemeTyped
  <1>2. t = [c EXCEPT !.snapshot = Nothing, !.telling = telling]
    BY DEF Publish
  <1> HIDE DEF telling, t
  <1>3. /\ DOMAIN t = ThemeFields /\ t.mode = c.mode /\ t.light = c.light
        /\ t.dark = c.dark /\ t.resolvedScheme = c.resolvedScheme
        /\ t.snapshot = Nothing /\ t.destroyed = c.destroyed
        /\ t.listeners = c.listeners /\ t.telling = telling /\ t.catalog = c.catalog
        /\ t.prefersDark = c.prefersDark /\ t.listening = c.listening
        /\ t.changed = c.changed /\ t.saved = c.saved /\ t.denied = c.denied
        /\ t.unsaved = c.unsaved /\ t.shows = c.shows
    BY <1>2 DEF ThemeSettled, ThemeTyped
  <1>4. ThemeSettled(t)
    BY <1>1, <1>3 DEF ThemeSettled, ThemeTyped, NamesValid, SchemeKnown, SavedAsUsed,
                     ResolveScheme, Preferred
  <1>5. SnapshotCurrent(t) /\ EveryoneTold(t)
    BY <1>1, <1>3 DEF SnapshotCurrent, EveryoneTold
  <1> QED  BY <1>4, <1>5 DEF ThemeInv, t

LEMMA PersistKeeps ==
    ASSUME NEW c, ThemeTyped(c), NamesValid(c), SchemeKnown(c)
    PROVE  ThemeSettled(Persist(c))
  <1> DEFINE t == Persist(c)
             saved == SelectionOf(c)
  <1>1. /\ DOMAIN t = ThemeFields /\ t.mode = c.mode /\ t.light = c.light
        /\ t.dark = c.dark /\ t.resolvedScheme = c.resolvedScheme
        /\ t.snapshot = c.snapshot /\ t.destroyed = c.destroyed
        /\ t.listeners = c.listeners /\ t.telling = c.telling /\ t.catalog = c.catalog
        /\ t.prefersDark = c.prefersDark /\ t.listening = c.listening
        /\ t.changed = c.changed /\ t.denied = c.denied /\ t.shows = c.shows
        /\ t.saved = (IF c.denied THEN c.saved ELSE saved)
        /\ t.unsaved = c.denied
    BY DEF Persist, ThemeTyped
  <1> HIDE DEF t, saved
  <1>2. /\ saved \in Selections /\ saved.mode = c.mode /\ saved.light = c.light
        /\ saved.dark = c.dark
    BY BuiltTyped DEF saved
  <1>3. ThemeTyped(t)
    BY <1>1, <1>2 DEF ThemeTyped
  <1>4. NamesValid(t) /\ SchemeKnown(t)
    BY <1>1, <1>2 DEF NamesValid, SchemeKnown, ResolveScheme, Preferred
  <1>5. SavedAsUsed(t)
    BY <1>1, <1>2 DEF SavedAsUsed
  <1> QED  BY <1>3, <1>4, <1>5 DEF ThemeSettled, t

LEMMA SetModeKeeps ==
    ASSUME NEW c, ThemeInv(c), NEW mode \in Modes
    PROVE  ThemeInv(SetMode(c, mode))
  <1>1. CASE c.destroyed \/ mode = c.mode
    BY <1>1 DEF SetMode
  <1>2. CASE ~(c.destroyed \/ mode = c.mode)
    <2> DEFINE heard == Listening([c EXCEPT !.mode = mode], mode)
               scheme == ResolveScheme(heard, mode)
               t == [heard EXCEPT !.resolvedScheme = scheme]
    <2>1. /\ DOMAIN heard = ThemeFields /\ heard.mode = mode /\ heard.light = c.light
          /\ heard.dark = c.dark /\ heard.resolvedScheme = c.resolvedScheme
          /\ heard.snapshot = c.snapshot /\ heard.destroyed = c.destroyed
          /\ heard.listeners = c.listeners /\ heard.telling = c.telling
          /\ heard.catalog = c.catalog /\ heard.prefersDark = c.prefersDark
          /\ heard.listening = (mode = "system")
          /\ heard.changed \in BOOLEAN /\ (heard.changed => mode = "system")
          /\ heard.denied = c.denied /\ heard.unsaved = c.unsaved
          /\ heard.shows = c.shows /\ heard.saved = c.saved
      BY DEF Listening, ThemeInv, ThemeSettled, ThemeTyped
    <2> HIDE DEF heard
    <2>2. scheme \in {"light", "dark"}
      BY DEF ResolveScheme, Preferred, Modes
    <2>3. /\ DOMAIN t = ThemeFields /\ t.mode = mode /\ t.light = c.light
          /\ t.dark = c.dark /\ t.resolvedScheme = scheme
          /\ t.snapshot = c.snapshot /\ t.destroyed = c.destroyed
          /\ t.listeners = c.listeners /\ t.telling = c.telling
          /\ t.catalog = c.catalog /\ t.prefersDark = c.prefersDark
          /\ t.listening = (mode = "system")
          /\ t.changed \in BOOLEAN /\ (t.changed => mode = "system")
          /\ t.denied = c.denied /\ t.unsaved = c.unsaved
          /\ t.shows = c.shows /\ t.saved = c.saved
      <3> HIDE DEF scheme
      <3> QED  BY <2>1
    <2>4. scheme = ResolveScheme(t, mode)
      BY <2>1, <2>3 DEF ResolveScheme, Preferred
    <2> HIDE DEF scheme, t
    <2>5. ThemeTyped(t)
      BY <2>2, <2>3 DEF ThemeInv, ThemeSettled, ThemeTyped
    <2>6. NamesValid(t) /\ SchemeKnown(t)
      BY <1>2, <2>3, <2>4 DEF ThemeInv, ThemeSettled, NamesValid, SchemeKnown
    <2>7. SetMode(c, mode) = Publish(Persist(t))
      BY <1>2 DEF SetMode, t, heard, scheme
    <2> QED  BY <2>5, <2>6, <2>7, PersistKeeps, PublishKeeps
  <1> QED  BY <1>1, <1>2

LEMMA SetThemeKeeps ==
    ASSUME NEW c, ThemeInv(c), NEW name \in DOMAIN Schemes
    PROVE  ThemeInv(SetTheme(c, name))
  <1>1. CASE c.destroyed \/ name \notin c.catalog \/ c[Schemes[name]] = name
    BY <1>1 DEF SetTheme
  <1>2. CASE ~(c.destroyed \/ name \notin c.catalog \/ c[Schemes[name]] = name)
    <2> DEFINE t == [c EXCEPT ![Schemes[name]] = name]
    <2>1. Schemes[name] \in {"light", "dark"}
      BY ThemesAssumption
    <2>2. /\ DOMAIN t = ThemeFields /\ t.mode = c.mode
          /\ t.light = (IF Schemes[name] = "light" THEN name ELSE c.light)
          /\ t.dark = (IF Schemes[name] = "dark" THEN name ELSE c.dark)
          /\ t.resolvedScheme = c.resolvedScheme
          /\ t.snapshot = c.snapshot /\ t.destroyed = c.destroyed
          /\ t.listeners = c.listeners /\ t.telling = c.telling
          /\ t.catalog = c.catalog /\ t.prefersDark = c.prefersDark
          /\ t.listening = c.listening /\ t.changed = c.changed
          /\ t.denied = c.denied /\ t.unsaved = c.unsaved
          /\ t.shows = c.shows /\ t.saved = c.saved
      BY <2>1 DEF ThemeInv, ThemeSettled, ThemeTyped
    <2> HIDE DEF t
    <2>3. ThemeTyped(t)
      BY <2>2 DEF ThemeInv, ThemeSettled, ThemeTyped
    <2>4. NamesValid(t) /\ SchemeKnown(t)
      BY <1>2, <2>1, <2>2
         DEF ThemeInv, ThemeSettled, NamesValid, SchemeKnown, ResolveScheme, Preferred
    <2>5. SetTheme(c, name) = Publish(Persist(t))
      BY <1>2 DEF SetTheme, t
    <2> QED  BY <2>3, <2>4, <2>5, PersistKeeps, PublishKeeps
  <1> QED  BY <1>1, <1>2

LEMMA MediaChangeKeeps ==
    ASSUME NEW c, ThemeInv(c), c.listening
    PROVE  ThemeInv(OnMediaChange(c))
  <1> DEFINE heard == [c EXCEPT !.changed = FALSE]
             t == [heard EXCEPT !.resolvedScheme = Preferred(c)]
  <1>0. Preferred(c) \in {"light", "dark"} /\ c.mode = "system"
    BY DEF Preferred, ThemeInv, ThemeSettled, SchemeKnown
  <1>1. /\ DOMAIN heard = ThemeFields /\ heard.mode = c.mode /\ heard.light = c.light
        /\ heard.dark = c.dark /\ heard.resolvedScheme = c.resolvedScheme
        /\ heard.snapshot = c.snapshot /\ heard.destroyed = c.destroyed
        /\ heard.listeners = c.listeners /\ heard.telling = c.telling
        /\ heard.catalog = c.catalog /\ heard.prefersDark = c.prefersDark
        /\ heard.listening = c.listening /\ heard.changed = FALSE
        /\ heard.denied = c.denied /\ heard.unsaved = c.unsaved
        /\ heard.shows = c.shows /\ heard.saved = c.saved
    BY DEF ThemeInv, ThemeSettled, ThemeTyped
  <1> HIDE DEF heard
  <1>2. CASE Preferred(c) = c.resolvedScheme
    <2>1. ThemeSettled(heard)
      <3>1. ThemeTyped(heard)
        BY <1>1 DEF ThemeInv, ThemeSettled, ThemeTyped
      <3>2. NamesValid(heard)
        BY <1>1 DEF ThemeInv, ThemeSettled, NamesValid
      <3>3. SchemeKnown(heard)
        BY <1>0, <1>1, <1>2
           DEF ThemeInv, ThemeSettled, SchemeKnown, ResolveScheme, Preferred
      <3>4. SavedAsUsed(heard)
        BY <1>1 DEF ThemeInv, ThemeSettled, SavedAsUsed
      <3> QED  BY <3>1, <3>2, <3>3, <3>4 DEF ThemeSettled
    <2>2. Built(heard) = Built(c)
      BY <1>1, <1>2, <1>0 DEF Built
    <2>3. SnapshotCurrent(heard) /\ EveryoneTold(heard)
      BY <1>1, <2>2 DEF ThemeInv, SnapshotCurrent, EveryoneTold
    <2> QED  BY <1>2, <2>1, <2>3 DEF OnMediaChange, heard, ThemeInv
  <1>3. CASE Preferred(c) # c.resolvedScheme
    <2>1. /\ DOMAIN t = ThemeFields /\ t.mode = c.mode /\ t.light = c.light
          /\ t.dark = c.dark /\ t.resolvedScheme = Preferred(c)
          /\ t.snapshot = c.snapshot /\ t.destroyed = c.destroyed
          /\ t.listeners = c.listeners /\ t.telling = c.telling
          /\ t.catalog = c.catalog /\ t.prefersDark = c.prefersDark
          /\ t.listening = c.listening /\ t.changed = FALSE
          /\ t.denied = c.denied /\ t.unsaved = c.unsaved
          /\ t.shows = c.shows /\ t.saved = c.saved
      BY <1>1
    <2> HIDE DEF t
    <2>2. ThemeTyped(t)
      BY <1>0, <2>1 DEF ThemeInv, ThemeSettled, ThemeTyped
    <2>3. NamesValid(t)
      BY <2>1 DEF ThemeInv, ThemeSettled, NamesValid
    <2>4. SchemeKnown(t)
      BY <1>0, <2>1 DEF ThemeInv, ThemeSettled, SchemeKnown, ResolveScheme, Preferred
    <2>5. SavedAsUsed(t)
      BY <2>1 DEF ThemeInv, ThemeSettled, SavedAsUsed
    <2>6. ThemeSettled(t)
      BY <2>2, <2>3, <2>4, <2>5 DEF ThemeSettled
    <2> QED  BY <1>3, <2>6, PublishKeeps DEF OnMediaChange, heard, t
  <1> QED  BY <1>2, <1>3

\* A controller that shows and tells the same, but whose listeners are others or
\* whose snapshot has been asked for.
LEMMA ListenersKeep ==
    ASSUME NEW c, ThemeInv(c), NEW listeners \in Seq(Listeners),
           \A e \in Elements : Contains(listeners, e) => Contains(c.listeners, e)
    PROVE  ThemeInv([c EXCEPT !.listeners = listeners])
  <1> DEFINE t == [c EXCEPT !.listeners = listeners]
  <1>1. /\ DOMAIN t = ThemeFields /\ t.mode = c.mode /\ t.light = c.light
        /\ t.dark = c.dark /\ t.resolvedScheme = c.resolvedScheme
        /\ t.snapshot = c.snapshot /\ t.destroyed = c.destroyed
        /\ t.listeners = listeners /\ t.telling = c.telling /\ t.catalog = c.catalog
        /\ t.prefersDark = c.prefersDark /\ t.listening = c.listening
        /\ t.changed = c.changed /\ t.saved = c.saved /\ t.denied = c.denied
        /\ t.unsaved = c.unsaved /\ t.shows = c.shows
    BY DEF ThemeInv, ThemeSettled, ThemeTyped
  <1> HIDE DEF t
  <1>2. ThemeSettled(t)
    BY <1>1 DEF ThemeInv, ThemeSettled, ThemeTyped, NamesValid, SchemeKnown, SavedAsUsed,
                ResolveScheme, Preferred
  <1>3. Built(t) = Built(c)
    BY <1>1 DEF Built, ThemeInv, ThemeSettled, ThemeTyped
  <1>4. SnapshotCurrent(t) /\ EveryoneTold(t)
    BY <1>1, <1>3 DEF ThemeInv, SnapshotCurrent, EveryoneTold
  <1> QED  BY <1>2, <1>4 DEF ThemeInv, t

\* A list without what was at one place has everything else, in order.
LEMMA RemoveAtIs ==
    ASSUME NEW S, NEW s \in Seq(S), NEW at \in 1 .. Len(s)
    PROVE  /\ RemoveAt(s, at) \in Seq(S) /\ Len(RemoveAt(s, at)) = Len(s) - 1
           /\ \A i \in 1 .. Len(s) - 1 :
                RemoveAt(s, at)[i] = IF i < at THEN s[i] ELSE s[i + 1]
  <1> DEFINE before == SubSeq(s, 1, at - 1)
             after == SubSeq(s, at + 1, Len(s))
  <1>0. Len(s) \in Nat /\ at \in Nat /\ 1 <= at /\ at <= Len(s)
    OBVIOUS
  <1>1. /\ before \in Seq(S) /\ Len(before) = at - 1
        /\ \A i \in 1 .. at - 1 : before[i] = s[i]
    BY <1>0
  <1>2. after \in Seq(S)
    BY <1>0, SubSeqProperties
  <1>3. /\ Len(after) = Len(s) - at
        /\ \A i \in 1 .. Len(s) - at : after[i] = s[at + i]
    BY <1>0
  <1>4. RemoveAt(s, at) = before \o after
    BY DEF RemoveAt
  <1> HIDE DEF before, after
  <1>5. /\ before \o after \in Seq(S)
        /\ Len(before \o after) = Len(before) + Len(after)
        /\ \A i \in 1 .. Len(before) + Len(after) :
             (before \o after)[i] = IF i <= Len(before) THEN before[i]
                                    ELSE after[i - Len(before)]
    BY <1>1, <1>2
  <1>6. Len(before) + Len(after) = Len(s) - 1
    BY <1>0, <1>1, <1>3
  <1>7. ASSUME NEW i \in 1 .. Len(s) - 1
        PROVE  (before \o after)[i] = IF i < at THEN s[i] ELSE s[i + 1]
    <2>1. CASE i < at
      BY <1>0, <1>1, <1>5, <1>6, <2>1
    <2>2. CASE ~(i < at)
      <3>1. (before \o after)[i] = after[i - (at - 1)]
        BY <1>0, <1>1, <1>5, <1>6, <2>2
      <3>2. i - (at - 1) \in 1 .. Len(s) - at /\ at + (i - (at - 1)) = i + 1
        BY <1>0, <2>2
      <3> QED  BY <1>3, <2>2, <3>1, <3>2
    <2> QED  BY <2>1, <2>2
  <1> QED  BY <1>4, <1>5, <1>6, <1>7

LEMMA UnsubscribeKeeps ==
    ASSUME NEW c, ThemeInv(c), NEW listener \in Listeners
    PROVE  ThemeInv(Unsubscribe(c, listener))
  <1> DEFINE at == CHOOSE i \in DOMAIN c.listeners : c.listeners[i] = listener
             left == RemoveAt(c.listeners, at)
             listeners == IF ~Contains(c.listeners, listener) THEN c.listeners ELSE left
  <1>1. c.listeners \in Seq(Listeners)
    BY DEF ThemeInv, ThemeSettled, ThemeTyped
  <1>2. Contains(c.listeners, listener) => at \in 1 .. Len(c.listeners)
    BY <1>1 DEF Contains
  <1> HIDE DEF at
  <1>3. /\ listeners \in Seq(Listeners)
        /\ \A e \in Elements : Contains(listeners, e) => Contains(c.listeners, e)
    <2>1. CASE ~Contains(c.listeners, listener)
      BY <1>1, <2>1
    <2>2. CASE Contains(c.listeners, listener)
      <3>1. /\ left \in Seq(Listeners) /\ Len(left) = Len(c.listeners) - 1
            /\ \A i \in 1 .. Len(c.listeners) - 1 :
                 left[i] = IF i < at THEN c.listeners[i] ELSE c.listeners[i + 1]
        BY <1>1, <1>2, <2>2, RemoveAtIs
      <3>2. Len(c.listeners) \in Nat
        BY <1>1
      <3> HIDE DEF left
      <3>3. ASSUME NEW e \in Elements, Contains(left, e)
            PROVE  Contains(c.listeners, e)
        <4>1. PICK i \in 1 .. Len(left) : left[i] = e
          BY <3>1, <3>3 DEF Contains
        <4>2. c.listeners[i] = e \/ c.listeners[i + 1] = e
          BY <3>1, <4>1
        <4>3. i \in 1 .. Len(c.listeners) /\ i + 1 \in 1 .. Len(c.listeners)
          BY <3>1, <3>2, <4>1
        <4> QED  BY <1>1, <4>2, <4>3 DEF Contains
      <3> QED  BY <2>2, <3>1, <3>3
    <2> QED  BY <2>1, <2>2
  <1>4. Unsubscribe(c, listener) = [c EXCEPT !.listeners = listeners]
    BY DEF Unsubscribe, at
  <1> HIDE DEF listeners
  <1> QED  BY <1>3, <1>4, ListenersKeep

LEMMA HostSubscribes == ASSUME NEW c, ThemeInv(c) PROVE ThemeInv(Subscribe(c, "host"))
  <1> DEFINE listeners == IF Contains(c.listeners, "host") THEN c.listeners
                          ELSE Append(c.listeners, "host")
  <1>1. c.listeners \in Seq(Listeners) /\ "host" \in Listeners
    BY DEF ThemeInv, ThemeSettled, ThemeTyped, Listeners
  <1>2. listeners \in Seq(Listeners)
    BY <1>1
  <1>3. \A e \in Elements : Contains(listeners, e) => Contains(c.listeners, e)
    BY <1>1, CallsAssumption DEF Contains
  <1> HIDE DEF listeners
  <1>4. Subscribe(c, "host") = [c EXCEPT !.listeners = listeners]
    BY DEF Subscribe, listeners
  <1> QED  BY <1>2, <1>3, <1>4, ListenersKeep

LEMMA GetSnapshotKeeps ==
    ASSUME NEW c, ThemeInv(c)
    PROVE  LET t == GetSnapshot(c)
           IN  /\ ThemeInv(t) /\ Built(t) = Built(c) /\ t.snapshot = Built(c)
               /\ t.telling = c.telling /\ t.listeners = c.listeners
  <1> DEFINE t == GetSnapshot(c)
  <1>1. /\ DOMAIN t = ThemeFields /\ t.mode = c.mode /\ t.light = c.light
        /\ t.dark = c.dark /\ t.resolvedScheme = c.resolvedScheme
        /\ t.snapshot = Built(c) /\ t.destroyed = c.destroyed
        /\ t.listeners = c.listeners /\ t.telling = c.telling /\ t.catalog = c.catalog
        /\ t.prefersDark = c.prefersDark /\ t.listening = c.listening
        /\ t.changed = c.changed /\ t.saved = c.saved /\ t.denied = c.denied
        /\ t.unsaved = c.unsaved /\ t.shows = c.shows
    BY DEF GetSnapshot, ThemeInv, ThemeSettled, ThemeTyped, SnapshotCurrent
  <1> HIDE DEF t
  <1>2. Built(t) = Built(c) /\ Built(c) \in Snapshots
    <2>1. Built(c) \in Snapshots
      BY BuiltTyped DEF ThemeInv, ThemeSettled
    <2>2. Built(t) = Built(c)
      BY <1>1 DEF Built, ThemeInv, ThemeSettled, ThemeTyped
    <2> QED  BY <2>1, <2>2
  <1>3. ThemeSettled(t)
    BY <1>1, <1>2 DEF ThemeInv, ThemeSettled, ThemeTyped, NamesValid, SchemeKnown, SavedAsUsed,
                      ResolveScheme, Preferred
  <1>4. SnapshotCurrent(t) /\ EveryoneTold(t)
    BY <1>1, <1>2 DEF ThemeInv, SnapshotCurrent, EveryoneTold
  <1> QED  BY <1>1, <1>2, <1>3, <1>4 DEF ThemeInv, t

\* An element that is themed, and perhaps only then connected, shows what it should,
\* also if it was struck from the list of those still to be told.
LEMMA ThemedKeeps ==
    ASSUME NEW c, ThemeInv(c), NEW element \in Elements,
           NEW telling \in Seq(Seq(Listeners)), NEW listeners \in Seq(Listeners),
           \A e \in Elements \ {element} :
             /\ Contains(listeners, e) => Contains(c.listeners, e)
             /\ (\E i \in DOMAIN c.telling : Contains(c.telling[i], e))
                  => \E i \in DOMAIN telling : Contains(telling[i], e),
           NEW u,
           /\ DOMAIN u = ThemeFields /\ u.mode = c.mode /\ u.light = c.light
           /\ u.dark = c.dark /\ u.resolvedScheme = c.resolvedScheme
           /\ u.snapshot = Built(c) /\ u.destroyed = c.destroyed
           /\ u.listeners = listeners /\ u.telling = telling /\ u.catalog = c.catalog
           /\ u.prefersDark = c.prefersDark /\ u.listening = c.listening
           /\ u.changed = c.changed /\ u.saved = c.saved /\ u.denied = c.denied
           /\ u.unsaved = c.unsaved /\ u.shows = [c.shows EXCEPT ![element] = Built(c)]
    PROVE  ThemeInv(u)
  <1> DEFINE shows == [c.shows EXCEPT ![element] = Built(c)]
  <1>1. Built(c) \in Snapshots
    BY BuiltTyped DEF ThemeInv, ThemeSettled
  <1>2. /\ shows \in [Elements -> Snapshots \cup {Nothing}] /\ shows[element] = Built(c)
        /\ \A e \in Elements \ {element} : shows[e] = c.shows[e]
    BY <1>1 DEF ThemeInv, ThemeSettled, ThemeTyped
  <1>3. u.shows = shows
    OBVIOUS
  <1> HIDE DEF shows
  <1>4. ThemeSettled(u)
    BY <1>1, <1>2, <1>3 DEF ThemeInv, ThemeSettled, ThemeTyped, NamesValid, SchemeKnown,
                           SavedAsUsed, ResolveScheme, Preferred
  <1>5. Built(u) = Built(c)
    BY DEF Built, ThemeInv, ThemeSettled, ThemeTyped
  <1>6. SnapshotCurrent(u) /\ EveryoneTold(u)
    BY <1>2, <1>3, <1>5 DEF ThemeInv, SnapshotCurrent, EveryoneTold
  <1> QED  BY <1>4, <1>6 DEF ThemeInv

LEMMA ConnectKeeps ==
    ASSUME NEW c, ThemeInv(c), NEW element \in Elements
    PROVE  ThemeInv(ConnectThemeController(c, element))
  <1> DEFINE listeners == IF Contains(c.listeners, element) THEN c.listeners
                          ELSE Append(c.listeners, element)
             u == ConnectThemeController(c, element)
  <1>1. c.listeners \in Seq(Listeners) /\ element \in Listeners
    BY DEF ThemeInv, ThemeSettled, ThemeTyped, Listeners
  <1>2. /\ listeners \in Seq(Listeners)
        /\ \A e \in Elements \ {element} : Contains(listeners, e) => Contains(c.listeners, e)
    BY <1>1 DEF Contains
  <1>3. c.telling \in Seq(Seq(Listeners))
    BY DEF ThemeInv, ThemeSettled, ThemeTyped
  <1>4. /\ DOMAIN u = ThemeFields /\ u.mode = c.mode /\ u.light = c.light
        /\ u.dark = c.dark /\ u.resolvedScheme = c.resolvedScheme
        /\ u.snapshot = Built(c) /\ u.destroyed = c.destroyed /\ u.listeners = listeners
        /\ u.telling = c.telling /\ u.catalog = c.catalog
        /\ u.prefersDark = c.prefersDark /\ u.listening = c.listening
        /\ u.changed = c.changed /\ u.saved = c.saved /\ u.denied = c.denied
        /\ u.unsaved = c.unsaved /\ u.shows = [c.shows EXCEPT ![element] = Built(c)]
    BY DEF ConnectThemeController, Subscribe, ApplyThemeToElement, GetSnapshot, ThemeInv,
           ThemeSettled, ThemeTyped, SnapshotCurrent
  <1> HIDE DEF listeners, u
  <1>5. ThemeInv(u)
    BY <1>2, <1>3, <1>4, ThemedKeeps
  <1> QED  BY <1>5 DEF u

LEMMA DestroyKeeps == ASSUME NEW c, ThemeInv(c) PROVE ThemeInv(Destroy(c))
  <1> DEFINE t == Destroy(c)
  <1>1. /\ DOMAIN t = ThemeFields /\ t.mode = c.mode /\ t.light = c.light
        /\ t.dark = c.dark /\ t.resolvedScheme = c.resolvedScheme
        /\ t.snapshot = c.snapshot /\ t.destroyed = TRUE /\ t.listeners = <<>>
        /\ t.telling = c.telling /\ t.catalog = c.catalog
        /\ t.prefersDark = c.prefersDark /\ t.listening = FALSE /\ t.changed = FALSE
        /\ t.saved = c.saved /\ t.denied = c.denied /\ t.unsaved = c.unsaved
        /\ t.shows = c.shows
    BY DEF Destroy, ThemeInv, ThemeSettled, ThemeTyped
  <1> HIDE DEF t
  <1>2. Built(t) = Built(c)
    BY <1>1 DEF Built, ThemeInv, ThemeSettled, ThemeTyped
  <1>3. ThemeSettled(t)
    <2>1. <<>> \in Seq(Listeners) /\ TRUE \in BOOLEAN /\ FALSE \in BOOLEAN
      OBVIOUS
    <2>2. ThemeTyped(t)
      BY <1>1, <2>1 DEF ThemeInv, ThemeSettled, ThemeTyped
    <2> QED
      BY <1>1, <2>2 DEF ThemeInv, ThemeSettled, NamesValid, SchemeKnown, SavedAsUsed
  <1>4. SnapshotCurrent(t) /\ EveryoneTold(t)
    BY <1>1, <1>2 DEF ThemeInv, SnapshotCurrent, EveryoneTold, Contains
  <1> QED  BY <1>3, <1>4 DEF ThemeInv, t

\* A controller made anew from what was saved, whatever controller there was.
LEMMA CreateKeeps ==
    ASSUME NEW c, DOMAIN c = ThemeFields, c.saved \in Selections \cup {Nothing},
           c.prefersDark \in BOOLEAN, c.denied \in BOOLEAN,
           c.shows \in [Elements -> Snapshots \cup {Nothing}],
           c.saved # Nothing => /\ Schemes[c.saved.light] = "light"
                                /\ Schemes[c.saved.dark] = "dark",
           NEW catalog \in Catalogs, NEW mode \in Modes, NEW corrupt \in BOOLEAN
    PROVE  ThemeInv(CreateThemeController(c, catalog, mode, corrupt))
  <1> DEFINE loaded == IF c.denied \/ corrupt THEN Nothing ELSE c.saved
             loadedMode == IF loaded = Nothing THEN mode ELSE loaded.mode
             named(scheme) ==
               ValidThemeNameFor(catalog, scheme,
                                 IF loaded = Nothing THEN Nothing ELSE loaded[scheme])
             light == named("light")
             dark == named("dark")
             unsaved == (loaded # c.saved)
             scheme == ResolveScheme(c, loadedMode)
             t == CreateThemeController(c, catalog, mode, corrupt)
  <1>1. /\ DOMAIN t = ThemeFields /\ t.mode = loadedMode /\ t.light = light
        /\ t.dark = dark /\ t.resolvedScheme = scheme /\ t.snapshot = Nothing
        /\ t.destroyed = FALSE /\ t.listeners = <<>> /\ t.telling = <<>>
        /\ t.catalog = catalog /\ t.prefersDark = c.prefersDark
        /\ t.listening = (loadedMode = "system") /\ t.changed = FALSE
        /\ t.saved = c.saved /\ t.denied = c.denied /\ t.unsaved = unsaved
        /\ t.shows = c.shows
    <2> DEFINE created == [c EXCEPT
            !.catalog = catalog, !.mode = loadedMode, !.light = light, !.dark = dark,
            !.snapshot = Nothing, !.destroyed = FALSE, !.listeners = <<>>,
            !.telling = <<>>, !.changed = FALSE, !.listening = FALSE,
            !.unsaved = unsaved]
    <2>1. t = Listening([created EXCEPT !.resolvedScheme = scheme], loadedMode)
      BY DEF CreateThemeController
    <2> HIDE DEF light, dark, unsaved, scheme, loadedMode, t
    <2> QED  BY <2>1 DEF Listening
  <1>2. loadedMode \in Modes
    BY DEF Selections
  <1>3. scheme \in {"light", "dark"}
    BY <1>2 DEF ResolveScheme, Preferred, Modes
  <1>4. /\ light \in catalog /\ Schemes[light] = "light"
        /\ dark \in catalog /\ Schemes[dark] = "dark"
    BY ThemesAssumption DEF ValidThemeNameFor, Catalogs
  <1>5. loaded # Nothing =>
          /\ loaded = c.saved /\ loadedMode = c.saved.mode
          /\ light # Defaults["light"] => light = c.saved.light
          /\ c.saved.light \in catalog => light = c.saved.light
          /\ dark # Defaults["dark"] => dark = c.saved.dark
          /\ c.saved.dark \in catalog => dark = c.saved.dark
    BY DEF ValidThemeNameFor
  <1>6. unsaved \in BOOLEAN /\ (c.saved # Nothing /\ ~unsaved => loaded # Nothing)
    OBVIOUS
  <1> HIDE DEF t, loaded, light, dark, unsaved
  <1>7. ResolveScheme(t, loadedMode) = scheme
    BY <1>1 DEF ResolveScheme, Preferred
  <1> HIDE DEF scheme, loadedMode
  <1>8. ThemeTyped(t)
    <2>1. /\ <<>> \in Seq(Listeners) /\ <<>> \in Seq(Seq(Listeners))
          /\ FALSE \in BOOLEAN /\ (loadedMode = "system") \in BOOLEAN
      OBVIOUS
    <2> QED  BY <1>1, <1>2, <1>3, <1>6, <2>1 DEF ThemeTyped
  <1>9. NamesValid(t) /\ SchemeKnown(t) /\ SavedAsUsed(t)
    <2>1. NamesValid(t)
      BY <1>1, <1>4 DEF NamesValid
    <2>2. SchemeKnown(t)
      BY <1>1, <1>7 DEF SchemeKnown
    <2>3. SavedAsUsed(t)
      BY <1>1, <1>5, <1>6 DEF SavedAsUsed
    <2> QED  BY <2>1, <2>2, <2>3
  <1>10. SnapshotCurrent(t) /\ EveryoneTold(t)
    BY <1>1 DEF SnapshotCurrent, EveryoneTold, Contains
  <1> QED  BY <1>8, <1>9, <1>10 DEF ThemeInv, ThemeSettled, t

\* What is not the controller's: the system's preference, and storage.
LEMMA PreferKeeps ==
    ASSUME NEW c, ThemeInv(c)
    PROVE  ThemeInv([c EXCEPT !.prefersDark = ~@, !.changed = c.listening])
  <1> DEFINE t == [c EXCEPT !.prefersDark = ~@, !.changed = c.listening]
  <1>1. /\ DOMAIN t = ThemeFields /\ t.mode = c.mode /\ t.light = c.light
        /\ t.dark = c.dark /\ t.resolvedScheme = c.resolvedScheme
        /\ t.snapshot = c.snapshot /\ t.destroyed = c.destroyed
        /\ t.listeners = c.listeners /\ t.telling = c.telling /\ t.catalog = c.catalog
        /\ t.prefersDark = (~c.prefersDark) /\ t.listening = c.listening
        /\ t.changed = c.listening /\ t.saved = c.saved /\ t.denied = c.denied
        /\ t.unsaved = c.unsaved /\ t.shows = c.shows
    BY DEF ThemeInv, ThemeSettled, ThemeTyped
  <1> HIDE DEF t
  <1>2. Built(t) = Built(c)
    BY <1>1 DEF Built, ThemeInv, ThemeSettled, ThemeTyped
  <1>3. ThemeSettled(t)
    BY <1>1 DEF ThemeInv, ThemeSettled, ThemeTyped, NamesValid, SchemeKnown, SavedAsUsed,
                ResolveScheme, Preferred, Modes
  <1>4. SnapshotCurrent(t) /\ EveryoneTold(t)
    BY <1>1, <1>2 DEF ThemeInv, SnapshotCurrent, EveryoneTold
  <1> QED  BY <1>3, <1>4 DEF ThemeInv, t

LEMMA DenyKeeps == ASSUME NEW c, ThemeInv(c) PROVE ThemeInv([c EXCEPT !.denied = ~@])
  <1> DEFINE t == [c EXCEPT !.denied = ~@]
  <1>1. /\ DOMAIN t = ThemeFields /\ t.mode = c.mode /\ t.light = c.light
        /\ t.dark = c.dark /\ t.resolvedScheme = c.resolvedScheme
        /\ t.snapshot = c.snapshot /\ t.destroyed = c.destroyed
        /\ t.listeners = c.listeners /\ t.telling = c.telling /\ t.catalog = c.catalog
        /\ t.prefersDark = c.prefersDark /\ t.listening = c.listening
        /\ t.changed = c.changed /\ t.saved = c.saved /\ t.denied = (~c.denied)
        /\ t.unsaved = c.unsaved /\ t.shows = c.shows
    BY DEF ThemeInv, ThemeSettled, ThemeTyped
  <1> HIDE DEF t
  <1>2. Built(t) = Built(c)
    BY <1>1 DEF Built, ThemeInv, ThemeSettled, ThemeTyped
  <1>3. ThemeSettled(t)
    BY <1>1 DEF ThemeInv, ThemeSettled, ThemeTyped, NamesValid, SchemeKnown, SavedAsUsed,
                ResolveScheme, Preferred
  <1>4. SnapshotCurrent(t) /\ EveryoneTold(t)
    BY <1>1, <1>2 DEF ThemeInv, SnapshotCurrent, EveryoneTold
  <1> QED  BY <1>3, <1>4 DEF ThemeInv, t

\* The next listener of the innermost telling is told.
LEMMA CallKeeps ==
    ASSUME NEW c, ThemeInv(c), c.telling # <<>>, Head(c.telling) # <<>>,
           NEW reaction \in Reactions,
           reaction.call # "none" => Head(Head(c.telling)) = "host"
    PROVE  ThemeInv(CallListener([c EXCEPT !.telling[1] = Tail(@)],
                                 Head(Head(c.telling)), reaction))
  <1> DEFINE listener == Head(Head(c.telling))
             telling == [c.telling EXCEPT ![1] = Tail(@)]
             t == [c EXCEPT !.telling[1] = Tail(@)]
  <1>1. /\ c.telling \in Seq(Seq(Listeners)) /\ 1 \in DOMAIN c.telling
        /\ Head(c.telling) = c.telling[1] /\ c.telling[1] \in Seq(Listeners)
        /\ c.telling[1] # <<>> /\ c.listeners \in Seq(Listeners)
    BY DEF ThemeInv, ThemeSettled, ThemeTyped
  <1>2. /\ listener \in Listeners /\ Tail(c.telling[1]) \in Seq(Listeners)
        /\ \A e : Contains(c.telling[1], e) => e = listener \/ Contains(Tail(c.telling[1]), e)
    <2>1. /\ Len(c.telling[1]) \in Nat /\ Len(c.telling[1]) >= 1
          /\ listener = c.telling[1][1] /\ listener \in Listeners
      BY <1>1
    <2>2. /\ Tail(c.telling[1]) \in Seq(Listeners)
          /\ Len(Tail(c.telling[1])) = Len(c.telling[1]) - 1
          /\ \A i \in 1 .. Len(c.telling[1]) - 1 : Tail(c.telling[1])[i] = c.telling[1][i + 1]
      BY <1>1
    <2>3. ASSUME NEW e, NEW i \in 1 .. Len(c.telling[1]), c.telling[1][i] = e, e # listener
          PROVE  Contains(Tail(c.telling[1]), e)
      <3>1. i - 1 \in 1 .. Len(c.telling[1]) - 1 /\ (i - 1) + 1 = i
        BY <2>1, <2>3
      <3>2. Tail(c.telling[1])[i - 1] = e
        BY <2>2, <2>3, <3>1
      <3> QED  BY <2>2, <3>1, <3>2 DEF Contains
    <2> HIDE DEF listener
    <2> QED  BY <2>1, <2>2, <2>3 DEF Contains
  <1>3. /\ telling \in Seq(Seq(Listeners)) /\ DOMAIN telling = DOMAIN c.telling
        /\ telling[1] = Tail(c.telling[1])
        /\ \A i \in DOMAIN c.telling \ {1} : telling[i] = c.telling[i]
    BY <1>1, <1>2, ExceptSeq
  <1>4. /\ DOMAIN t = ThemeFields /\ t.mode = c.mode /\ t.light = c.light
        /\ t.dark = c.dark /\ t.resolvedScheme = c.resolvedScheme
        /\ t.snapshot = c.snapshot /\ t.destroyed = c.destroyed
        /\ t.listeners = c.listeners /\ t.telling = telling /\ t.catalog = c.catalog
        /\ t.prefersDark = c.prefersDark /\ t.listening = c.listening
        /\ t.changed = c.changed /\ t.saved = c.saved /\ t.denied = c.denied
        /\ t.unsaved = c.unsaved /\ t.shows = c.shows
    BY DEF ThemeInv, ThemeSettled, ThemeTyped
  <1> HIDE DEF t, telling, listener
  <1>5. ASSUME NEW e \in Elements, e # listener,
               NEW i \in DOMAIN c.telling, Contains(c.telling[i], e)
        PROVE  \E j \in DOMAIN telling : Contains(telling[j], e)
    BY <1>2, <1>3, <1>5
  <1>6. CASE listener \in Elements
    <2> DEFINE u == ApplyThemeToElement(t, listener)
    <2>1. CallListener(t, listener, reaction) = u
      BY <1>6, CallsAssumption DEF CallListener
    <2>2. Built(t) = Built(c)
      BY <1>4 DEF Built, ThemeInv, ThemeSettled, ThemeTyped
    <2>3. /\ DOMAIN u = ThemeFields /\ u.mode = c.mode /\ u.light = c.light
          /\ u.dark = c.dark /\ u.resolvedScheme = c.resolvedScheme
          /\ u.snapshot = Built(c) /\ u.destroyed = c.destroyed
          /\ u.listeners = c.listeners /\ u.telling = telling /\ u.catalog = c.catalog
          /\ u.prefersDark = c.prefersDark /\ u.listening = c.listening
          /\ u.changed = c.changed /\ u.saved = c.saved /\ u.denied = c.denied
          /\ u.unsaved = c.unsaved /\ u.shows = [c.shows EXCEPT ![listener] = Built(c)]
      BY <1>4, <2>2 DEF ApplyThemeToElement, GetSnapshot, ThemeInv, SnapshotCurrent
    <2> HIDE DEF u
    <2>4. ThemeInv(u)
      BY <1>1, <1>3, <1>5, <1>6, <2>3, ThemedKeeps
    <2> QED  BY <2>1, <2>4 DEF t, listener
  <1>7. CASE listener = "host"
    <2>1. ThemeInv(t)
      <3>1. Built(t) = Built(c)
        BY <1>4 DEF Built, ThemeInv, ThemeSettled, ThemeTyped
      <3>2. ThemeSettled(t)
        BY <1>3, <1>4 DEF ThemeInv, ThemeSettled, ThemeTyped, NamesValid, SchemeKnown,
                         SavedAsUsed, ResolveScheme, Preferred
      <3>3. SnapshotCurrent(t)
        BY <1>4, <3>1 DEF ThemeInv, SnapshotCurrent
      <3>4. EveryoneTold(t)
        <4> SUFFICES ASSUME NEW e \in Elements, Contains(t.listeners, e), t.shows[e] # Built(t)
                     PROVE  \E i \in DOMAIN t.telling : Contains(t.telling[i], e)
          BY DEF EveryoneTold
        <4>1. \E i \in DOMAIN c.telling : Contains(c.telling[i], e)
          BY <1>4, <3>1 DEF ThemeInv, EveryoneTold
        <4>2. e # listener
          BY <1>7, CallsAssumption
        <4> QED  BY <1>4, <1>5, <4>1, <4>2
      <3> QED  BY <3>2, <3>3, <3>4 DEF ThemeInv
    <2>2. listener \notin Elements
      BY <1>7, CallsAssumption
    <2>3. CASE reaction \in [call : {"setMode"}, with : Modes]
      <3>1. CallListener(t, listener, reaction) = SetMode(t, reaction.with)
        BY <1>7, <2>2, <2>3 DEF CallListener
      <3> QED  BY <2>1, <2>3, <3>1, SetModeKeeps DEF t, listener
    <2>4. CASE reaction \in [call : {"setTheme"}, with : DOMAIN Schemes]
      <3>1. CallListener(t, listener, reaction) = SetTheme(t, reaction.with)
        BY <1>7, <2>2, <2>4 DEF CallListener
      <3> QED  BY <2>1, <2>4, <3>1, SetThemeKeeps DEF t, listener
    <2>5. CASE reaction \in [call : {"connect", "disconnect"}, with : Elements]
      <3>1. CASE reaction.call = "connect"
        <4>1. CallListener(t, listener, reaction) = ConnectThemeController(t, reaction.with)
          BY <1>7, <2>2, <3>1 DEF CallListener
        <4> QED  BY <2>1, <2>5, <4>1, ConnectKeeps DEF t, listener
      <3>2. CASE reaction.call = "disconnect"
        <4>1. CallListener(t, listener, reaction) = Unsubscribe(t, reaction.with)
          BY <1>7, <2>2, <3>2 DEF CallListener
        <4> QED  BY <2>1, <2>5, <4>1, UnsubscribeKeeps DEF t, listener, Listeners
      <3> QED  BY <2>5, <3>1, <3>2
    <2>6. CASE reaction \in [call : {"destroy", "none"}, with : {Nothing}]
      <3>1. CASE reaction.call = "destroy"
        <4>1. CallListener(t, listener, reaction) = Destroy(t)
          BY <1>7, <2>2, <3>1 DEF CallListener
        <4> QED  BY <2>1, <4>1, DestroyKeeps DEF t, listener
      <3>2. CASE reaction.call = "none"
        <4>1. CallListener(t, listener, reaction) = t
          BY <1>7, <2>2, <3>2 DEF CallListener
        <4> QED  BY <2>1, <4>1 DEF t, listener
      <3> QED  BY <2>6, <3>1, <3>2
    <2> QED  BY <2>3, <2>4, <2>5, <2>6 DEF Reactions
  <1> QED  BY <1>2, <1>6, <1>7 DEF Listeners

\* A telling that has come to its end.
LEMMA ToldKeeps ==
    ASSUME NEW c, ThemeInv(c), c.telling # <<>>, Head(c.telling) = <<>>
    PROVE  ThemeInv([c EXCEPT !.telling = Tail(@)])
  <1> DEFINE telling == Tail(c.telling)
             t == [c EXCEPT !.telling = telling]
  <1>1. /\ c.telling \in Seq(Seq(Listeners)) /\ Len(c.telling) \in Nat
        /\ Len(c.telling) >= 1 /\ c.telling[1] = <<>>
    BY DEF ThemeInv, ThemeSettled, ThemeTyped
  <1>2. /\ telling \in Seq(Seq(Listeners)) /\ Len(telling) = Len(c.telling) - 1
        /\ \A i \in 1 .. Len(c.telling) - 1 : telling[i] = c.telling[i + 1]
    BY <1>1
  <1>3. /\ DOMAIN t = ThemeFields /\ t.mode = c.mode /\ t.light = c.light
        /\ t.dark = c.dark /\ t.resolvedScheme = c.resolvedScheme
        /\ t.snapshot = c.snapshot /\ t.destroyed = c.destroyed
        /\ t.listeners = c.listeners /\ t.telling = telling /\ t.catalog = c.catalog
        /\ t.prefersDark = c.prefersDark /\ t.listening = c.listening
        /\ t.changed = c.changed /\ t.saved = c.saved /\ t.denied = c.denied
        /\ t.unsaved = c.unsaved /\ t.shows = c.shows
    BY DEF ThemeInv, ThemeSettled, ThemeTyped
  <1> HIDE DEF t, telling
  <1>4. Built(t) = Built(c)
    BY <1>3 DEF Built, ThemeInv, ThemeSettled, ThemeTyped
  <1>5. ThemeSettled(t)
    BY <1>2, <1>3 DEF ThemeInv, ThemeSettled, ThemeTyped, NamesValid, SchemeKnown,
                     SavedAsUsed, ResolveScheme, Preferred
  <1>6. ASSUME NEW e, NEW i \in DOMAIN c.telling, Contains(c.telling[i], e)
        PROVE  \E j \in DOMAIN telling : Contains(telling[j], e)
    <2>1. i # 1
      <3>1. ~Contains(<<>>, e)
        BY DEF Contains
      <3> QED  BY <1>1, <1>6, <3>1
    <2>2. i - 1 \in 1 .. Len(c.telling) - 1 /\ (i - 1) + 1 = i
      BY <1>1, <1>6, <2>1
    <2>3. DOMAIN telling = 1 .. Len(c.telling) - 1
      BY <1>2
    <2>4. i - 1 \in DOMAIN telling /\ telling[i - 1] = c.telling[i]
      BY <1>2, <2>2, <2>3
    <2> QED  BY <1>6, <2>4
  <1>7. SnapshotCurrent(t) /\ EveryoneTold(t)
    BY <1>3, <1>4, <1>6 DEF ThemeInv, SnapshotCurrent, EveryoneTold
  <1> QED  BY <1>5, <1>7 DEF ThemeInv, t, telling

ThemesInv == ThemeInv(control) /\ calls \in 0 .. MaxCalls

LEMMA ThemeStarts == ThemeInit => ThemesInv
  <1> SUFFICES ASSUME ThemeInit PROVE ThemesInv
    OBVIOUS
  <1>1. PICK dark \in BOOLEAN, mode \in Modes :
          control = CreateThemeController(Blank(dark), DOMAIN Schemes, mode, FALSE)
    BY DEF ThemeInit
  <1> DEFINE blank == Blank(dark)
  <1>2. /\ DOMAIN blank = ThemeFields /\ blank.saved = Nothing /\ blank.denied = FALSE
        /\ blank.prefersDark = dark /\ blank.shows = [element \in Elements |-> Nothing]
    BY DEF Blank
  <1>3. DOMAIN Schemes \in Catalogs
    BY ThemesAssumption DEF Catalogs
  <1>4. control = CreateThemeController(blank, DOMAIN Schemes, mode, FALSE)
    BY <1>1
  <1> HIDE DEF blank
  <1>5. ThemeInv(control)
    BY <1>2, <1>3, <1>4, CreateKeeps
  <1>6. calls \in 0 .. MaxCalls
    BY CallsAssumption DEF ThemeInit
  <1> QED  BY <1>5, <1>6 DEF ThemesInv

LEMMA ThemeKeeps == ThemesInv /\ [ThemeNext]_themeVars => ThemesInv'
  <1> SUFFICES ASSUME ThemesInv, [ThemeNext]_themeVars PROVE ThemesInv'
    OBVIOUS
  <1>0. ThemeInv(control)
    BY DEF ThemesInv
  <1>1. ASSUME NEW controllers, Calling(controllers),
               \A c \in controllers : ThemeInv(c)
        PROVE  ThemesInv'
    BY <1>1, CallsAssumption DEF Calling, ThemesInv
  <1>2. CASE Tell
    <2>1. CASE Head(control.telling) = <<>>
      BY <1>0, <1>2, <2>1, ToldKeeps DEF Tell, ThemesInv
    <2>2. CASE Head(control.telling) # <<>>
      <3>1. PICK reaction \in Reactions :
              /\ reaction.call # "none" =>
                   Head(Head(control.telling)) = "host" /\ calls < MaxCalls
              /\ calls' = IF reaction.call = "none" THEN calls ELSE calls + 1
              /\ control' = CallListener([control EXCEPT !.telling[1] = Tail(@)],
                                         Head(Head(control.telling)), reaction)
        BY <1>2, <2>2 DEF Tell
      <3>2. ThemeInv(control')
        BY <1>0, <1>2, <2>2, <3>1, CallKeeps DEF Tell
      <3>3. calls' \in 0 .. MaxCalls
        BY <3>1, CallsAssumption DEF ThemesInv
      <3> QED  BY <3>2, <3>3 DEF ThemesInv
    <2> QED  BY <2>1, <2>2
  <1>3. CASE Choose
    BY <1>0, <1>1, <1>3, SetModeKeeps, SetThemeKeeps DEF Choose
  <1>4. CASE Connect
    <2>1. ThemeInv(GetSnapshot(control))
      BY <1>0, GetSnapshotKeeps
    <2>2. \A c \in {Subscribe(control, "host"), GetSnapshot(control), Destroy(control)} :
            ThemeInv(c)
      BY <1>0, <2>1, HostSubscribes, DestroyKeeps
    <2> QED  BY <1>0, <1>1, <1>4, <2>2, ConnectKeeps, UnsubscribeKeeps DEF Connect, Listeners
  <1>5. CASE Prefer
    BY <1>0, <1>1, <1>5, PreferKeeps DEF Prefer
  <1>6. CASE MediaChange
    BY <1>0, <1>6, MediaChangeKeeps DEF MediaChange, ThemesInv
  <1>7. CASE Deny
    BY <1>0, <1>1, <1>7, DenyKeeps DEF Deny
  <1>8. CASE Reload
    <2>1. /\ DOMAIN control = ThemeFields /\ control.saved \in Selections \cup {Nothing}
          /\ control.prefersDark \in BOOLEAN /\ control.denied \in BOOLEAN
          /\ control.shows \in [Elements -> Snapshots \cup {Nothing}]
          /\ control.saved # Nothing => /\ Schemes[control.saved.light] = "light"
                                       /\ Schemes[control.saved.dark] = "dark"
      BY <1>0 DEF ThemeInv, ThemeSettled, ThemeTyped, NamesValid
    <2>2. ASSUME NEW catalog \in Catalogs, NEW mode \in {"light", "system"},
                 NEW corrupt \in BOOLEAN
          PROVE  ThemeInv(CreateThemeController(control, catalog, mode, corrupt))
      BY <2>1, CreateKeeps DEF Modes
    <2> QED  BY <1>1, <1>8, <2>2 DEF Reload
  <1>9. CASE UNCHANGED themeVars
    BY <1>9 DEF themeVars, ThemesInv
  <1> QED  BY <1>2, <1>3, <1>4, <1>5, <1>6, <1>7, <1>8, <1>9 DEF ThemeNext

LEMMA ThemeInvHonest == ThemesInv => ThemeHonest
  <1> SUFFICES ASSUME ThemesInv PROVE ThemeHonest
    OBVIOUS
  <1>1. ThemeTypeOK
    <2>1. SelectionOf(control) \in Selections
      BY BuiltTyped DEF ThemesInv, ThemeInv, ThemeSettled
    <2>2. ThemeTyped(control) /\ SchemeKnown(control)
      BY DEF ThemesInv, ThemeInv, ThemeSettled
    <2> QED
      BY <2>1, <2>2 DEF ThemesInv, ThemeTyped, SchemeKnown, ThemeTypeOK, Selections, Snapshots
  <1>2. ElementsCurrent
    <2> SUFFICES ASSUME control.telling = <<>>, ~control.changed, ~control.destroyed,
                        NEW element \in Elements, Contains(control.listeners, element)
                 PROVE  LET scheme == ResolveScheme(control, control.mode)
                        IN  control.shows[element]
                              = [mode |-> control.mode, scheme |-> scheme,
                                 theme |-> control[scheme]]
      BY DEF ElementsCurrent
    <2>1. control.shows[element] = Built(control)
      BY DEF ThemesInv, ThemeInv, EveryoneTold
    <2>2. control.resolvedScheme = ResolveScheme(control, control.mode)
      BY DEF ThemesInv, ThemeInv, ThemeSettled, SchemeKnown
    <2> QED  BY <2>1, <2>2 DEF Built
  <1>3. SelectionKept
    <2> SUFFICES ASSUME control.saved # Nothing, ~control.unsaved,
                        NEW scheme \in {"light", "dark"}
                 PROVE  /\ control.mode = control.saved.mode
                        /\ control[scheme] \in control.catalog
                        /\ Schemes[control[scheme]] = scheme
                        /\ control[scheme] # Defaults[scheme]
                             => control[scheme] = control.saved[scheme]
                        /\ control.saved[scheme] \in control.catalog
                             => control[scheme] = control.saved[scheme]
      BY DEF SelectionKept
    <2>1. NamesValid(control) /\ SavedAsUsed(control)
      BY DEF ThemesInv, ThemeInv, ThemeSettled
    <2> QED  BY <2>1 DEF NamesValid, SavedAsUsed
  <1> QED  BY <1>1, <1>2, <1>3 DEF ThemeHonest

\* However listeners call back while others are told, every connected element of a
\* live controller ends up showing the theme in use, which is the one saved.
THEOREM ThemeIsHonest == ThemeSpec => []ThemeHonest
  BY ThemeStarts, ThemeKeeps, ThemeInvHonest, PTL DEF ThemeSpec

-----------------------------------------------------------------------------
(* The statement views *)

Shapes == [data : Statements, amountFormat : {o.amountFormat : o \in StatementOptions},
           showClassification : BOOLEAN]

SheetFields == {"options", "managed", "container", "root", "rendered", "tables",
                "scheme", "attached", "used", "asked", "revisited"}

USE DEF SheetFields

\* The record and the types of what it holds.
SheetTyped(s) ==
    /\ DOMAIN s = SheetFields
    /\ s.options \in StatementOptions
    /\ s.container \in Containers \cup {NoNode}
    /\ s.rendered \in Shapes \cup {NoNode} /\ s.asked \in Shapes \cup {NoNode}
    /\ s.tables \in [Containers -> Seq(Shapes)]
    /\ DOMAIN s.scheme = Containers
    /\ s.attached \subseteq s.used /\ s.used \subseteq Containers

\* A table is where the component has been, and there is one of them unless the
\* component came back.
OneTableEach(s) ==
    /\ \A c \in Containers \ s.used : s.tables[c] = <<>>
    /\ \A c \in Containers \ s.revisited : Len(s.tables[c]) <= 1

\* The place that the component knows of is in the container, and what it
\* remembers to have drawn is what is there.
RootKnown(s) ==
    s.root # NoNode => /\ s.container \in Containers
                       /\ s.root \in DOMAIN s.tables[s.container]
                       /\ s.rendered = s.tables[s.container][s.root]

\* A component in a container has drawn what it was asked for last.
DrawnAsAsked(s) ==
    s.container # NoNode =>
        /\ s.container \in s.used
        /\ s.root # NoNode /\ s.rendered = s.asked
        /\ s.scheme[s.container] = s.options.colorScheme

SheetInv(s) ==
    SheetTyped(s) /\ OneTableEach(s) /\ RootKnown(s) /\ DrawnAsAsked(s)

\* A component that is in a container but may not have drawn there yet.
Placed(s) ==
    /\ SheetTyped(s) /\ OneTableEach(s) /\ RootKnown(s)
    /\ s.container \in s.used
    /\ s.root = NoNode => s.tables[s.container] = <<>> \/ s.container \in s.revisited

LEMMA PlacedInContainer ==
    ASSUME NEW s, SheetInv(s), NEW container \in Containers \cup {NoNode},
           container = NoNode => s.container # NoNode \/ ~(Containers \subseteq s.used)
    PROVE  /\ Placed(GetOrCreateContainer(s, container))
           /\ GetOrCreateContainer(s, container).options = s.options
  <1> DEFINE next == CASE container # NoNode -> container
                       [] container = NoNode /\ s.container # NoNode -> s.container
                       [] OTHER -> CHOOSE c \in Containers \ s.used : TRUE
  <1>1. next \in Containers
    <2>1. CASE container = NoNode /\ s.container = NoNode
      <3>1. \E c \in Containers \ s.used : TRUE
        BY <2>1
      <3> QED  BY <2>1, <3>1
    <2> QED  BY <2>1 DEF SheetInv, SheetTyped
  <1> HIDE DEF next
  <1> DEFINE placed == [s EXCEPT !.container = next, !.attached = @ \cup {next},
                                 !.used = @ \cup {next}]
             q == GetOrCreateContainer(s, container)
  <1>2. q = IF next = s.container THEN placed
            ELSE [placed EXCEPT !.root = NoNode, !.rendered = NoNode,
                                !.revisited = @ \cup (s.used \cap {next})]
    BY DEF GetOrCreateContainer, next
  <1>3. /\ DOMAIN placed = SheetFields /\ placed.options = s.options
        /\ placed.container = next /\ placed.root = s.root
        /\ placed.rendered = s.rendered /\ placed.tables = s.tables
        /\ placed.scheme = s.scheme /\ placed.attached = s.attached \cup {next}
        /\ placed.used = s.used \cup {next} /\ placed.asked = s.asked
        /\ placed.revisited = s.revisited
    BY DEF SheetInv, SheetTyped
  <1> HIDE DEF placed, q
  <1>4. CASE next = s.container
    <2>1. /\ DOMAIN q = SheetFields /\ q.options = s.options
          /\ q.container = next /\ q.root = s.root /\ q.rendered = s.rendered
          /\ q.tables = s.tables /\ q.scheme = s.scheme
          /\ q.attached = s.attached \cup {next} /\ q.used = s.used \cup {next}
          /\ q.asked = s.asked /\ q.revisited = s.revisited
      BY <1>2, <1>3, <1>4
    <2>2. s.root # NoNode /\ next # NoNode
      BY <1>1, <1>4, SheetAssumption DEF SheetInv, DrawnAsAsked
    <2>3. SheetTyped(q)
      BY <1>1, <2>1 DEF SheetInv, SheetTyped
    <2>4. OneTableEach(q) /\ RootKnown(q)
      BY <1>4, <2>1 DEF SheetInv, OneTableEach, RootKnown
    <2> QED  BY <2>1, <2>2, <2>3, <2>4 DEF Placed, q
  <1>5. CASE next # s.container
    <2>1. /\ DOMAIN q = SheetFields /\ q.options = s.options
          /\ q.container = next /\ q.root = NoNode /\ q.rendered = NoNode
          /\ q.tables = s.tables /\ q.scheme = s.scheme
          /\ q.attached = s.attached \cup {next} /\ q.used = s.used \cup {next}
          /\ q.asked = s.asked /\ q.revisited = s.revisited \cup (s.used \cap {next})
      BY <1>2, <1>3, <1>5
    <2>2. SheetTyped(q)
      BY <1>1, <2>1 DEF SheetInv, SheetTyped
    <2>3. OneTableEach(q) /\ RootKnown(q)
      BY <2>1 DEF SheetInv, OneTableEach, RootKnown
    <2>4. s.tables[next] = <<>> \/ next \in s.used
      BY <1>1 DEF SheetInv, OneTableEach
    <2> QED  BY <2>1, <2>2, <2>3, <2>4 DEF Placed, q
  <1> QED  BY <1>4, <1>5

LEMMA SchemeApplied ==
    ASSUME NEW s, SheetTyped(s), s.container # NoNode
    PROVE  LET t == ApplyHostColorScheme(s)
           IN  /\ DOMAIN t = SheetFields /\ t.options = s.options
               /\ t.container = s.container
               /\ t.root = s.root /\ t.rendered = s.rendered /\ t.tables = s.tables
               /\ t.attached = s.attached /\ t.used = s.used /\ t.asked = s.asked
               /\ t.revisited = s.revisited
               /\ DOMAIN t.scheme = Containers
               /\ t.scheme[s.container] = s.options.colorScheme
  <1> DEFINE scheme == [s.scheme EXCEPT ![s.container] = s.options.colorScheme]
  <1>1. ApplyHostColorScheme(s) = [s EXCEPT !.scheme = scheme]
    BY DEF ApplyHostColorScheme, SheetTyped
  <1>2. DOMAIN scheme = Containers /\ scheme[s.container] = s.options.colorScheme
    BY DEF SheetTyped
  <1> HIDE DEF scheme
  <1> QED  BY <1>1, <1>2 DEF SheetTyped

\* Whether it is skipped or drawn anew, what a render asks for is there.
LEMMA RenderKeeps ==
    ASSUME NEW s, SheetInv(s), NEW data \in Statements, NEW forceRender \in BOOLEAN,
           NEW container \in Containers \cup {NoNode},
           container = NoNode => s.container # NoNode \/ ~(Containers \subseteq s.used)
    PROVE  SheetInv(RenderSheet(s, data, container, forceRender))
  <1> DEFINE found == GetOrCreateContainer(s, container)
             placed == ApplyHostColorScheme(found)
             shape == Shape(placed, data)
             asked == [placed EXCEPT !.asked = shape]
             c == found.container
  <1>1. Placed(found)
    BY PlacedInContainer
  <1>2. c \in Containers /\ c # NoNode
    BY <1>1, SheetAssumption DEF Placed, SheetTyped
  <1>3. /\ DOMAIN placed = SheetFields /\ placed.options = found.options
        /\ placed.container = c
        /\ placed.root = found.root /\ placed.rendered = found.rendered
        /\ placed.tables = found.tables /\ placed.attached = found.attached
        /\ placed.used = found.used /\ placed.asked = found.asked
        /\ placed.revisited = found.revisited
        /\ DOMAIN placed.scheme = Containers
        /\ placed.scheme[c] = found.options.colorScheme
    BY <1>1, <1>2, SchemeApplied DEF Placed
  <1>4. shape \in Shapes
    BY <1>1, <1>3, SheetAssumption DEF Placed, SheetTyped, Shape, Shapes
  <1>5. /\ DOMAIN asked = SheetFields /\ asked.options = found.options
        /\ asked.container = c
        /\ asked.root = found.root /\ asked.rendered = found.rendered
        /\ asked.tables = found.tables /\ asked.scheme = placed.scheme
        /\ asked.attached = found.attached /\ asked.used = found.used
        /\ asked.asked = shape /\ asked.revisited = found.revisited
    <2> HIDE DEF placed, found, c, shape
    <2> QED  BY <1>3
  <1>6. RenderSheet(s, data, container, forceRender)
          = IF CanSkip(asked, data, forceRender) THEN asked ELSE DrawTables(asked, data)
    BY DEF RenderSheet
  <1>7. Shape(asked, data) = shape
    BY <1>3, <1>5 DEF Shape
  <1> HIDE DEF placed, found, shape, asked, c
  <1>8. CASE CanSkip(asked, data, forceRender)
    <2>1. asked.root # NoNode /\ asked.rendered = shape
      BY <1>7, <1>8 DEF CanSkip
    <2>2. SheetTyped(asked) /\ OneTableEach(asked) /\ RootKnown(asked)
      BY <1>1, <1>2, <1>3, <1>4, <1>5 DEF Placed, SheetTyped, OneTableEach, RootKnown, c
    <2>3. DrawnAsAsked(asked)
      BY <1>1, <1>3, <1>5, <2>1 DEF DrawnAsAsked, Placed, c
    <2> QED  BY <1>6, <1>8, <2>2, <2>3 DEF SheetInv
  <1>9. CASE ~CanSkip(asked, data, forceRender)
    <2> DEFINE there == found.tables[c]
               place == IF found.root # NoNode THEN found.root ELSE Len(there) + 1
               drawn == IF found.root # NoNode THEN [there EXCEPT ![place] = shape]
                        ELSE Append(there, shape)
               tables == [found.tables EXCEPT ![c] = drawn]
               t == DrawTables(asked, data)
    <2>1. there \in Seq(Shapes)
      BY <1>1, <1>2 DEF Placed, SheetTyped
    <2>2. /\ drawn \in Seq(Shapes) /\ place \in DOMAIN drawn /\ drawn[place] = shape
          /\ Len(drawn) = IF found.root # NoNode THEN Len(there) ELSE Len(there) + 1
          /\ place # NoNode
      <3>1. CASE found.root # NoNode
        <4>1. place \in 1 .. Len(there)
          BY <1>1, <2>1, <3>1 DEF Placed, RootKnown, c
        <4> QED  BY <1>4, <2>1, <3>1, <4>1, ExceptSeq
      <3>2. CASE found.root = NoNode
        BY <1>4, <2>1, <3>2, SheetAssumption
      <3> QED  BY <3>1, <3>2
    <2>3. Len(drawn) <= 1 \/ c \in found.revisited
      <3>1. Len(there) <= 1 \/ c \in found.revisited
        BY <1>1, <1>2 DEF Placed, OneTableEach
      <3>2. found.root = NoNode => there = <<>> \/ c \in found.revisited
        BY <1>1 DEF Placed, c
      <3> HIDE DEF drawn, there
      <3>3. there = <<>> => Len(there) = 0
        OBVIOUS
      <3> QED  BY <2>2, <3>1, <3>2, <3>3
    <2>4. t = [asked EXCEPT !.tables = tables, !.root = place, !.rendered = shape]
      BY <1>5, <1>7 DEF DrawTables
    <2> HIDE DEF drawn, there, place
    <2>5. tables \in [Containers -> Seq(Shapes)] /\ tables[c] = drawn
      BY <1>1, <1>2, <2>2 DEF Placed, SheetTyped
    <2>6. \A d \in Containers \ {c} : tables[d] = found.tables[d]
      BY <1>1 DEF Placed, SheetTyped
    <2> HIDE DEF tables
    <2>7. /\ DOMAIN t = SheetFields /\ t.options = found.options /\ t.container = c
          /\ t.root = place
          /\ t.rendered = shape /\ t.tables = tables /\ t.scheme = placed.scheme
          /\ t.attached = found.attached /\ t.used = found.used /\ t.asked = shape
          /\ t.revisited = found.revisited
      BY <1>5, <2>4
    <2> HIDE DEF t
    <2>8. SheetTyped(t)
      BY <1>1, <1>2, <1>3, <1>4, <2>5, <2>7 DEF Placed, SheetTyped
    <2>9. OneTableEach(t)
      BY <1>1, <2>3, <2>5, <2>6, <2>7 DEF Placed, OneTableEach, c
    <2>10. RootKnown(t) /\ DrawnAsAsked(t)
      BY <1>1, <1>2, <1>3, <2>2, <2>5, <2>7 DEF Placed, RootKnown, DrawnAsAsked, c
    <2> QED  BY <1>6, <1>9, <2>8, <2>9, <2>10 DEF SheetInv, t
  <1> QED  BY <1>8, <1>9

LEMMA OptionsKeep ==
    ASSUME NEW s, SheetInv(s), NEW options \in StatementOptions \cup {NoNode}
    PROVE  /\ SheetInv(SetSheetOptions(s, options))
           /\ SetSheetOptions(s, options).container = s.container
           /\ SetSheetOptions(s, options).used = s.used
  <1>1. CASE options = NoNode
    BY <1>1 DEF SetSheetOptions
  <1>2. CASE options # NoNode
    <2> DEFINE given == [s EXCEPT !.options = options]
               t == ApplyHostColorScheme(given)
    <2>1. /\ DOMAIN given = SheetFields /\ given.options = options
          /\ given.container = s.container
          /\ given.root = s.root /\ given.rendered = s.rendered
          /\ given.tables = s.tables /\ given.scheme = s.scheme
          /\ given.attached = s.attached /\ given.used = s.used /\ given.asked = s.asked
          /\ given.revisited = s.revisited
      BY DEF SheetInv, SheetTyped
    <2>2. SetSheetOptions(s, options) = t
      BY <1>2 DEF SetSheetOptions
    <2> HIDE DEF given
    <2>3. SheetTyped(given) /\ OneTableEach(given) /\ RootKnown(given)
      BY <1>2, <2>1 DEF SheetInv, SheetTyped, OneTableEach, RootKnown
    <2>4. CASE s.container = NoNode
      <3>1. t = given
        BY <2>1, <2>4 DEF ApplyHostColorScheme
      <3> QED  BY <2>1, <2>2, <2>3, <2>4, <3>1 DEF SheetInv, DrawnAsAsked
    <2>5. CASE s.container # NoNode
      <3>1. /\ DOMAIN t = SheetFields /\ t.options = given.options
            /\ t.container = given.container
            /\ t.root = given.root /\ t.rendered = given.rendered
            /\ t.tables = given.tables /\ t.attached = given.attached
            /\ t.used = given.used /\ t.asked = given.asked
            /\ t.revisited = given.revisited
            /\ DOMAIN t.scheme = Containers
            /\ t.scheme[s.container] = options.colorScheme
        BY <2>1, <2>3, <2>5, SchemeApplied
      <3> HIDE DEF t
      <3>2. SheetTyped(t) /\ OneTableEach(t) /\ RootKnown(t)
        BY <2>3, <3>1 DEF SheetTyped, OneTableEach, RootKnown
      <3>3. DrawnAsAsked(t)
        BY <2>1, <3>1 DEF SheetInv, DrawnAsAsked
      <3> QED  BY <2>1, <2>2, <3>1, <3>2, <3>3 DEF SheetInv
    <2> QED  BY <2>4, <2>5
  <1> QED  BY <1>1, <1>2

LEMMA CleanUpKeeps == ASSUME NEW s, SheetInv(s) PROVE SheetInv(CleanUpSheet(s))
  <1> DEFINE attached == IF s.managed THEN s.attached ELSE s.attached \ {s.container}
             t == CleanUpSheet(s)
  <1>1. /\ DOMAIN t = SheetFields /\ t.options = s.options
        /\ t.container = NoNode /\ t.root = NoNode /\ t.rendered = NoNode
        /\ t.tables = s.tables /\ t.scheme = s.scheme /\ t.attached = attached
        /\ t.used = s.used /\ t.asked = NoNode /\ t.revisited = s.revisited
    BY DEF CleanUpSheet, SheetInv, SheetTyped
  <1>2. attached \subseteq s.used
    BY DEF SheetInv, SheetTyped
  <1> HIDE DEF attached, t
  <1> QED
    BY <1>1, <1>2 DEF SheetInv, SheetTyped, OneTableEach, RootKnown, DrawnAsAsked, t

\* A component of the hook's own, made when the element came.
LEMMA CreatedKeeps ==
    ASSUME NEW s, SheetInv(s), s.container = NoNode, NEW container \in Containers,
           NEW options \in StatementOptions, NEW data \in Statements
    PROVE  SheetInv(Created(s, container, options, data))
  <1> DEFINE t == [s EXCEPT !.options = options]
  <1>1. /\ DOMAIN t = SheetFields /\ t.options = options
        /\ t.container = s.container /\ t.root = s.root /\ t.rendered = s.rendered
        /\ t.tables = s.tables /\ t.scheme = s.scheme /\ t.attached = s.attached
        /\ t.used = s.used /\ t.asked = s.asked /\ t.revisited = s.revisited
    BY DEF SheetInv, SheetTyped
  <1> HIDE DEF t
  <1>2. SheetInv(t)
    BY <1>1 DEF SheetInv, SheetTyped, OneTableEach, RootKnown, DrawnAsAsked
  <1>3. container # NoNode
    BY SheetAssumption
  <1> QED  BY <1>2, <1>3, RenderKeeps DEF Created, t

SheetsInv == SheetInv(sheet) /\ renders \in 0 .. MaxRenders

LEMMA SheetStarts == SheetInit => SheetsInv
  <1> SUFFICES ASSUME NEW options \in StatementOptions, NEW managed \in BOOLEAN,
                      sheet = NewSheet(options, managed), renders = 0
               PROVE  SheetsInv
    BY DEF SheetInit
  <1>1. <<>> \in Seq(Shapes) /\ Len(<<>>) = 0
    OBVIOUS
  <1> QED
    BY <1>1, SheetAssumption
       DEF SheetsInv, NewSheet, SheetInv, SheetTyped, OneTableEach, RootKnown,
           DrawnAsAsked

LEMMA SheetKeeps == SheetsInv /\ [SheetNext]_sheetVars => SheetsInv'
  <1> SUFFICES ASSUME SheetsInv, [SheetNext]_sheetVars PROVE SheetsInv'
    OBVIOUS
  <1>1. CASE UNCHANGED sheetVars
    BY <1>1 DEF sheetVars, SheetsInv
  <1>2. CASE SheetNext
    <2>1. renders' \in 0 .. MaxRenders
      BY <1>2, SheetAssumption DEF SheetNext, SheetsInv
    <2>2. ASSUME sheet' \in HostCalls(sheet) PROVE SheetInv(sheet')
      <3>1. ASSUME NEW options \in StatementOptions \cup {NoNode},
                   sheet' = SetSheetOptions(sheet, options)
            PROVE  SheetInv(sheet')
        BY <3>1, OptionsKeep DEF SheetsInv
      <3>2. ASSUME NEW data \in Statements, NEW forceRender \in BOOLEAN,
                   NEW container \in IF sheet.container = NoNode
                                          /\ Containers \subseteq sheet.used
                                     THEN Containers ELSE Containers \cup {NoNode},
                   sheet' = RenderSheet(sheet, data, container, forceRender)
            PROVE  SheetInv(sheet')
        <4>1. container \in Containers \cup {NoNode}
          OBVIOUS
        <4>2. container = NoNode =>
                sheet.container # NoNode \/ ~(Containers \subseteq sheet.used)
          BY SheetAssumption
        <4> QED  BY <3>2, <4>1, <4>2, RenderKeeps DEF SheetsInv
      <3>3. ASSUME sheet' = CleanUpSheet(sheet) PROVE SheetInv(sheet')
        BY <3>3, CleanUpKeeps DEF SheetsInv
      <3> QED  BY <2>2, <3>1, <3>2, <3>3 DEF HostCalls
    <2>3. ASSUME sheet' \in HookCalls(sheet) PROVE SheetInv(sheet')
      <3>1. ASSUME NEW container \in Containers \ sheet.used,
                   NEW options \in StatementOptions, NEW data \in Statements,
                   sheet.container = NoNode,
                   sheet' = Created(sheet, container, options, data)
            PROVE  SheetInv(sheet')
        BY <3>1, CreatedKeeps DEF SheetsInv
      <3>2. ASSUME NEW options \in StatementOptions \cup {NoNode},
                   NEW data \in Statements, sheet.container # NoNode,
                   sheet' = Updated(sheet, options, data)
            PROVE  SheetInv(sheet')
        BY <3>2, OptionsKeep, RenderKeeps DEF SheetsInv, Updated
      <3>3. ASSUME sheet' = CleanUpSheet(sheet) PROVE SheetInv(sheet')
        BY <3>3, CleanUpKeeps DEF SheetsInv
      <3> QED  BY <2>3, <3>1, <3>2, <3>3 DEF HookCalls
    <2> QED  BY <1>2, <2>1, <2>2, <2>3 DEF SheetNext, SheetsInv
  <1> QED  BY <1>1, <1>2

LEMMA SheetInvCurrent == SheetsInv => TableCurrent
  <1> SUFFICES ASSUME SheetsInv PROVE TableCurrent
    OBVIOUS
  <1>1. SheetTypeOK
    <2> DEFINE shapes == [data : Statements,
                          amountFormat : {o.amountFormat : o \in StatementOptions},
                          showClassification : BOOLEAN]
    <2>1. Shapes = shapes
      BY DEF Shapes
    <2>2. \A c \in Containers : \A i \in DOMAIN sheet.tables[c] :
            sheet.tables[c][i] \in Shapes
      BY DEF SheetsInv, SheetInv, SheetTyped
    <2>3. /\ sheet.options \in StatementOptions
          /\ sheet.container \in Containers \cup {NoNode}
          /\ {sheet.rendered, sheet.asked} \subseteq Shapes \cup {NoNode}
          /\ sheet.root = NoNode \/ sheet.root \in DOMAIN sheet.tables[sheet.container]
          /\ sheet.attached \subseteq sheet.used /\ sheet.used \subseteq Containers
          /\ renders \in 0 .. MaxRenders
      BY DEF SheetsInv, SheetInv, SheetTyped, RootKnown
    <2> HIDE DEF shapes
    <2> QED  BY <2>1, <2>2, <2>3 DEF SheetTypeOK, shapes
  <1> QED
    BY <1>1 DEF SheetsInv, SheetInv, OneTableEach, RootKnown, DrawnAsAsked, TableCurrent

\* What stands on the page is what was asked for last, although renders are
\* skipped, and it stands there once.
THEOREM TableIsCurrent == SheetSpec => []TableCurrent
  BY SheetStarts, SheetKeeps, SheetInvCurrent, PTL DEF SheetSpec

-----------------------------------------------------------------------------
(* The release script *)

AllDefects == PayloadDefects \cup ConsumerDefects

Bodies == {"old", "new"}

Artifacts == [version : Versions, body : Bodies, has : SUBSET AllDefects]

Entries == [has : SUBSET AllDefects, body : Bodies]

BegunRuns == [step : {"preflight", "pack"}, flags : ParseArgs, still : BOOLEAN]

BuiltRuns == [step : {"assert", "repack", "verify", "publish", "promote", "tag", "push"},
              flags : ParseArgs, still : BOOLEAN, artifact : Artifacts]

\* The record and the types of what it holds.
RelTyped(r) ==
    /\ r = [tree |-> r.tree, head |-> r.head, run |-> r.run, runs |-> r.runs,
            edits |-> r.edits, registry |-> r.registry, latest |-> r.latest,
            tags |-> r.tags, pushed |-> r.pushed]
    /\ r.tree \in Sources /\ r.head \in Sources
    /\ r.run \in {NoRun} \cup BegunRuns \cup BuiltRuns
    /\ r.runs \in 0 .. MaxRuns /\ r.edits \in 0 .. MaxEdits

\* What is in the registry was verified, and every name is of something in it.
RegistrySound(registry, latest, tags, pushed) ==
    /\ DOMAIN registry \subseteq Versions
    /\ \A v \in DOMAIN registry : registry[v] \in Entries /\ registry[v].has = {}
    /\ latest \subseteq DOMAIN registry
    /\ DOMAIN tags \subseteq DOMAIN registry
    /\ \A v \in DOMAIN tags :
         /\ tags[v] \in [commit : Sources, still : BOOLEAN]
         /\ tags[v].still => /\ tags[v].commit.version = v
                             /\ tags[v].commit.body = registry[v].body
    /\ DOMAIN pushed \subseteq DOMAIN tags
    /\ \A v \in DOMAIN pushed : pushed[v] = tags[v]

\* What a run knows of the tree it works from, and of what it has uploaded.
RunSound(run, tree, head, registry, tags) ==
    /\ run # NoRun /\ run.step # "preflight" /\ run.still => tree = head
    /\ run \in BuiltRuns =>
         /\ run.still => /\ run.artifact.version = head.version
                         /\ run.artifact.body = head.body
         /\ run.step = "publish" => run.artifact.has = {}
         /\ run.step \in {"promote", "tag", "push"} =>
              /\ run.artifact.version \in DOMAIN registry
              /\ registry[run.artifact.version].body = run.artifact.body
         /\ run.step = "push" => run.artifact.version \in DOMAIN tags

ReleaseInv ==
    /\ RelTyped(rel)
    /\ RegistrySound(rel.registry, rel.latest, rel.tags, rel.pushed)
    /\ RunSound(rel.run, rel.tree, rel.head, rel.registry, rel.tags)

\* A run that goes on, or ends, changes nothing else.
LEMMA ContinuesKeeps ==
    ASSUME ReleaseInv, NEW next \in {NoRun} \cup BegunRuns \cup BuiltRuns, Continues(next),
           RunSound(next, rel.tree, rel.head, rel.registry, rel.tags)
    PROVE  ReleaseInv'
  <1> USE DEF RelTyped, ReleaseInv
  <1>1. /\ rel' = [tree |-> rel.tree, head |-> rel.head, run |-> next, runs |-> rel.runs,
                   edits |-> rel.edits, registry |-> rel.registry, latest |-> rel.latest,
                   tags |-> rel.tags, pushed |-> rel.pushed]
    BY DEF Continues
  <1> QED  BY <1>1

LEMMA FailsKeeps == ASSUME ReleaseInv, Fails PROVE ReleaseInv'
  <1>1. NoRun \notin BuiltRuns
    BY DEF NoRun, BuiltRuns
  <1>2. RunSound(NoRun, rel.tree, rel.head, rel.registry, rel.tags)
    BY <1>1 DEF RunSound
  <1> QED  BY <1>2, ContinuesKeeps DEF Fails

\* The step a run is at tells what it has.
LEMMA RunAt ==
    ASSUME ReleaseInv
    PROVE  /\ At("preflight") \/ At("pack") => rel.run \in BegunRuns /\ rel.run # NoRun
           /\ \A step \in {"assert", "repack", "verify", "publish", "promote", "tag", "push"} :
                At(step) => rel.run \in BuiltRuns /\ rel.run # NoRun
           /\ rel.run # NoRun => rel.run.flags \in ParseArgs
           /\ NoRun \notin BuiltRuns /\ \A run \in BegunRuns : run \notin BuiltRuns
  BY DEF ReleaseInv, RelTyped, At, BegunRuns, BuiltRuns, NoRun

LEMMA PreflightKeeps == ASSUME ReleaseInv, Preflight PROVE ReleaseInv'
  <1> DEFINE next == [rel.run EXCEPT !.step = "pack", !.still = rel.tree = rel.head]
  <1>1. rel.run \in BegunRuns
    BY RunAt DEF Preflight
  <1>2. next \in BegunRuns /\ next.still = (rel.tree = rel.head) /\ next.step = "pack"
    BY <1>1 DEF BegunRuns
  <1>3. RunSound(next, rel.tree, rel.head, rel.registry, rel.tags)
    BY <1>2, RunAt DEF RunSound
  <1>4. Continues(next)
    BY DEF Preflight
  <1> HIDE DEF next
  <1> QED  BY <1>2, <1>3, <1>4, ContinuesKeeps

LEMMA PackTarballKeeps == ASSUME ReleaseInv, PackTarball PROVE ReleaseInv'
  <1> DEFINE artifact == RewritePublishManifest(rel.tree)
             next == [step |-> "assert", flags |-> rel.run.flags, still |-> rel.run.still,
                      artifact |-> artifact]
  <1>1. rel.run \in BegunRuns /\ rel.run # NoRun /\ rel.run.step = "pack"
    BY RunAt DEF PackTarball, At
  <1>2. /\ artifact \in Artifacts
        /\ artifact.version = rel.tree.version /\ artifact.body = rel.tree.body
    BY DefectsAssumption
       DEF ReleaseInv, RelTyped, Sources, RewritePublishManifest, Artifacts, AllDefects,
           Bodies
  <1> HIDE DEF artifact
  <1>3. next \in BuiltRuns
    BY <1>1, <1>2 DEF BuiltRuns, BegunRuns
  <1>4. rel.run.still => rel.tree = rel.head
    BY <1>1 DEF ReleaseInv, RunSound
  <1>5. RunSound(next, rel.tree, rel.head, rel.registry, rel.tags)
    BY <1>2, <1>4 DEF RunSound
  <1>6. Continues(next)
    BY DEF PackTarball, artifact
  <1> HIDE DEF next
  <1> QED  BY <1>3, <1>5, <1>6, ContinuesKeeps

\* A run that has built, and only moves to the next step.
LEMMA BuiltMoves ==
    ASSUME ReleaseInv, rel.run \in BuiltRuns,
           NEW step \in {"repack", "publish"},
           step = "publish" => rel.run.artifact.has = {}
    PROVE  LET next == [rel.run EXCEPT !.step = step]
           IN  next \in BuiltRuns /\ RunSound(next, rel.tree, rel.head, rel.registry, rel.tags)
  <1> DEFINE next == [rel.run EXCEPT !.step = step]
  <1>1. /\ next \in BuiltRuns /\ next.step = step /\ next.artifact = rel.run.artifact
        /\ next.still = rel.run.still
    BY DEF BuiltRuns
  <1>2. rel.run # NoRun /\ rel.run.step # "preflight"
    BY DEF BuiltRuns, NoRun
  <1> HIDE DEF next
  <1>3. RunSound(next, rel.tree, rel.head, rel.registry, rel.tags)
    BY <1>1, <1>2 DEF RunSound, ReleaseInv
  <1> QED  BY <1>1, <1>3 DEF next

LEMMA AssertPayloadKeeps == ASSUME ReleaseInv, AssertPayload PROVE ReleaseInv'
  <1>1. rel.run \in BuiltRuns
    BY RunAt DEF AssertPayload
  <1>2. CASE Continues([rel.run EXCEPT !.step = "repack"])
    BY <1>1, <1>2, BuiltMoves, ContinuesKeeps
  <1>3. CASE Fails
    BY <1>3, FailsKeeps
  <1> QED  BY <1>2, <1>3 DEF AssertPayload

LEMMA RepackKeeps == ASSUME ReleaseInv, Repack PROVE ReleaseInv'
  <1>1. rel.run \in BuiltRuns /\ rel.run # NoRun /\ rel.run.step = "repack"
    BY RunAt DEF Repack, At
  <1>2. PICK lost \in SUBSET ({"missingExport", "missingDoc"} \cap Defects) :
          Continues([rel.run EXCEPT !.step = "verify", !.artifact = Lacking(@, lost)])
    BY DEF Repack
  <1> DEFINE artifact == Lacking(rel.run.artifact, lost)
             next == [rel.run EXCEPT !.step = "verify", !.artifact = artifact]
  <1>3. /\ artifact \in Artifacts /\ artifact.version = rel.run.artifact.version
        /\ artifact.body = rel.run.artifact.body
    BY <1>1 DEF BuiltRuns, Artifacts, AllDefects, PayloadDefects, Lacking
  <1>4. Continues(next)
    BY <1>2
  <1> HIDE DEF artifact
  <1>5. /\ next \in BuiltRuns /\ next.step = "verify" /\ next.artifact = artifact
        /\ next.still = rel.run.still
    BY <1>1, <1>3 DEF BuiltRuns
  <1> HIDE DEF next
  <1>6. RunSound(next, rel.tree, rel.head, rel.registry, rel.tags)
    BY <1>1, <1>3, <1>5 DEF RunSound, ReleaseInv
  <1> QED  BY <1>4, <1>5, <1>6, ContinuesKeeps

\* What passes the second check has no defect.
LEMMA VerifyKeeps == ASSUME ReleaseInv, Verify PROVE ReleaseInv'
  <1>1. rel.run \in BuiltRuns
    BY RunAt DEF Verify
  <1>2. CASE Verified(rel.run.artifact) /\ Continues([rel.run EXCEPT !.step = "publish"])
    <2>1. rel.run.artifact.has = {}
      BY <1>1, <1>2 DEF Verified, AssertPublishPayload, AssertConsumerCorrectness, BuiltRuns,
                        Artifacts, AllDefects
    <2> QED  BY <1>1, <1>2, <2>1, BuiltMoves, ContinuesKeeps
  <1>3. CASE Fails
    BY <1>3, FailsKeeps
  <1> QED  BY <1>2, <1>3 DEF Verify

LEMMA PublishTarballKeeps == ASSUME ReleaseInv, PublishTarball PROVE ReleaseInv'
  <1> DEFINE version == rel.run.artifact.version
             entry == [has |-> rel.run.artifact.has, body |-> rel.run.artifact.body]
             registry == Kept(rel.registry, version, entry)
  <1>1. rel.run \in BuiltRuns /\ rel.run # NoRun /\ rel.run.step = "publish"
    BY RunAt DEF PublishTarball, At
  <1>2. PICK next \in {NoRun, [rel.run EXCEPT !.step = "promote"]} :
          rel' = [Uploaded(rel.run) EXCEPT !.run = next]
    BY DEF PublishTarball
  <1>3. rel' = [tree |-> rel.tree, head |-> rel.head, run |-> next, runs |-> rel.runs,
                edits |-> rel.edits, registry |-> registry, latest |-> rel.latest,
                tags |-> rel.tags, pushed |-> rel.pushed]
    BY <1>2 DEF Uploaded, ReleaseInv, RelTyped
  <1>4. version \in Versions /\ version \notin DOMAIN rel.registry
    BY <1>1 DEF BuiltRuns, Artifacts, PublishTarball
  <1>5. entry \in Entries /\ entry.has = {} /\ entry.body = rel.run.artifact.body
    BY <1>1 DEF BuiltRuns, Artifacts, Entries, ReleaseInv, RunSound
  <1> HIDE DEF version, entry
  <1>6. /\ DOMAIN registry = DOMAIN rel.registry \cup {version}
        /\ \A v \in DOMAIN rel.registry : registry[v] = rel.registry[v]
        /\ registry[version] = entry
    BY <1>4 DEF Kept
  <1> HIDE DEF registry
  <1>7. RegistrySound(registry, rel.latest, rel.tags, rel.pushed)
    BY <1>4, <1>5, <1>6 DEF ReleaseInv, RegistrySound
  <1>8. RunSound(next, rel.tree, rel.head, registry, rel.tags)
    <2>1. CASE next = NoRun
      BY <2>1, RunAt DEF RunSound
    <2>2. CASE next = [rel.run EXCEPT !.step = "promote"]
      <3>1. /\ next.step = "promote" /\ next.artifact = rel.run.artifact
            /\ next.still = rel.run.still
        BY <1>1, <2>2 DEF BuiltRuns
      <3> QED  BY <1>1, <1>5, <1>6, <3>1 DEF RunSound, ReleaseInv, version
    <2> QED  BY <1>2, <2>1, <2>2
  <1>9. next \in {NoRun} \cup BegunRuns \cup BuiltRuns
    BY <1>1, <1>2 DEF BuiltRuns
  <1> QED  BY <1>3, <1>7, <1>8, <1>9 DEF ReleaseInv, RelTyped

LEMMA PromoteLatestKeeps == ASSUME ReleaseInv, PromoteLatest PROVE ReleaseInv'
  <1> DEFINE next == [rel.run EXCEPT !.step = "tag"]
             latest == IF rel.run.flags.promoteLatest THEN {rel.run.artifact.version}
                       ELSE rel.latest
  <1>1. rel.run \in BuiltRuns /\ rel.run # NoRun /\ rel.run.step = "promote"
    BY RunAt DEF PromoteLatest, At
  <1>2. rel' = [tree |-> rel.tree, head |-> rel.head, run |-> next, runs |-> rel.runs,
                edits |-> rel.edits, registry |-> rel.registry, latest |-> latest,
                tags |-> rel.tags, pushed |-> rel.pushed]
    BY DEF PromoteLatest, ReleaseInv, RelTyped
  <1>3. /\ next \in BuiltRuns /\ next.step = "tag" /\ next.artifact = rel.run.artifact
        /\ next.still = rel.run.still
    BY <1>1 DEF BuiltRuns
  <1> HIDE DEF next
  <1>4. RegistrySound(rel.registry, latest, rel.tags, rel.pushed)
    BY <1>1 DEF ReleaseInv, RegistrySound, RunSound
  <1>5. RunSound(next, rel.tree, rel.head, rel.registry, rel.tags)
    BY <1>1, <1>3 DEF ReleaseInv, RunSound
  <1> HIDE DEF latest
  <1> QED  BY <1>2, <1>3, <1>4, <1>5 DEF ReleaseInv, RelTyped

LEMMA TagReleaseKeeps == ASSUME ReleaseInv, TagRelease PROVE ReleaseInv'
  <1> DEFINE next == [rel.run EXCEPT !.step = "push"]
             version == rel.run.artifact.version
             tag == [commit |-> rel.head, still |-> rel.run.still]
             tags == Kept(rel.tags, version, tag)
  <1>1. rel.run \in BuiltRuns /\ rel.run # NoRun /\ rel.run.step = "tag"
    BY RunAt DEF TagRelease, At
  <1>2. CASE Continues(NoRun)
    BY <1>2, FailsKeeps DEF Fails
  <1>3. CASE /\ version \notin DOMAIN rel.tags
             /\ rel' = [rel EXCEPT !.run.step = "push", !.tags = Kept(@, version, tag)]
    <2>1. rel' = [tree |-> rel.tree, head |-> rel.head, run |-> next, runs |-> rel.runs,
                  edits |-> rel.edits, registry |-> rel.registry, latest |-> rel.latest,
                  tags |-> tags, pushed |-> rel.pushed]
      BY <1>3 DEF ReleaseInv, RelTyped
    <2>2. /\ next \in BuiltRuns /\ next.step = "push" /\ next.artifact = rel.run.artifact
          /\ next.still = rel.run.still
      BY <1>1 DEF BuiltRuns
    <2>3. /\ tag \in [commit : Sources, still : BOOLEAN]
          /\ tag.commit = rel.head /\ tag.still = rel.run.still
      BY <1>1 DEF ReleaseInv, RelTyped, BuiltRuns
    <2> HIDE DEF next, tag
    <2>4. /\ DOMAIN tags = DOMAIN rel.tags \cup {version}
          /\ \A v \in DOMAIN rel.tags : tags[v] = rel.tags[v]
          /\ tags[version] = tag
      BY <1>3 DEF Kept
    <2> HIDE DEF tags
    <2>5. /\ version \in DOMAIN rel.registry
          /\ tag.still => /\ tag.commit.version = version
                          /\ tag.commit.body = rel.registry[version].body
      BY <1>1, <2>3 DEF ReleaseInv, RunSound
    <2>6. RegistrySound(rel.registry, rel.latest, tags, rel.pushed)
      BY <2>3, <2>4, <2>5 DEF ReleaseInv, RegistrySound
    <2>7. RunSound(next, rel.tree, rel.head, rel.registry, tags)
      BY <1>1, <2>2, <2>4 DEF ReleaseInv, RunSound
    <2> QED  BY <2>1, <2>2, <2>6, <2>7 DEF ReleaseInv, RelTyped
  <1> QED  BY <1>2, <1>3 DEF TagRelease

LEMMA PushKeeps == ASSUME ReleaseInv, Push PROVE ReleaseInv'
  <1> DEFINE version == rel.run.artifact.version
             pushed == Kept(rel.pushed, version, rel.tags[version])
  <1>1. rel.run \in BuiltRuns /\ rel.run # NoRun /\ rel.run.step = "push"
    BY RunAt DEF Push, At
  <1>2. rel' = [tree |-> rel.tree, head |-> rel.head, run |-> NoRun, runs |-> rel.runs,
                edits |-> rel.edits, registry |-> rel.registry, latest |-> rel.latest,
                tags |-> rel.tags, pushed |-> pushed]
    BY DEF Push, Pushed, ReleaseInv, RelTyped
  <1>3. version \in DOMAIN rel.tags
    BY <1>1 DEF ReleaseInv, RunSound
  <1> HIDE DEF version
  <1>4. /\ DOMAIN pushed = DOMAIN rel.pushed \cup {version}
        /\ \A v \in DOMAIN pushed : pushed[v] = rel.tags[v]
    BY DEF Kept, ReleaseInv, RegistrySound
  <1> HIDE DEF pushed
  <1>5. RegistrySound(rel.registry, rel.latest, rel.tags, pushed)
    BY <1>3, <1>4 DEF ReleaseInv, RegistrySound
  <1>6. RunSound(NoRun, rel.tree, rel.head, rel.registry, rel.tags)
    BY RunAt DEF RunSound
  <1> QED  BY <1>2, <1>5, <1>6 DEF ReleaseInv, RelTyped

LEMMA StartedKeeps == ASSUME ReleaseInv, Started PROVE ReleaseInv'
  <1>1. PICK flags \in ParseArgs :
          rel' = [rel EXCEPT !.runs = @ + 1,
                     !.run = [step |-> "preflight", flags |-> flags, still |-> TRUE]]
    BY DEF Started
  <1> DEFINE next == [step |-> "preflight", flags |-> flags, still |-> TRUE]
  <1>2. rel' = [tree |-> rel.tree, head |-> rel.head, run |-> next, runs |-> rel.runs + 1,
                edits |-> rel.edits, registry |-> rel.registry, latest |-> rel.latest,
                tags |-> rel.tags, pushed |-> rel.pushed]
    BY <1>1 DEF ReleaseInv, RelTyped
  <1>3. next \in BegunRuns /\ next.step = "preflight"
    BY DEF BegunRuns
  <1> HIDE DEF next
  <1>4. RunSound(next, rel.tree, rel.head, rel.registry, rel.tags)
    BY <1>3, RunAt DEF RunSound
  <1>5. rel.runs + 1 \in 0 .. MaxRuns
    BY ReleaseBoundsAssumption DEF Started, ReleaseInv, RelTyped
  <1> QED  BY <1>2, <1>3, <1>4, <1>5 DEF ReleaseInv, RelTyped

\* An edit or a commit is seen by the run under way.
LEMMA EditedRun ==
    ASSUME ReleaseInv
    PROVE  /\ Edited(rel) = [tree |-> rel.tree, head |-> rel.head, run |-> Edited(rel).run,
                             runs |-> rel.runs, edits |-> rel.edits,
                             registry |-> rel.registry, latest |-> rel.latest,
                             tags |-> rel.tags, pushed |-> rel.pushed]
           /\ Edited(rel).run \in {NoRun} \cup BegunRuns \cup BuiltRuns
           /\ \A tree, head :
                RunSound(Edited(rel).run, tree, head, rel.registry, rel.tags)
  <1>1. CASE rel.run = NoRun
    BY <1>1, RunAt DEF Edited, RunSound, ReleaseInv, RelTyped
  <1>2. CASE rel.run # NoRun
    <2> DEFINE next == [rel.run EXCEPT !.still = FALSE]
    <2>1. Edited(rel) = [tree |-> rel.tree, head |-> rel.head, run |-> next,
                         runs |-> rel.runs, edits |-> rel.edits,
                         registry |-> rel.registry, latest |-> rel.latest,
                         tags |-> rel.tags, pushed |-> rel.pushed]
      BY <1>2 DEF Edited, ReleaseInv, RelTyped
    <2>2. CASE rel.run \in BegunRuns
      <3>1. next \in BegunRuns /\ ~next.still
        BY <2>2 DEF BegunRuns
      <3> HIDE DEF next
      <3> QED  BY <2>1, <3>1, RunAt DEF RunSound
    <2>3. CASE rel.run \in BuiltRuns
      <3>1. /\ next \in BuiltRuns /\ ~next.still /\ next.step = rel.run.step
            /\ next.artifact = rel.run.artifact
        BY <2>3 DEF BuiltRuns
      <3> HIDE DEF next
      <3> QED  BY <2>1, <2>3, <3>1 DEF RunSound, ReleaseInv
    <2> QED  BY <1>2, <2>2, <2>3 DEF ReleaseInv, RelTyped
  <1> QED  BY <1>1, <1>2

LEMMA EditKeeps == ASSUME ReleaseInv, Edit PROVE ReleaseInv'
  <1>1. PICK source \in Sources :
          rel' = [Edited(rel) EXCEPT !.edits = @ + 1, !.tree = source]
    BY DEF Edit
  <1>2. rel' = [tree |-> source, head |-> rel.head, run |-> Edited(rel).run,
                runs |-> rel.runs, edits |-> rel.edits + 1, registry |-> rel.registry,
                latest |-> rel.latest, tags |-> rel.tags, pushed |-> rel.pushed]
    <2> DEFINE edited == Edited(rel)
    <2>1. /\ rel' = [edited EXCEPT !.edits = @ + 1, !.tree = source]
          /\ edited = [tree |-> rel.tree, head |-> rel.head, run |-> Edited(rel).run,
                       runs |-> rel.runs, edits |-> rel.edits, registry |-> rel.registry,
                       latest |-> rel.latest, tags |-> rel.tags, pushed |-> rel.pushed]
      BY <1>1, EditedRun
    <2>2. edited.edits = rel.edits
      BY <2>1
    <2> HIDE DEF edited
    <2> QED  BY <2>1, <2>2
  <1>3. rel.edits + 1 \in 0 .. MaxEdits
    BY ReleaseBoundsAssumption DEF Edit, ReleaseInv, RelTyped
  <1> QED  BY <1>2, <1>3, EditedRun DEF ReleaseInv, RelTyped

LEMMA CommitKeeps == ASSUME ReleaseInv, Commit PROVE ReleaseInv'
  <1>1. rel' = [tree |-> rel.tree, head |-> rel.tree, run |-> Edited(rel).run,
                runs |-> rel.runs, edits |-> rel.edits, registry |-> rel.registry,
                latest |-> rel.latest, tags |-> rel.tags, pushed |-> rel.pushed]
    BY EditedRun DEF Commit
  <1> QED  BY <1>1, EditedRun DEF ReleaseInv, RelTyped

LEMMA ReleaseStarts == ReleaseInit => ReleaseInv
  <1> SUFFICES ASSUME NEW source \in Sources,
                      rel = [tree |-> source, head |-> source, run |-> NoRun, runs |-> 0,
                             edits |-> 0, registry |-> <<>>, latest |-> {}, tags |-> <<>>,
                             pushed |-> <<>>]
               PROVE  ReleaseInv
    BY DEF ReleaseInit
  <1>1. NoRun \notin BuiltRuns
    BY DEF NoRun, BuiltRuns
  <1>2. DOMAIN <<>> = {}
    OBVIOUS
  <1>3. RelTyped(rel)
    BY ReleaseBoundsAssumption DEF RelTyped
  <1>4. RegistrySound(rel.registry, rel.latest, rel.tags, rel.pushed)
    BY <1>2 DEF RegistrySound
  <1>5. RunSound(rel.run, rel.tree, rel.head, rel.registry, rel.tags)
    BY <1>1 DEF RunSound
  <1> QED  BY <1>3, <1>4, <1>5 DEF ReleaseInv

LEMMA ReleaseKeeps == ReleaseInv /\ [ReleaseNext]_releaseVars => ReleaseInv'
  <1> SUFFICES ASSUME ReleaseInv, [ReleaseNext]_releaseVars PROVE ReleaseInv'
    OBVIOUS
  <1>1. CASE Started          BY <1>1, StartedKeeps
  <1>2. CASE Preflight        BY <1>2, PreflightKeeps
  <1>3. CASE PackTarball      BY <1>3, PackTarballKeeps
  <1>4. CASE AssertPayload    BY <1>4, AssertPayloadKeeps
  <1>5. CASE Repack           BY <1>5, RepackKeeps
  <1>6. CASE Verify           BY <1>6, VerifyKeeps
  <1>7. CASE DryRunPublish    BY <1>7, FailsKeeps DEF DryRunPublish, Fails
  <1>8. CASE PublishTarball   BY <1>8, PublishTarballKeeps
  <1>9. CASE PromoteLatest    BY <1>9, PromoteLatestKeeps
  <1>10. CASE TagRelease      BY <1>10, TagReleaseKeeps
  <1>11. CASE Push            BY <1>11, PushKeeps
  <1>12. CASE Fail            BY <1>12, FailsKeeps DEF Fail
  <1>13. CASE Edit            BY <1>13, EditKeeps
  <1>14. CASE Commit          BY <1>14, CommitKeeps
  <1>15. CASE UNCHANGED releaseVars
    BY <1>15 DEF releaseVars, ReleaseInv
  <1> QED
    BY <1>1, <1>2, <1>3, <1>4, <1>5, <1>6, <1>7, <1>8, <1>9, <1>10, <1>11, <1>12, <1>13,
       <1>14, <1>15 DEF ReleaseNext

\* Whatever the state of the release is, the three parts of its soundness follow.
LEMMA ReleaseInvSound == ReleaseInv => ReleaseSound
  <1> SUFFICES ASSUME ReleaseInv PROVE ReleaseSound
    OBVIOUS
  <1>1. ShippedVerified
    BY DEF ReleaseInv, RegistrySound, ShippedVerified
  <1>2. TagsName
    BY DEF ReleaseInv, RegistrySound, TagsName
  <1>3. Range(rel.tags) \subseteq [commit : Sources, still : BOOLEAN]
    BY DEF Range, ReleaseInv, RegistrySound
  <1>4. rel.run.step \in {"idle", "preflight", "pack", "assert", "repack", "verify",
                         "publish", "promote", "tag", "push"}
    BY DEF ReleaseInv, RelTyped, BegunRuns, BuiltRuns, NoRun
  <1>5. rel.run # NoRun => rel.run.flags \in ParseArgs
    BY RunAt
  <1>6. ReleaseTypeOK
    BY <1>3, <1>4, <1>5 DEF ReleaseInv, RelTyped, RegistrySound, ReleaseTypeOK
  <1> QED  BY <1>1, <1>2, <1>6 DEF ReleaseSound

\* Whatever fails, is edited or is run again, nothing is published that was not
\* verified, and every tag and "latest" name a version that is in the registry.
THEOREM ReleaseIsSound == ReleaseSpec => []ReleaseSound
  BY ReleaseStarts, ReleaseKeeps, ReleaseInvSound, PTL DEF ReleaseSpec

-----------------------------------------------------------------------------
(* Asynchronous ingest.  The invariant of the scheduler is that of          *)
(* Scheduler_proofs, over the tasks of the calls and those of the host.     *)

Proved == INSTANCE Scheduler_proofs

CallRecords ==
    [pc : {"pull", "queued", "asleep"} \cup Settled, next : Nat \ {0},
     gain : Int, added : Int, skipped : Int]

\* What has come of the chunk a call waits for.
Answer(g) == promise[<<g, call[g].next>>]

\* The chunk in hand is in the store, or there is none in it: an answer that
\* rejects it tells neither.
InStore(g) ==
    \/ call[g].pc = "asleep"
    \/ call[g].pc = "queued" /\ Answer(g) = "resolved"

NotInStore(g) ==
    \/ call[g].pc \in {"pull", "returned", "stopped"}
    \/ call[g].pc = "queued" /\ Answer(g) = "pending"

\* A call has a chunk in the scheduler's queue only while it waits for it.
Queued(g) ==
    /\ call[g].next <= Len(Chunks[g]) + 1
    /\ call[g].pc \in {"queued", "asleep", "stopped"} => call[g].next <= Len(Chunks[g])
    /\ call[g].pc = "returned" => call[g].next > Len(Chunks[g])
    /\ call[g].pc = "queued" =>
         g \in Scheduled /\ Answer(g) \in {"pending", "resolved", "failed", "aborted"}
    /\ call[g].pc = "asleep" => g \notin Scheduled
    /\ g \in Scheduled =>
         \A n \in DOMAIN Chunks[g] :
            promise[<<g, n>>] = "pending" => call[g].pc = "queued" /\ n = call[g].next

\* What is applied late is the chunk that was queued when the signal fired.
Stops(g) ==
    /\ late[g] # 0 => /\ g \in Scheduled /\ g \in signal /\ late[g] = 1
                      /\ ~(call[g].pc = "queued" /\ Answer(g) = "pending")
    /\ call[g].pc = "stopped" => g \in signal

Counts(g) ==
    /\ IsFiniteSet(Places(g, call[g].next - 1))
    /\ call[g].added + call[g].skipped = Total(g)
    /\ ~Reentrant /\ NotInStore(g) => call[g].added = inserted[g]
    /\ ~Reentrant /\ InStore(g) => call[g].added + call[g].gain = inserted[g]

CallInv(g) == Queued(g) /\ Stops(g) /\ Counts(g)

WholeChunks ==
    ~mutated /\ ~Reentrant =>
      \E applied \in SUBSET Ingest :
        /\ \A g \in Ingest : /\ NotInStore(g) => g \notin applied
                             /\ InStore(g) => g \in applied
        /\ store = Held(applied)

IngestInv ==
    /\ Proved!IndInv
    /\ IsFiniteSet(store)
    /\ call \in [Ingest -> CallRecords]
    /\ inserted \in [Ingest -> Nat]
    /\ late \in [Ingest -> Nat]
    /\ \A g \in Ingest : CallInv(g)
    /\ WholeChunks

-----------------------------------------------------------------------------
(* The scheduler's steps, by what they do to the promises *)

LEMMA ChunksTyped ==
    ASSUME NEW g \in Ingest
    PROVE  /\ Chunks[g] \in Seq(Seq(Id))
           /\ Len(Chunks[g]) \in Nat /\ DOMAIN Chunks[g] = 1 .. Len(Chunks[g])
           /\ \A n \in DOMAIN Chunks[g] :
                /\ Chunks[g][n] \in Seq(Id)
                /\ Len(Chunks[g][n]) \in Nat
                /\ DOMAIN Chunks[g][n] = 1 .. Len(Chunks[g][n])
                /\ g \in Scheduled => <<g, n>> \in Task
  <1>1. Chunks[g] \in Seq(Seq(Id))
    BY IngestAssumption
  <1>2. Len(Chunks[g]) \in Nat /\ DOMAIN Chunks[g] = 1 .. Len(Chunks[g])
    BY <1>1
  <1>3. ASSUME NEW n \in DOMAIN Chunks[g] PROVE Chunks[g][n] \in Seq(Id)
    BY <1>1, <1>2, <1>3
  <1>4. ASSUME NEW n \in DOMAIN Chunks[g], g \in Scheduled
        PROVE  <<g, n>> \in Task
    BY <1>4 DEF Task
  <1>5. ASSUME NEW n \in DOMAIN Chunks[g]
        PROVE  Len(Chunks[g][n]) \in Nat /\ DOMAIN Chunks[g][n] = 1 .. Len(Chunks[g][n])
    BY <1>3
  <1> QED  BY <1>1, <1>2, <1>3, <1>4, <1>5

LEMMA PromisesTyped ==
    ASSUME Proved!IndInv
    PROVE  /\ promise \in [Task -> Proved!PromiseState]
           /\ queue \in Seq(Task)
           /\ \A t \in Task : promise[t] = "pending" <=> t \in ToSet(queue)
           /\ stepping /\ ~aborted =>
                /\ queue # <<>> /\ Head(queue) \in Task
                /\ promise[Head(queue)] = "pending"
  <1>1. /\ promise \in [Task -> Proved!PromiseState]
        /\ queue \in Seq(Task)
    BY Zenon DEF Proved!IndInv, Proved!TypeOK
  <1>2. \A t \in Task : promise[t] = "pending" <=> t \in ToSet(queue)
    BY DEF Proved!IndInv, Proved!PendingIffQueued, Proved!ToSet, ToSet
  <1>3. stepping /\ ~aborted => queue # <<>>
    BY Zenon DEF Proved!IndInv, Proved!StackMatchesQueue
  <1>4. ASSUME stepping, ~aborted
        PROVE  Head(queue) \in Task /\ Head(queue) \in ToSet(queue)
    <2>1. queue # <<>>
      BY <1>3, <1>4
    <2>2. Len(queue) \in Nat \ {0} /\ Head(queue) = queue[1] /\ DOMAIN queue = 1 .. Len(queue)
      BY <1>1, <2>1
    <2> QED  BY <1>1, <2>2 DEF ToSet
  <1> QED  BY <1>1, <1>2, <1>3, <1>4

LEMMA SchedulerKept ==
    ASSUME Proved!IndInv,
           \/ \E t \in Task : Scheduler!Schedule(t)
           \/ Scheduler!Abort \/ Scheduler!RunSlice \/ Scheduler!StepYields
           \/ Scheduler!StepCompletes \/ Scheduler!StepThrows
           \/ Scheduler!StepAborted \/ UNCHANGED schedulerVars
    PROVE  Proved!IndInv'
  <1>1. Proved!Next \/ UNCHANGED Proved!vars
    <2>1. (\E t \in Task : Scheduler!Schedule(t)) => \E t \in Task : Proved!Schedule(t)
      BY Zenon DEF Scheduler!Schedule, Proved!Schedule, Scheduler!Refuse, Proved!Refuse,
         Scheduler!Enqueue, Proved!Enqueue, Scheduler!ArmSlice, Proved!ArmSlice
    <2>2. Scheduler!Abort => Proved!Abort
      BY DEF Scheduler!Abort, Proved!Abort, Scheduler!ToSet, Proved!ToSet
    <2>3. Scheduler!RunSlice => Proved!RunSlice
      BY DEF Scheduler!RunSlice, Proved!RunSlice
    <2>4. \A rest : Scheduler!Continue(rest) => Proved!Continue(rest)
      BY Zenon DEF Scheduler!Continue, Proved!Continue, Scheduler!ArmSlice, Proved!ArmSlice
    <2>5. Scheduler!StepYields => Proved!StepYields
      BY <2>4, Zenon DEF Scheduler!StepYields, Proved!StepYields
    <2>6. \A outcome : Scheduler!Settle(outcome) => Proved!Settle(outcome)
      BY <2>4, Zenon DEF Scheduler!Settle, Proved!Settle
    <2>7. Scheduler!StepCompletes => Proved!StepCompletes
      BY <2>6, Zenon DEF Scheduler!StepCompletes, Proved!StepCompletes
    <2>8. Scheduler!StepThrows => Proved!StepThrows
      BY <2>6, Zenon DEF Scheduler!StepThrows, Proved!StepThrows
    <2>9. Scheduler!StepAborted => Proved!StepAborted
      BY DEF Scheduler!StepAborted, Proved!StepAborted
    <2>10. UNCHANGED schedulerVars => UNCHANGED Proved!vars
      BY DEF schedulerVars, Proved!vars
    <2> QED
      BY <2>1, <2>2, <2>3, <2>5, <2>7, <2>8, <2>9, <2>10, Zenon DEF Proved!Next
  <1>2. [Proved!Next]_(Proved!vars)
    BY <1>1
  <1> QED  BY <1>2, Proved!StepPreserves, IngestAssumption, Zenon

LEMMA PromisesMove ==
    ASSUME Proved!IndInv
    PROVE  /\ \A t \in Task : Scheduler!Schedule(t) =>
                /\ promise[t] = "new"
                /\ promise'[t] \in {"pending", "aborted", "full"}
                /\ \A u \in Task : u # t => promise'[u] = promise[u]
           /\ Scheduler!Abort =>
                \A u \in Task :
                   promise'[u] = IF promise[u] = "pending" THEN "aborted" ELSE promise[u]
           /\ Scheduler!StepCompletes =>
                /\ promise'[Head(queue)] = "resolved"
                /\ \A u \in Task : u # Head(queue) => promise'[u] = promise[u]
           /\ Scheduler!StepThrows =>
                /\ promise'[Head(queue)] = "failed"
                /\ \A u \in Task : u # Head(queue) => promise'[u] = promise[u]
           /\ Scheduler!RunSlice \/ Scheduler!StepYields \/ Scheduler!StepAborted =>
                promise' = promise
  <1>1. ASSUME NEW t \in Task, Scheduler!Schedule(t)
        PROVE  /\ promise[t] = "new"
               /\ promise'[t] \in {"pending", "aborted", "full"}
               /\ \A u \in Task : u # t => promise'[u] = promise[u]
    <2>1. PICK answer \in {"pending", "aborted", "full"} :
            promise' = [promise EXCEPT ![t] = answer]
      BY <1>1, Zenon DEF Scheduler!Schedule, Scheduler!Refuse, Scheduler!Enqueue
    <2>2. promise[t] = "new"
      BY <1>1 DEF Scheduler!Schedule
    <2> QED  BY <2>1, <2>2, PromisesTyped
  <1>2. Scheduler!Abort =>
          \A u \in Task :
             promise'[u] = IF promise[u] = "pending" THEN "aborted" ELSE promise[u]
    BY PromisesTyped DEF Scheduler!Abort, Scheduler!ToSet, ToSet
  <1>3. Scheduler!StepCompletes =>
          /\ promise'[Head(queue)] = "resolved"
          /\ \A u \in Task : u # Head(queue) => promise'[u] = promise[u]
    BY PromisesTyped DEF Scheduler!StepCompletes, Scheduler!Settle
  <1>4. Scheduler!StepThrows =>
          /\ promise'[Head(queue)] = "failed"
          /\ \A u \in Task : u # Head(queue) => promise'[u] = promise[u]
    BY PromisesTyped DEF Scheduler!StepThrows, Scheduler!Settle
  <1>5. Scheduler!RunSlice \/ Scheduler!StepYields \/ Scheduler!StepAborted =>
          promise' = promise
    BY DEF Scheduler!RunSlice, Scheduler!StepYields, Scheduler!StepAborted
  <1> QED  BY <1>1, <1>2, <1>3, <1>4, <1>5

-----------------------------------------------------------------------------
(* What a step leaves of the calls that do not take it *)

\* Nothing becomes of the promises of a call's chunks but that they are aborted.
Aside(g) ==
    \A n \in DOMAIN Chunks[g] :
       \/ promise'[<<g, n>>] = promise[<<g, n>>]
       \/ promise[<<g, n>>] = "pending" /\ promise'[<<g, n>>] = "aborted"

LEMMA OthersKeep ==
    ASSUME NEW g \in Ingest, CallInv(g), call'[g] = call[g], call[g] \in CallRecords,
           inserted'[g] = inserted[g], late'[g] = late[g],
           g \in signal => g \in signal', g \in Scheduled => Aside(g)
    PROVE  /\ CallInv(g)'
           /\ NotInStore(g)' => NotInStore(g)
           /\ InStore(g)' => InStore(g)
  <1>1. call[g].pc = "queued" =>
          /\ call[g].next \in DOMAIN Chunks[g]
          /\ \/ Answer(g)' = Answer(g)
             \/ Answer(g) = "pending" /\ Answer(g)' = "aborted"
    BY ChunksTyped DEF CallInv, Queued, Answer, Aside, CallRecords
  <1>2. NotInStore(g)' => NotInStore(g)
    BY <1>1 DEF NotInStore
  <1>3. InStore(g)' => InStore(g)
    BY <1>1 DEF InStore
  <1>4. Queued(g)'
    <2>1. call[g].pc = "queued" => Answer(g)' \in {"pending", "resolved", "failed", "aborted"}
      BY <1>1 DEF CallInv, Queued
    <2>2. g \in Scheduled =>
            \A n \in DOMAIN Chunks[g] :
               promise'[<<g, n>>] = "pending" => call[g].pc = "queued" /\ n = call[g].next
      BY DEF Aside, CallInv, Queued
    <2> QED  BY <2>1, <2>2 DEF CallInv, Queued
  <1>5. Stops(g)'
    BY <1>1 DEF CallInv, Stops
  <1>6. Counts(g)'
    BY <1>2, <1>3 DEF CallInv, Counts, Total
  <1> QED  BY <1>2, <1>3, <1>4, <1>5, <1>6 DEF CallInv

LEMMA HeldAs ==
    ASSUME NEW applied, NEW later,
           \A g \in Ingest :
              (IF g \in later THEN call'[g].next ELSE call'[g].next - 1)
                = (IF g \in applied THEN call[g].next ELSE call[g].next - 1)
    PROVE  Held(later)' = Held(applied)
  BY DEF Held, Ids

LEMMA WholeKept ==
    ASSUME WholeChunks, store' = store, mutated' = mutated,
           \A g \in Ingest : /\ call'[g].next = call[g].next
                             /\ NotInStore(g)' => NotInStore(g)
                             /\ InStore(g)' => InStore(g)
    PROVE  WholeChunks'
  <1> SUFFICES ASSUME ~mutated', ~Reentrant
               PROVE  \E applied \in SUBSET Ingest :
                        /\ \A g \in Ingest : /\ NotInStore(g)' => g \notin applied
                                             /\ InStore(g)' => g \in applied
                        /\ store' = Held(applied)'
    BY DEF WholeChunks
  <1>1. PICK applied \in SUBSET Ingest :
          /\ \A g \in Ingest : /\ NotInStore(g) => g \notin applied
                               /\ InStore(g) => g \in applied
          /\ store = Held(applied)
    BY DEF WholeChunks
  <1>2. Held(applied)' = Held(applied)
    BY HeldAs
  <1> QED  BY <1>1, <1>2

\* A step that leaves the store and the history alone, and takes one call to a
\* new record, if any.
LEMMA CallMoves ==
    ASSUME IngestInv, NEW g \in Ingest, NEW record \in CallRecords,
           call' = [call EXCEPT ![g] = record], record.next = call[g].next,
           UNCHANGED <<store, inserted, late, mutated>>, signal \subseteq signal',
           Proved!IndInv', CallInv(g)',
           NotInStore(g)' => NotInStore(g), InStore(g)' => InStore(g),
           \A h \in Scheduled \ {g} : Aside(h)
    PROVE  IngestInv'
  <1>1. ASSUME NEW h \in Ingest \ {g}
        PROVE  /\ CallInv(h)'
               /\ NotInStore(h)' => NotInStore(h)
               /\ InStore(h)' => InStore(h)
    <2>1. call'[h] = call[h] /\ call[h] \in CallRecords
      BY DEF IngestInv
    <2>2. CallInv(h) /\ (h \in Scheduled => Aside(h))
      BY DEF IngestInv
    <2> QED  BY <2>1, <2>2, OthersKeep
  <1>2. call' \in [Ingest -> CallRecords] /\ call'[g] = record
    BY DEF IngestInv
  <1>3. \A h \in Ingest : call'[h].next = call[h].next
    BY <1>2 DEF IngestInv
  <1>4. WholeChunks'
    BY <1>1, <1>3, WholeKept DEF IngestInv
  <1> QED  BY <1>1, <1>2, <1>4 DEF IngestInv

\* A step of the scheduler, of the host or of nobody.
LEMMA NobodyMoves ==
    ASSUME IngestInv, call' = call, UNCHANGED <<store, inserted, late, mutated>>,
           signal \subseteq signal', Proved!IndInv', \A g \in Scheduled : Aside(g)
    PROVE  IngestInv'
  <1>1. ASSUME NEW h \in Ingest
        PROVE  /\ CallInv(h)'
               /\ NotInStore(h)' => NotInStore(h)
               /\ InStore(h)' => InStore(h)
    <2>1. call'[h] = call[h] /\ call[h] \in CallRecords
      BY DEF IngestInv
    <2>2. CallInv(h) /\ (h \in Scheduled => Aside(h))
      BY DEF IngestInv
    <2> QED  BY <2>1, <2>2, OthersKeep
  <1>2. WholeChunks'
    BY <1>1, WholeKept DEF IngestInv
  <1> QED  BY <1>1, <1>2 DEF IngestInv

LEMMA StandStill ==
    ASSUME IngestInv, UNCHANGED schedulerVars
    PROVE  Proved!IndInv' /\ promise' = promise /\ \A g \in Scheduled : Aside(g)
  <1>1. Proved!IndInv'
    BY SchedulerKept DEF IngestInv
  <1> QED  BY <1>1 DEF schedulerVars, Aside

-----------------------------------------------------------------------------
(* The steps of a call *)

LEMMA FinishKeeps == ASSUME IngestInv, NEW g \in Ingest, Finish(g) PROVE IngestInv'
  <1> DEFINE record == [call[g] EXCEPT !.pc = "returned"]
  <1>1. call[g] \in CallRecords /\ CallInv(g) /\ call \in [Ingest -> CallRecords]
    BY DEF IngestInv
  <1>2. /\ record \in CallRecords /\ record.pc = "returned"
        /\ record.next = call[g].next /\ record.gain = call[g].gain
        /\ record.added = call[g].added /\ record.skipped = call[g].skipped
    BY <1>1 DEF CallRecords, Settled
  <1>3. call' = [call EXCEPT ![g] = record] /\ call'[g] = record
    BY <1>1 DEF Finish, Goto
  <1>4. /\ Proved!IndInv' /\ promise' = promise /\ \A h \in Scheduled : Aside(h)
    BY StandStill DEF Finish
  <1>5. call[g].pc = "pull" /\ call[g].next > Len(Chunks[g])
        /\ UNCHANGED <<store, inserted, late, mutated, signal>>
    BY DEF Finish
  <1> HIDE DEF record
  <1>6. NotInStore(g) /\ ~InStore(g)' /\ ~InStore(g)
    BY <1>2, <1>3, <1>5 DEF NotInStore, InStore
  <1>7. Queued(g)' /\ Stops(g)'
    BY <1>1, <1>2, <1>3, <1>4, <1>5 DEF CallInv, Queued, Stops
  <1>8. Counts(g)'
    BY <1>1, <1>2, <1>3, <1>5, <1>6 DEF CallInv, Counts, Total
  <1> QED  BY <1>2, <1>3, <1>4, <1>5, <1>6, <1>7, <1>8, CallMoves DEF CallInv

LEMMA StopKeeps == ASSUME IngestInv, NEW g \in Ingest, Stop(g) PROVE IngestInv'
  <1> DEFINE record == [call[g] EXCEPT !.pc = "stopped"]
  <1>1. call[g] \in CallRecords /\ CallInv(g) /\ call \in [Ingest -> CallRecords]
    BY DEF IngestInv
  <1>2. /\ record \in CallRecords /\ record.pc = "stopped"
        /\ record.next = call[g].next /\ record.gain = call[g].gain
        /\ record.added = call[g].added /\ record.skipped = call[g].skipped
    BY <1>1 DEF CallRecords, Settled
  <1>3. call' = [call EXCEPT ![g] = record] /\ call'[g] = record
    BY <1>1 DEF Stop, Goto
  <1>4. /\ Proved!IndInv' /\ promise' = promise /\ \A h \in Scheduled : Aside(h)
    BY StandStill DEF Stop
  <1>5. call[g].pc = "pull" /\ call[g].next <= Len(Chunks[g]) /\ g \in signal
        /\ UNCHANGED <<store, inserted, late, mutated, signal>>
    BY DEF Stop
  <1> HIDE DEF record
  <1>6. NotInStore(g) /\ ~InStore(g)' /\ ~InStore(g)
    BY <1>2, <1>3, <1>5 DEF NotInStore, InStore
  <1>7. Queued(g)' /\ Stops(g)'
    BY <1>1, <1>2, <1>3, <1>4, <1>5 DEF CallInv, Queued, Stops
  <1>8. Counts(g)'
    BY <1>1, <1>2, <1>3, <1>5, <1>6 DEF CallInv, Counts, Total
  <1> QED  BY <1>2, <1>3, <1>4, <1>5, <1>6, <1>7, <1>8, CallMoves DEF CallInv

LEMMA ScheduleChunkKeeps ==
    ASSUME IngestInv, NEW g \in Ingest, ScheduleChunk(g) PROVE IngestInv'
  <1> DEFINE task == <<g, call[g].next>>
             record == [call[g] EXCEPT !.pc =
                          IF promise'[task] = "pending" THEN "queued" ELSE "rejected"]
  <1>1. call[g] \in CallRecords /\ CallInv(g) /\ call \in [Ingest -> CallRecords]
    BY DEF IngestInv
  <1>2. /\ record \in CallRecords
        /\ record.pc = IF promise'[task] = "pending" THEN "queued" ELSE "rejected"
        /\ record.next = call[g].next /\ record.gain = call[g].gain
        /\ record.added = call[g].added /\ record.skipped = call[g].skipped
    BY <1>1 DEF CallRecords, Settled
  <1>3. call' = [call EXCEPT ![g] = record] /\ call'[g] = record
    BY <1>1 DEF ScheduleChunk, Goto
  <1>4. /\ call[g].pc = "pull" /\ call[g].next <= Len(Chunks[g])
        /\ g \notin signal /\ g \in Scheduled
        /\ Scheduler!Schedule(task)
        /\ UNCHANGED <<store, inserted, late, mutated, signal>>
    BY DEF ScheduleChunk
  <1>5. call[g].next \in DOMAIN Chunks[g] /\ task \in Task
    BY <1>1, <1>4, ChunksTyped DEF CallRecords
  <1>6. Proved!IndInv'
    BY <1>4, <1>5, SchedulerKept, Zenon DEF IngestInv
  <1>7. /\ promise'[task] \in {"pending", "aborted", "full"}
        /\ \A u \in Task : u # task => promise'[u] = promise[u]
    <2>1. Proved!IndInv
      BY DEF IngestInv
    <2> QED  BY <1>4, <1>5, <2>1, PromisesMove, Zenon
  <1> HIDE DEF task, record
  <1>8. \A h \in Scheduled : \A n \in DOMAIN Chunks[h] :
          <<h, n>> # task => promise'[<<h, n>>] = promise[<<h, n>>]
    BY <1>7, ChunksTyped, IngestAssumption
  <1>9. \A h \in Scheduled \ {g} : Aside(h)
    BY <1>8 DEF Aside, task
  <1>10. NotInStore(g) /\ ~InStore(g)'
    BY <1>2, <1>3, <1>4 DEF NotInStore, InStore, Answer, task
  <1>11. Queued(g)'
    <2>1. \A n \in DOMAIN Chunks[g] : promise'[<<g, n>>] = "pending" => n = call[g].next
      <3> SUFFICES ASSUME NEW n \in DOMAIN Chunks[g], promise'[<<g, n>>] = "pending",
                          n # call[g].next
                   PROVE  FALSE
        OBVIOUS
      <3>1. promise[<<g, n>>] = "pending"
        BY <1>4, <1>8 DEF task
      <3> QED  BY <1>1, <1>4, <3>1 DEF CallInv, Queued
    <2>2. \A n \in DOMAIN Chunks[g] : promise'[<<g, n>>] = "pending" => record.pc = "queued"
      BY <1>2, <2>1 DEF task
    <2>3. record.pc = "queued" => Answer(g)' = "pending"
      BY <1>2, <1>3 DEF Answer, task
    <2> QED  BY <1>1, <1>2, <1>3, <1>4, <2>1, <2>2, <2>3 DEF CallInv, Queued
  <1>12. Stops(g)'
    BY <1>1, <1>2, <1>3, <1>4 DEF CallInv, Stops
  <1>13. Counts(g)'
    BY <1>1, <1>2, <1>3, <1>4, <1>10 DEF CallInv, Counts, Total
  <1> QED
    BY <1>2, <1>3, <1>4, <1>6, <1>9, <1>10, <1>11, <1>12, <1>13, CallMoves DEF CallInv

LEMMA RejectedKeeps ==
    ASSUME IngestInv, NEW g \in Ingest, call[g].pc = "queued",
           Answer(g) \in {"failed", "aborted"}, Goto(g, "rejected"),
           UNCHANGED <<schedulerVars, store, signal, inserted, late, mutated>>
    PROVE  IngestInv'
  <1> DEFINE record == [call[g] EXCEPT !.pc = "rejected"]
  <1>1. call[g] \in CallRecords /\ CallInv(g) /\ call \in [Ingest -> CallRecords]
    BY DEF IngestInv
  <1>2. /\ record \in CallRecords /\ record.pc = "rejected"
        /\ record.next = call[g].next /\ record.gain = call[g].gain
        /\ record.added = call[g].added /\ record.skipped = call[g].skipped
    BY <1>1 DEF CallRecords, Settled
  <1>3. call' = [call EXCEPT ![g] = record] /\ call'[g] = record
    BY <1>1 DEF Goto
  <1>4. /\ Proved!IndInv' /\ promise' = promise /\ \A h \in Scheduled : Aside(h)
    BY StandStill
  <1> HIDE DEF record
  <1>5. ~NotInStore(g)' /\ ~InStore(g)'
    BY <1>2, <1>3 DEF NotInStore, InStore
  <1>6. Queued(g)'
    <2>1. \A n \in DOMAIN Chunks[g] : g \in Scheduled => promise[<<g, n>>] # "pending"
      BY <1>1 DEF CallInv, Queued, Answer
    <2> QED  BY <1>1, <1>2, <1>3, <1>4, <2>1 DEF CallInv, Queued
  <1>7. Stops(g)'
    BY <1>1, <1>2, <1>3 DEF CallInv, Stops
  <1>8. Counts(g)'
    BY <1>1, <1>2, <1>3, <1>5 DEF CallInv, Counts, Total
  <1> QED  BY <1>2, <1>3, <1>4, <1>5, <1>6, <1>7, <1>8, CallMoves DEF CallInv

-----------------------------------------------------------------------------
(* Counting a chunk *)

\* One chunk more is one chunk's places and ids more.
LEMMA OneChunkMore ==
    ASSUME NEW g \in Ingest, NEW n \in DOMAIN Chunks[g],
           IsFiniteSet(Places(g, n - 1))
    PROVE  /\ IsFiniteSet(Places(g, n))
           /\ Cardinality(Places(g, n - 1)) \in Nat
           /\ Cardinality(Places(g, n)) =
                Cardinality(Places(g, n - 1)) + Len(Chunks[g][n])
           /\ Ids(g, n) = Ids(g, n - 1) \cup ToSet(Chunks[g][n])
  <1> DEFINE D == DOMAIN Chunks[g][n]
  <1>1. n \in Nat \ {0} /\ 1 .. n = (1 .. n - 1) \cup {n} /\ n \notin 1 .. n - 1
    BY ChunksTyped
  <1>2. Places(g, n) = Places(g, n - 1) \cup ({n} \X D)
    BY <1>1 DEF Places
  <1>3. Places(g, n - 1) \cap ({n} \X D) = {}
    <2> SUFFICES ASSUME NEW x \in Places(g, n - 1), x \in {n} \X D PROVE FALSE
      OBVIOUS
    <2>1. PICK k \in 1 .. n - 1 : x \in {k} \X DOMAIN Chunks[g][k]
      BY DEF Places
    <2> QED  BY <1>1, <2>1
  <1>4. Len(Chunks[g][n]) \in Nat /\ D = 1 .. Len(Chunks[g][n])
    BY ChunksTyped
  <1>5. IsFiniteSet(D) /\ Cardinality(D) = Len(Chunks[g][n])
    <2> DEFINE m == Len(Chunks[g][n])
    <2>1. m \in Nat /\ m \in Int /\ 1 \in Int /\ D = 1 .. m
      BY <1>4
    <2> HIDE DEF m, D
    <2>2. IsFiniteSet(1 .. m) /\ Cardinality(1 .. m) = IF 1 > m THEN 0 ELSE m - 1 + 1
      BY <2>1, FS_Interval, Zenon
    <2>3. Cardinality(1 .. m) = m
      BY <2>1, <2>2
    <2>4. IsFiniteSet(D) /\ Cardinality(D) = m
      BY <2>1, <2>2, <2>3, Zenon
    <2> QED  BY <2>4 DEF m
  <1> HIDE DEF D
  <1>6. IsFiniteSet({n} \X D) /\ Cardinality({n} \X D) = Len(Chunks[g][n])
    <2>1. IsFiniteSet({n}) /\ Cardinality({n}) = 1
      BY FS_Singleton
    <2>2. /\ IsFiniteSet({n} \X D)
          /\ Cardinality({n} \X D) = Cardinality({n}) * Cardinality(D)
      BY <1>5, <2>1, FS_Product
    <2>3. 1 * Len(Chunks[g][n]) = Len(Chunks[g][n])
      BY <1>4
    <2> QED  BY <1>5, <2>1, <2>2, <2>3
  <1>7. Cardinality(Places(g, n - 1)) \in Nat
    BY FS_CardinalityType
  <1>8. /\ IsFiniteSet(Places(g, n))
        /\ Cardinality(Places(g, n)) =
             Cardinality(Places(g, n - 1)) + Len(Chunks[g][n])
    <2>1. /\ IsFiniteSet(Places(g, n - 1) \cup ({n} \X D))
          /\ Cardinality(Places(g, n - 1) \cup ({n} \X D)) =
               Cardinality(Places(g, n - 1)) + Cardinality({n} \X D)
                 - Cardinality(Places(g, n - 1) \cap ({n} \X D))
      BY <1>6, FS_Union
    <2>2. Cardinality(Places(g, n - 1) \cap ({n} \X D)) = 0
      BY <1>3, FS_EmptySet
    <2> QED  BY <1>2, <1>4, <1>6, <1>7, <2>1, <2>2
  <1>9. Ids(g, n) = Ids(g, n - 1) \cup ToSet(Chunks[g][n])
    BY <1>1 DEF Ids
  <1> QED  BY <1>7, <1>8, <1>9

\* What is counted is what was yielded.
LEMMA SumsMove ==
    ASSUME NEW a \in Int, NEW b \in Int, NEW x \in Int, NEW l \in Nat
    PROVE  (a + x) + (b + l - x) = (a + b) + l
  OBVIOUS

LEMMA CountKeeps ==
    ASSUME IngestInv, NEW g \in Ingest, InStore(g), CountChunk(g),
           UNCHANGED <<schedulerVars, store, signal, inserted, late, mutated>>
    PROVE  IngestInv'
  <1> DEFINE n == call[g].next
             record == [call[g] EXCEPT !.pc = "pull", !.next = @ + 1,
                          !.added = @ + call[g].gain,
                          !.skipped = @ + Len(Chunk(g)) - call[g].gain]
  <1>1. call[g] \in CallRecords /\ CallInv(g) /\ call \in [Ingest -> CallRecords]
    BY DEF IngestInv
  <1>2. /\ n \in DOMAIN Chunks[g] /\ n \in Nat \ {0} /\ Len(Chunks[g]) \in Nat
        /\ Chunk(g) = Chunks[g][n] /\ Len(Chunk(g)) \in Nat
        /\ DOMAIN Chunks[g] = 1 .. Len(Chunks[g])
    <2>1. n <= Len(Chunks[g]) /\ n \in Nat \ {0}
      BY <1>1 DEF CallInv, Queued, InStore, CallRecords
    <2> QED  BY <2>1, ChunksTyped DEF Chunk
  <1>3. /\ record \in CallRecords /\ record.pc = "pull"
        /\ record.next = n + 1 /\ record.gain = call[g].gain
        /\ record.added = call[g].added + call[g].gain
        /\ record.skipped = call[g].skipped + Len(Chunks[g][n]) - call[g].gain
    <2>1. /\ call[g].next + 1 \in Nat \ {0} /\ call[g].gain \in Int
          /\ call[g].added + call[g].gain \in Int
          /\ call[g].skipped + Len(Chunk(g)) - call[g].gain \in Int
      <3>1. /\ call[g].next \in Nat \ {0} /\ call[g].gain \in Int
            /\ call[g].added \in Int /\ call[g].skipped \in Int
        BY <1>1 DEF CallRecords
      <3>2. \A a, b, x \in Int, l \in Nat : a + x \in Int /\ b + l - x \in Int
        OBVIOUS
      <3>3. call[g].next + 1 \in Nat \ {0}
        BY <3>1
      <3> QED  BY <1>2, <3>1, <3>2, <3>3, Zenon
    <2> DEFINE next == call[g].next + 1
               added == call[g].added + call[g].gain
               skipped == call[g].skipped + Len(Chunk(g)) - call[g].gain
    <2>2. record = [call[g] EXCEPT !.pc = "pull", !.next = next, !.added = added,
                                   !.skipped = skipped]
      OBVIOUS
    <2> HIDE DEF next, added, skipped, record
    <2>3. /\ record \in CallRecords /\ record.pc = "pull"
          /\ record.next = next /\ record.gain = call[g].gain
          /\ record.added = added /\ record.skipped = skipped
      <3>1. next \in Nat \ {0} /\ added \in Int /\ skipped \in Int
        BY <2>1 DEF next, added, skipped
      <3>2. call[g] \in CallRecords
        BY <1>1
      <3> QED  BY <2>2, <3>1, <3>2 DEF CallRecords
    <2> QED  BY <1>2, <2>3, Zenon DEF next, added, skipped
  <1>4. call' = [call EXCEPT ![g] = record] /\ call'[g] = record
    BY <1>1 DEF CountChunk
  <1>5. /\ Proved!IndInv' /\ promise' = promise /\ \A h \in Scheduled : Aside(h)
    BY StandStill
  <1> HIDE DEF record
  <1>6. Queued(g)'
    <2>1. \A m \in DOMAIN Chunks[g] : g \in Scheduled => promise[<<g, m>>] # "pending"
      BY <1>1 DEF CallInv, Queued, InStore, Answer
    <2> QED  BY <1>1, <1>2, <1>3, <1>4, <1>5, <2>1 DEF CallInv, Queued
  <1>7. Stops(g)'
    BY <1>1, <1>3, <1>4 DEF CallInv, Stops
  <1>8. Counts(g)'
    <2>1. /\ IsFiniteSet(Places(g, n)) /\ Cardinality(Places(g, n - 1)) \in Nat
          /\ Cardinality(Places(g, n)) =
               Cardinality(Places(g, n - 1)) + Len(Chunks[g][n])
      BY <1>1, <1>2, OneChunkMore DEF CallInv, Counts
    <2>2. record.next - 1 = n
      BY <1>2, <1>3
    <2>3. IsFiniteSet(Places(g, call[g].next - 1))' /\ Total(g)' = Cardinality(Places(g, n))
      BY <1>4, <2>1, <2>2 DEF Places, Total
    <2>4. record.added + record.skipped = Cardinality(Places(g, n))
      <3>1. /\ call[g].added \in Int /\ call[g].skipped \in Int /\ call[g].gain \in Int
            /\ call[g].added + call[g].skipped = Cardinality(Places(g, n - 1))
        BY <1>1 DEF CallInv, Counts, Total, CallRecords
      <3>2. Len(Chunks[g][n]) \in Nat
        BY <1>2
      <3>3. (call[g].added + call[g].gain)
              + (call[g].skipped + Len(Chunks[g][n]) - call[g].gain)
              = (call[g].added + call[g].skipped) + Len(Chunks[g][n])
        BY <3>1, <3>2, SumsMove
      <3>4. record.added + record.skipped
              = (call[g].added + call[g].skipped) + Len(Chunks[g][n])
        BY <1>3, <3>3, Zenon
      <3> QED  BY <2>1, <3>1, <3>4, Zenon
    <2>5. ~Reentrant => record.added = inserted[g]
      BY <1>1, <1>3 DEF CallInv, Counts
    <2>6. ~InStore(g)'
      BY <1>3, <1>4 DEF InStore
    <2> QED  BY <1>4, <2>3, <2>4, <2>5, <2>6 DEF Counts
  <1>9. ASSUME NEW h \in Ingest \ {g}
        PROVE  /\ call'[h] = call[h] /\ CallInv(h)'
               /\ NotInStore(h)' => NotInStore(h)
               /\ InStore(h)' => InStore(h)
    <2>1. call'[h] = call[h] /\ call[h] \in CallRecords
      BY <1>1, <1>4
    <2>2. CallInv(h) /\ (h \in Scheduled => Aside(h))
      BY <1>5 DEF IngestInv
    <2> QED  BY <2>1, <2>2, OthersKeep
  <1>10. WholeChunks'
    <2> SUFFICES ASSUME ~mutated', ~Reentrant
                 PROVE  \E applied \in SUBSET Ingest :
                          /\ \A h \in Ingest : /\ NotInStore(h)' => h \notin applied
                                               /\ InStore(h)' => h \in applied
                          /\ store' = Held(applied)'
      BY DEF WholeChunks
    <2>1. PICK applied \in SUBSET Ingest :
            /\ \A h \in Ingest : /\ NotInStore(h) => h \notin applied
                                 /\ InStore(h) => h \in applied
            /\ store = Held(applied)
      BY DEF IngestInv, WholeChunks
    <2>2. g \in applied
      BY <2>1
    <2>3. Held(applied \ {g})' = Held(applied)
      <3>1. \A h \in Ingest :
              (IF h \in applied \ {g} THEN call'[h].next ELSE call'[h].next - 1)
                = (IF h \in applied THEN call[h].next ELSE call[h].next - 1)
        BY <1>2, <1>3, <1>4, <1>9, <2>2
      <3> QED  BY <3>1, HeldAs
    <2>4. ~InStore(g)'
      BY <1>3, <1>4 DEF InStore
    <2> QED  BY <1>9, <2>1, <2>3, <2>4
  <1>11. call' \in [Ingest -> CallRecords]
    BY <1>1, <1>3, <1>4
  <1> QED
    BY <1>5, <1>6, <1>7, <1>8, <1>9, <1>10, <1>11 DEF IngestInv, CallInv

LEMMA ResumeKeeps == ASSUME IngestInv, NEW g \in Ingest, Resume(g) PROVE IngestInv'
  <1>1. CASE Answer(g) = "resolved" /\ CountChunk(g)
    <2>1. InStore(g)
      BY <1>1 DEF Resume, InStore
    <2> QED  BY <1>1, <2>1, CountKeeps DEF Resume
  <1>2. CASE Answer(g) \in {"failed", "aborted"} /\ Goto(g, "rejected")
    BY <1>2, RejectedKeeps DEF Resume
  <1> QED  BY <1>1, <1>2, Zenon DEF Resume, Answer

LEMMA WakeKeeps == ASSUME IngestInv, NEW g \in Ingest, Wake(g) PROVE IngestInv'
  BY CountKeeps DEF Wake, InStore

-----------------------------------------------------------------------------
(* Applying a chunk *)

LEMMA AppliedIs ==
    ASSUME IngestInv, NEW g \in Ingest, NEW pc, ApplyChunk(g, pc),
           call[g].next <= Len(Chunks[g])
    PROVE  LET fresh == ToSet(Chunk(g)) \ store
           IN  /\ IsFiniteSet(store')
               /\ Cardinality(fresh) \in Nat
               /\ Cardinality(store') - Cardinality(store) \in Int
               /\ ~Reentrant =>
                    /\ store' = store \cup ToSet(Chunk(g))
                    /\ Cardinality(store') - Cardinality(store) = Cardinality(fresh)
  <1> DEFINE fresh == ToSet(Chunk(g)) \ store
  <1>1. call[g] \in CallRecords /\ IsFiniteSet(store)
    BY DEF IngestInv
  <1>2. /\ Chunk(g) \in Seq(Id) /\ Len(Chunk(g)) \in Nat
        /\ DOMAIN Chunk(g) = 1 .. Len(Chunk(g))
    BY <1>1, ChunksTyped DEF Chunk, CallRecords
  <1>3. IsFiniteSet(ToSet(Chunk(g)))
    <2> DEFINE C == Chunk(g)
    <2>1. IsFiniteSet(1 .. Len(C))
      BY <1>2, FS_Interval, 1 \in Int
    <2> HIDE DEF C
    <2>2. C \in [1 .. Len(C) -> ToSet(C)] /\ \A x \in ToSet(C) : \E i \in 1 .. Len(C) : C[i] = x
      BY <1>2 DEF ToSet, C
    <2>3. C \in Surjection(1 .. Len(C), ToSet(C))
      BY <2>2 DEF Surjection
    <2>4. IsFiniteSet(ToSet(C))
      BY <2>1, <2>3, FS_Surjection
    <2> QED  BY <2>4 DEF C
  <1>4. IsFiniteSet(fresh)
    BY <1>3, FS_Subset
  <1>5. /\ IsFiniteSet(store \cup fresh)
        /\ Cardinality(store \cup fresh) =
             Cardinality(store) + Cardinality(fresh) - Cardinality(store \cap fresh)
        /\ Cardinality(store \cap fresh) = 0
    <2>1. store \cap fresh = {}
      OBVIOUS
    <2> QED  BY <1>1, <1>4, <2>1, FS_Union, FS_EmptySet
  <1>6. Cardinality(store) \in Nat /\ Cardinality(fresh) \in Nat
    BY <1>1, <1>4, FS_CardinalityType
  <1>7. \/ fresh = {} /\ store' = store
        \/ fresh # {} /\ store' \in ListenerEffects(store \cup fresh)
    BY DEF ApplyChunk
  <1>8. IsFiniteSet(store')
    <2>1. ASSUME NEW s \in ListenerEffects(store \cup fresh) PROVE IsFiniteSet(s)
      <3>1. \/ s = store \cup fresh
            \/ \E i \in Id : s = (store \cup fresh) \cup {i}
            \/ \E i \in Id : s = (store \cup fresh) \ {i}
        BY <2>1, Zenon DEF ListenerEffects
      <3> DEFINE base == store \cup fresh
      <3>2. IsFiniteSet(base) /\ (\A i : IsFiniteSet(base \cup {i}) /\ IsFiniteSet(base \ {i}))
        BY <1>5, FS_AddElement, FS_RemoveElement
      <3> HIDE DEF base
      <3>3. s = base \/ (\E i \in Id : s = base \cup {i}) \/ \E i \in Id : s = base \ {i}
        BY <3>1, Zenon DEF base
      <3> QED  BY <3>2, <3>3
    <2> QED  BY <1>1, <1>7, <2>1
  <1>9. ~Reentrant => store' = store \cup fresh
    BY <1>7 DEF ListenerEffects
  <1>10. store \cup fresh = store \cup ToSet(Chunk(g))
    OBVIOUS
  <1>11. Cardinality(store') \in Nat
    BY <1>8, FS_CardinalityType
  <1> HIDE DEF fresh
  <1>12. Cardinality(store') - Cardinality(store) \in Int
    BY <1>6, <1>11
  <1>13. ~Reentrant => Cardinality(store') - Cardinality(store) = Cardinality(fresh)
    <2>1. \A a, b \in Nat : (a + b - 0) - a = b
      OBVIOUS
    <2>2. Cardinality(store \cup fresh) = Cardinality(store) + Cardinality(fresh) - 0
      BY <1>5
    <2>3. ~Reentrant =>
            Cardinality(store') = Cardinality(store) + Cardinality(fresh) - 0
      BY <1>9, <2>2, Zenon
    <2>4. (Cardinality(store) + Cardinality(fresh) - 0) - Cardinality(store)
            = Cardinality(fresh)
      BY <1>6, <2>1, Zenon
    <2> QED  BY <2>3, <2>4, Zenon
  <1> QED  BY <1>6, <1>8, <1>9, <1>10, <1>12, <1>13 DEF fresh

\* A chunk that was in nobody's hands is applied, by its call at once or in a
\* step of the scheduler, and the call goes on to wait.
LEMMA ApplyKeeps ==
    ASSUME IngestInv, NEW g \in Ingest, NEW pc \in {"queued", "asleep"},
           ApplyChunk(g, pc), NotInStore(g), call[g].next <= Len(Chunks[g]),
           pc = "asleep" <=> g \notin Scheduled,
           g \in signal => g \in Scheduled,
           g \in signal => late[g] = 0,
           pc = "queued" => Answer(g)' \in {"resolved", "failed", "aborted"},
           g \in Scheduled =>
             \A n \in DOMAIN Chunks[g] : promise'[<<g, n>>] # "pending",
           \A h \in Scheduled \ {g} : Aside(h),
           Proved!IndInv', signal' = signal, mutated' = mutated
    PROVE  IngestInv'
  <1> DEFINE gain == Cardinality(store') - Cardinality(store)
             fresh == ToSet(Chunk(g)) \ store
             record == [call[g] EXCEPT !.pc = pc, !.gain = gain]
  <1>1. call[g] \in CallRecords /\ CallInv(g) /\ call \in [Ingest -> CallRecords]
    BY DEF IngestInv
  <1>2. /\ IsFiniteSet(store') /\ Cardinality(fresh) \in Nat /\ gain \in Int
        /\ ~Reentrant => store' = store \cup ToSet(Chunk(g)) /\ gain = Cardinality(fresh)
    BY AppliedIs
  <1>3. call' = [call EXCEPT ![g] = record] /\ call'[g] = record
    BY <1>1 DEF ApplyChunk
  <1>4. /\ inserted' = [inserted EXCEPT ![g] = @ + Cardinality(fresh)]
        /\ late' = [late EXCEPT ![g] = @ + IF g \in signal THEN 1 ELSE 0]
    BY DEF ApplyChunk
  <1> HIDE DEF gain, fresh
  <1>5. /\ record \in CallRecords /\ record.pc = pc
        /\ record.next = call[g].next /\ record.gain = gain
        /\ record.added = call[g].added /\ record.skipped = call[g].skipped
    BY <1>1, <1>2 DEF CallRecords
  <1> HIDE DEF record
  <1>6. /\ inserted' \in [Ingest -> Nat] /\ late' \in [Ingest -> Nat]
        /\ inserted'[g] = inserted[g] + Cardinality(fresh)
        /\ late'[g] = late[g] + IF g \in signal THEN 1 ELSE 0
        /\ \A h \in Ingest \ {g} : inserted'[h] = inserted[h] /\ late'[h] = late[h]
    BY <1>2, <1>4 DEF IngestInv
  <1>7. Queued(g)'
    BY <1>1, <1>3, <1>5 DEF CallInv, Queued, Answer
  <1>8. Stops(g)'
    <2>1. late[g] = 0 /\ (late'[g] # 0 => g \in signal /\ late'[g] = 1)
      BY <1>1, <1>6 DEF CallInv, Stops
    <2> QED  BY <1>3, <1>5, <2>1 DEF Stops
  <1>9. ~NotInStore(g)'
    BY <1>3, <1>5 DEF NotInStore
  <1>10. Counts(g)'
    <2>1. ~Reentrant => call[g].added + gain = inserted'[g]
      BY <1>1, <1>2, <1>6 DEF CallInv, Counts
    <2> QED  BY <1>1, <1>3, <1>5, <1>9, <2>1 DEF CallInv, Counts, Total
  <1>11. ASSUME NEW h \in Ingest \ {g}
         PROVE  /\ call'[h] = call[h] /\ CallInv(h)'
                /\ NotInStore(h)' => NotInStore(h)
                /\ InStore(h)' => InStore(h)
    <2>1. call'[h] = call[h] /\ call[h] \in CallRecords
      BY <1>1, <1>3
    <2>2. CallInv(h) /\ inserted'[h] = inserted[h] /\ late'[h] = late[h]
      BY <1>6 DEF IngestInv
    <2> QED  BY <2>1, <2>2, OthersKeep
  <1>12. WholeChunks'
    <2> SUFFICES ASSUME ~mutated', ~Reentrant
                 PROVE  \E applied \in SUBSET Ingest :
                          /\ \A h \in Ingest : /\ NotInStore(h)' => h \notin applied
                                               /\ InStore(h)' => h \in applied
                          /\ store' = Held(applied)'
      BY DEF WholeChunks
    <2>1. PICK applied \in SUBSET Ingest :
            /\ \A h \in Ingest : /\ NotInStore(h) => h \notin applied
                                 /\ InStore(h) => h \in applied
            /\ store = Held(applied)
      BY DEF IngestInv, WholeChunks
    <2>2. g \notin applied
      BY <2>1
    <2>3. Held(applied \cup {g})' = Held(applied) \cup ToSet(Chunk(g))
      <3> DEFINE Before(h) == IF h \in applied THEN call[h].next ELSE call[h].next - 1
                 After(h) == IF h \in applied \cup {g}
                             THEN call'[h].next ELSE call'[h].next - 1
      <3>1. \A h \in Ingest \ {g} : Ids(h, After(h)) = Ids(h, Before(h))
        BY <1>11
      <3>2. Ids(g, After(g)) = Ids(g, Before(g)) \cup ToSet(Chunk(g))
        <4>1. After(g) = call[g].next /\ Before(g) = call[g].next - 1
          BY <1>3, <1>5, <2>2
        <4>2. call[g].next \in DOMAIN Chunks[g]
          BY <1>1, ChunksTyped DEF CallRecords
        <4>3. IsFiniteSet(Places(g, call[g].next - 1))
          BY <1>1 DEF CallInv, Counts
        <4>4. Ids(g, call[g].next) = Ids(g, call[g].next - 1) \cup ToSet(Chunks[g][call[g].next])
          BY <4>2, <4>3, OneChunkMore
        <4> QED  BY <4>1, <4>4 DEF Chunk
      <3>3. /\ Held(applied) = UNION {Ids(h, Before(h)) : h \in Ingest}
            /\ Held(applied \cup {g})' = UNION {Ids(h, After(h)) : h \in Ingest}
        BY DEF Held, Ids
      <3> HIDE DEF Before, After
      <3> QED  BY <3>1, <3>2, <3>3
    <2>4. store' = Held(applied \cup {g})'
      BY <1>2, <2>1, <2>3
    <2> QED  BY <1>9, <1>11, <2>1, <2>4
  <1>13. call' \in [Ingest -> CallRecords]
    BY <1>1, <1>3, <1>5
  <1> QED
    BY <1>2, <1>6, <1>7, <1>8, <1>10, <1>11, <1>12, <1>13 DEF IngestInv, CallInv

LEMMA ApplyDirectlyKeeps ==
    ASSUME IngestInv, NEW g \in Ingest, ApplyDirectly(g) PROVE IngestInv'
  <1>1. /\ call[g].pc = "pull" /\ call[g].next <= Len(Chunks[g])
        /\ g \notin signal /\ g \notin Scheduled /\ ApplyChunk(g, "asleep")
        /\ UNCHANGED <<schedulerVars, signal, mutated>>
    BY DEF ApplyDirectly
  <1>2. NotInStore(g)
    BY <1>1 DEF NotInStore
  <1>3. Proved!IndInv' /\ \A h \in Scheduled : Aside(h)
    BY <1>1, StandStill
  <1> QED  BY <1>1, <1>2, <1>3, ApplyKeeps

LEMMA RunsWaiting ==
    ASSUME IngestInv, NEW g \in Ingest, RunChunk(g)
    PROVE  /\ call[g].next \in DOMAIN Chunks[g] /\ call[g].pc = "queued"
           /\ <<g, call[g].next>> \in Task /\ Answer(g) = "pending"
  <1> DEFINE task == <<g, call[g].next>>
  <1>1. g \in Scheduled /\ stepping /\ ~aborted /\ Head(queue) = task
    BY DEF RunChunk, Running
  <1>2. Proved!IndInv /\ CallInv(g) /\ call[g] \in CallRecords
    BY DEF IngestInv
  <1>3. task \in Task /\ promise[task] = "pending"
    BY <1>1, <1>2, PromisesTyped, Zenon
  <1>4. task \notin Other
    BY <1>1, <1>2, IngestAssumption DEF CallRecords
  <1>5. call[g].next \in DOMAIN Chunks[g]
    <2>1. PICK h \in Scheduled : \E n \in DOMAIN Chunks[h] : task = <<h, n>>
      BY <1>3, <1>4 DEF Task
    <2> QED  BY <2>1
  <1>6. call[g].pc = "queued"
    BY <1>1, <1>2, <1>3, <1>5 DEF CallInv, Queued
  <1> QED  BY <1>3, <1>5, <1>6 DEF Answer

LEMMA RunChunkKeeps ==
    ASSUME IngestInv, NEW g \in Ingest, RunChunk(g) PROVE IngestInv'
  <1> DEFINE task == <<g, call[g].next>>
  <1>1. /\ g \in Scheduled /\ stepping /\ ~aborted /\ Head(queue) = task
        /\ Scheduler!StepCompletes \/ Scheduler!StepThrows \/ Scheduler!Abort
        /\ ApplyChunk(g, "queued") /\ signal' = signal /\ mutated' = mutated
    BY DEF RunChunk, Running
  <1>2. Proved!IndInv /\ CallInv(g) /\ call[g] \in CallRecords
    BY DEF IngestInv
  <1>3. Proved!IndInv'
    BY <1>1, <1>2, SchedulerKept, Zenon
  <1>4. task \in Task /\ promise[task] = "pending"
    BY RunsWaiting DEF Answer
  <1>5. \/ /\ promise'[task] \in {"resolved", "failed"}
           /\ \A u \in Task : u # task => promise'[u] = promise[u]
        \/ \A u \in Task :
             promise'[u] = IF promise[u] = "pending" THEN "aborted" ELSE promise[u]
    BY <1>1, <1>2, PromisesMove
  <1> HIDE DEF task
  <1>6. promise'[task] \in {"resolved", "failed", "aborted"}
    BY <1>4, <1>5
  <1>7. call[g].next \in DOMAIN Chunks[g] /\ call[g].pc = "queued"
    BY RunsWaiting
  <1>8. NotInStore(g) /\ call[g].next <= Len(Chunks[g])
    BY <1>4, <1>7, ChunksTyped DEF NotInStore, Answer, task
  <1>9. \A n \in DOMAIN Chunks[g] : promise'[<<g, n>>] # "pending"
    <2> SUFFICES ASSUME NEW n \in DOMAIN Chunks[g], promise'[<<g, n>>] = "pending"
                 PROVE  FALSE
      OBVIOUS
    <2>1. <<g, n>> \in Task /\ <<g, n>> # task
      BY <1>1, <1>6, ChunksTyped, IngestAssumption
    <2>2. promise[<<g, n>>] = "pending"
      BY <1>5, <2>1
    <2> QED  BY <1>1, <1>2, <2>1, <2>2 DEF CallInv, Queued, task
  <1>10. \A h \in Scheduled \ {g} : Aside(h)
    <2> SUFFICES ASSUME NEW h \in Scheduled \ {g}, NEW n \in DOMAIN Chunks[h]
                 PROVE  \/ promise'[<<h, n>>] = promise[<<h, n>>]
                        \/ promise[<<h, n>>] = "pending" /\ promise'[<<h, n>>] = "aborted"
      BY DEF Aside
    <2>1. <<h, n>> \in Task /\ <<h, n>> # task
      BY ChunksTyped, IngestAssumption DEF task
    <2> QED  BY <1>5, <2>1
  <1>11. Answer(g)' \in {"resolved", "failed", "aborted"}
    <2>1. call'[g].next = call[g].next
      BY <1>1, <1>2 DEF ApplyChunk, IngestInv, CallRecords
    <2> QED  BY <1>6, <2>1 DEF Answer, task
  <1>12. late[g] = 0
    BY <1>2, <1>4, <1>7 DEF CallInv, Stops, Answer, task
  <1> QED
    BY <1>1, <1>3, <1>8, <1>9, <1>10, <1>11, <1>12, ApplyKeeps

-----------------------------------------------------------------------------
(* The steps of others *)

LEMMA FireSignalKeeps ==
    ASSUME IngestInv, NEW g \in Ingest, FireSignal(g) PROVE IngestInv'
  <1>1. /\ UNCHANGED <<schedulerVars, store, call, inserted, late, mutated>>
        /\ signal \subseteq signal'
    BY DEF FireSignal
  <1> QED  BY <1>1, StandStill, NobodyMoves

\* The host's tasks are none of the calls'.
LEMMA HostAside ==
    ASSUME Proved!IndInv, NEW t \in Other,
           \A u \in Task : u # t => promise'[u] = promise[u]
    PROVE  \A h \in Scheduled : Aside(h)
  <1> SUFFICES ASSUME NEW h \in Scheduled, NEW n \in DOMAIN Chunks[h]
               PROVE  promise'[<<h, n>>] = promise[<<h, n>>]
    BY DEF Aside
  <1>1. h \in Ingest /\ n \in Nat /\ <<h, n>> \in Task
    BY ChunksTyped, IngestAssumption
  <1>2. <<h, n>> # t
    <2>1. <<h, n>> \in Ingest \X Nat
      BY <1>1
    <2>2. t \notin Ingest \X Nat
      BY IngestAssumption, Zenon
    <2> QED  BY <2>1, <2>2, Zenon
  <1> QED  BY <1>1, <1>2

LEMMA AbortAside ==
    ASSUME \A u \in Task :
              promise'[u] = IF promise[u] = "pending" THEN "aborted" ELSE promise[u]
    PROVE  \A h \in Scheduled : Aside(h)
  BY ChunksTyped, IngestAssumption DEF Aside

LEMMA SchedulerStepKeeps == ASSUME IngestInv, SchedulerStep PROVE IngestInv'
  <1>1. Proved!IndInv
    BY DEF IngestInv
  <1>2. Proved!IndInv'
    BY <1>1, SchedulerKept, Zenon DEF SchedulerStep
  <1>3. \A h \in Scheduled : Aside(h)
    <2>1. ASSUME Scheduler!RunSlice \/ Scheduler!StepAborted \/ Scheduler!StepYields
          PROVE  \A h \in Scheduled : Aside(h)
      BY <1>1, <2>1, PromisesMove DEF Aside
    <2>2. ASSUME NEW t \in Other, Running(t), Scheduler!StepCompletes \/ Scheduler!StepThrows
          PROVE  \A h \in Scheduled : Aside(h)
      <3>1. Head(queue) = t
        BY <2>2 DEF Running
      <3>2. \A u \in Task : u # t => promise'[u] = promise[u]
        BY <1>1, <2>2, <3>1, PromisesMove, Zenon
      <3> QED  BY <1>1, <3>2, HostAside
    <2> QED  BY <2>1, <2>2, Zenon DEF SchedulerStep
  <1>4. call' = call /\ UNCHANGED <<store, inserted, late, mutated>> /\ signal \subseteq signal'
    BY DEF SchedulerStep, ingestVars
  <1> QED  BY <1>2, <1>3, <1>4, NobodyMoves

LEMMA UseSchedulerKeeps == ASSUME IngestInv, UseScheduler PROVE IngestInv'
  <1>1. Proved!IndInv /\ Other \subseteq Task
    BY DEF IngestInv, Task
  <1>2. Proved!IndInv'
    BY <1>1, SchedulerKept, Zenon DEF UseScheduler
  <1>3. \A h \in Scheduled : Aside(h)
    <2>1. CASE Scheduler!Abort
      BY <1>1, <2>1, PromisesMove, AbortAside
    <2>2. ASSUME NEW t \in Other, Scheduler!Schedule(t)
          PROVE  \A h \in Scheduled : Aside(h)
      <3>1. \A u \in Task : u # t => promise'[u] = promise[u]
        BY <1>1, <2>2, PromisesMove, Zenon
      <3> QED  BY <1>1, <3>1, HostAside
    <2> QED  BY <2>1, <2>2, Zenon DEF UseScheduler
  <1>4. call' = call /\ UNCHANGED <<store, inserted, late, mutated>> /\ signal \subseteq signal'
    BY DEF UseScheduler, ingestVars
  <1> QED  BY <1>2, <1>3, <1>4, NobodyMoves

LEMMA MutateKeeps == ASSUME IngestInv, Mutate PROVE IngestInv'
  <1>1. UNCHANGED <<schedulerVars, call, signal, inserted, late>> /\ mutated'
    BY DEF Mutate
  <1>2. IsFiniteSet(store')
    <2>1. PICK i \in Id : store' \in {store \cup {i}, store \ {i}} \ {store}
      BY DEF Mutate
    <2>2. IsFiniteSet(store)
      BY DEF IngestInv
    <2> QED  BY <2>1, <2>2, FS_AddElement, FS_RemoveElement
  <1>3. Proved!IndInv' /\ \A h \in Scheduled : Aside(h)
    BY <1>1, StandStill
  <1>4. ASSUME NEW h \in Ingest PROVE CallInv(h)'
    <2>1. CallInv(h) /\ call'[h] = call[h] /\ call[h] \in CallRecords
          /\ (h \in Scheduled => Aside(h))
      BY <1>1, <1>3 DEF IngestInv
    <2> QED  BY <1>1, <2>1, OthersKeep
  <1> QED  BY <1>1, <1>2, <1>3, <1>4 DEF IngestInv, WholeChunks

-----------------------------------------------------------------------------
LEMMA IngestStarts == Init => IngestInv
  <1> SUFFICES ASSUME Init PROVE IngestInv
    OBVIOUS
  <1>1. Proved!IndInv
    <2>1. Proved!Init
      BY DEF Init, Scheduler!Init, Proved!Init
    <2> QED  BY <2>1, Proved!InitEstablishes, IngestAssumption, Zenon
  <1>2. IsFiniteSet(store) /\ store = {}
    BY FS_EmptySet DEF Init
  <1>3. /\ call = [g \in Ingest |-> [pc |-> "pull", next |-> 1, gain |-> 0,
                                     added |-> 0, skipped |-> 0]]
        /\ inserted = [g \in Ingest |-> 0] /\ late = [g \in Ingest |-> 0]
    BY DEF Init
  <1>4. /\ call \in [Ingest -> CallRecords]
        /\ inserted \in [Ingest -> Nat] /\ late \in [Ingest -> Nat]
    BY <1>3 DEF CallRecords
  <1>5. \A g \in Ingest : call[g].next - 1 = 0 /\ Places(g, 0) = {} /\ Ids(g, 0) = {}
    BY <1>3 DEF Places, Ids
  <1>6. ASSUME NEW g \in Ingest PROVE CallInv(g)
    <2>1. /\ call[g].pc = "pull" /\ call[g].next = 1 /\ late[g] = 0 /\ inserted[g] = 0
          /\ call[g].added = 0 /\ call[g].skipped = 0
      BY <1>3
    <2>2. \A n \in DOMAIN Chunks[g] : g \in Scheduled => promise[<<g, n>>] = "new"
      <3>1. promise = [t \in Task |-> "new"]
        BY DEF Init, Scheduler!Init
      <3> QED  BY <3>1, ChunksTyped
    <2>3. Queued(g)
      BY <2>1, <2>2, ChunksTyped DEF Queued
    <2>4. Stops(g)
      BY <2>1 DEF Stops
    <2>5. Counts(g)
      <3>1. IsFiniteSet(Places(g, call[g].next - 1)) /\ Total(g) = 0
        BY <1>5, FS_EmptySet DEF Total
      <3>2. ~InStore(g)
        BY <2>1 DEF InStore
      <3> QED  BY <2>1, <3>1, <3>2 DEF Counts
    <2> QED  BY <2>3, <2>4, <2>5 DEF CallInv
  <1>7. WholeChunks
    <2>1. Held({}) = {}
      BY <1>5 DEF Held
    <2>2. \A g \in Ingest : ~InStore(g)
      BY <1>3 DEF InStore
    <2> QED  BY <1>2, <2>1, <2>2 DEF WholeChunks
  <1> QED  BY <1>1, <1>2, <1>4, <1>6, <1>7 DEF IngestInv

LEMMA IngestKeeps == IngestInv /\ [Next]_vars => IngestInv'
  <1> SUFFICES ASSUME IngestInv, [Next]_vars PROVE IngestInv'
    OBVIOUS
  <1>1. ASSUME NEW g \in Ingest, Advance(g) PROVE IngestInv'
    BY <1>1, FinishKeeps, StopKeeps, ScheduleChunkKeeps, ApplyDirectlyKeeps, ResumeKeeps,
       WakeKeeps DEF Advance
  <1>2. ASSUME NEW g \in Ingest, RunChunk(g) \/ FireSignal(g) PROVE IngestInv'
    BY <1>2, RunChunkKeeps, FireSignalKeeps
  <1>3. ASSUME UNCHANGED vars PROVE IngestInv'
    <2>1. UNCHANGED schedulerVars /\ UNCHANGED ingestVars
      BY <1>3 DEF vars
    <2>2. call' = call /\ UNCHANGED <<store, inserted, late, mutated>> /\ signal \subseteq signal'
      BY <2>1 DEF ingestVars
    <2> QED  BY <2>1, <2>2, StandStill, NobodyMoves
  <1> QED
    BY <1>1, <1>2, <1>3, SchedulerStepKeeps, UseSchedulerKeeps, MutateKeeps, Zenon DEF Next

\* What NoLateChunk says of one step.
SettledRests ==
    \A g \in Ingest : call[g].pc \in Settled =>
       /\ inserted'[g] = inserted[g]
       /\ late'[g] = late[g]
       /\ call'[g] = call[g]

LEMMA SettledCallsRest == IngestInv /\ [Next]_vars => SettledRests
  <1> SUFFICES ASSUME IngestInv, [Next]_vars, NEW h \in Ingest, call[h].pc \in Settled
               PROVE  /\ inserted'[h] = inserted[h]
                      /\ late'[h] = late[h]
                      /\ call'[h] = call[h]
    BY DEF SettledRests
  <1>1. /\ call \in [Ingest -> CallRecords] /\ inserted \in [Ingest -> Nat]
        /\ late \in [Ingest -> Nat]
        /\ call[h].pc \notin {"pull", "queued", "asleep"}
    BY DEF IngestInv, Settled
  <1>2. ASSUME NEW g \in Ingest, ApplyChunk(g, "queued") \/ ApplyChunk(g, "asleep"), g # h
        PROVE  inserted'[h] = inserted[h] /\ late'[h] = late[h] /\ call'[h] = call[h]
    BY <1>1, <1>2 DEF ApplyChunk
  <1>3. ASSUME NEW g \in Ingest, Advance(g)
        PROVE  inserted'[h] = inserted[h] /\ late'[h] = late[h] /\ call'[h] = call[h]
    <2>1. call[g].pc \in {"pull", "queued", "asleep"}
      BY <1>3 DEF Advance, Finish, Stop, ScheduleChunk, ApplyDirectly, Resume, Wake
    <2>2. g # h
      BY <1>1, <2>1
    <2>3. CASE ApplyDirectly(g)
      BY <1>2, <2>2, <2>3 DEF ApplyDirectly
    <2>4. CASE ~ApplyDirectly(g)
      <3>1. UNCHANGED <<inserted, late>>
        BY <1>3, <2>4 DEF Advance, Finish, Stop, ScheduleChunk, Resume, Wake
      <3>2. \E record : call' = [call EXCEPT ![g] = record]
        BY <1>3, <2>4, Zenon
           DEF Advance, Finish, Stop, ScheduleChunk, Resume, Wake, Goto, CountChunk
      <3> QED  BY <1>1, <2>2, <3>1, <3>2
    <2> QED  BY <2>3, <2>4
  <1>4. ASSUME NEW g \in Ingest, RunChunk(g)
        PROVE  inserted'[h] = inserted[h] /\ late'[h] = late[h] /\ call'[h] = call[h]
    <2>1. call[g].pc = "queued"
      BY <1>4, RunsWaiting
    <2>2. g # h
      BY <1>1, <2>1
    <2> QED  BY <1>2, <1>4, <2>2 DEF RunChunk
  <1>5. ASSUME NEW g \in Ingest, FireSignal(g)
        PROVE  inserted'[h] = inserted[h] /\ late'[h] = late[h] /\ call'[h] = call[h]
    BY <1>5 DEF FireSignal
  <1>6. ASSUME SchedulerStep \/ UseScheduler \/ Mutate \/ UNCHANGED vars
        PROVE  inserted'[h] = inserted[h] /\ late'[h] = late[h] /\ call'[h] = call[h]
    BY <1>6 DEF SchedulerStep, UseScheduler, Mutate, vars, ingestVars
  <1> QED  BY <1>3, <1>4, <1>5, <1>6, Zenon DEF Next

LEMMA IngestInvHonest ==
    ASSUME IngestInv, ~Reentrant
    PROVE  CountsHonest /\ EveryChunkApplied
  <1>1. CountsHonest
    BY DEF IngestInv, CallInv, Counts, CountsHonest, NotInStore
  <1>2. \A g \in Ingest : call[g].pc = "returned" => call[g].next > Len(Chunks[g])
    BY DEF IngestInv, CallInv, Queued
  <1>3. ASSUME ~mutated
        PROVE  \E applied \in
                    SUBSET {g \in Ingest : call[g].pc \in {"queued", "asleep", "rejected"}} :
                 store = Held(applied)
    <2>1. PICK applied \in SUBSET Ingest :
            /\ \A g \in Ingest : NotInStore(g) => g \notin applied
            /\ store = Held(applied)
      BY <1>3 DEF IngestInv, WholeChunks
    <2>2. \A g \in applied : call[g].pc \in {"queued", "asleep", "rejected"}
      BY <2>1 DEF IngestInv, CallRecords, Settled, NotInStore
    <2> QED  BY <2>1, <2>2
  <1> QED  BY <1>1, <1>2, <1>3 DEF EveryChunkApplied

LEMMA IngestInvStops == IngestInv => AbortStops
  <1> SUFFICES ASSUME IngestInv, NEW g \in Ingest
               PROVE  /\ late[g] <= IF g \in Scheduled THEN 1 ELSE 0
                      /\ call[g].pc = "stopped" => g \in signal /\ call[g].next <= Len(Chunks[g])
    BY DEF AbortStops
  <1>1. CallInv(g) /\ late[g] \in Nat
    BY DEF IngestInv
  <1> QED  BY <1>1 DEF CallInv, Queued, Stops

\* An abort stops an ingest before its next chunk, and a call that has settled
\* touches the store no more, whoever aborts the scheduler or mutates the store
\* at whatever moment, a listener from inside the chunk included.
THEOREM AbortsStop == Spec => []AbortStops /\ NoLateChunk
  <1>1. Spec => []IngestInv
    BY IngestStarts, IngestKeeps, PTL DEF Spec
  <1>2. SettledRests => [SettledRests]_vars
    OBVIOUS
  <1>3. IngestInv /\ [Next]_vars => [SettledRests]_vars
    BY <1>2, SettledCallsRest
  <1>4. Spec => [][SettledRests]_vars
    BY <1>1, <1>3, PTL DEF Spec
  <1>5. Spec => NoLateChunk
    BY <1>4 DEF NoLateChunk, SettledRests
  <1> QED  BY <1>1, <1>5, IngestInvStops, PTL

\* Unless a mutation listener itself mutates the store, a call's numbers and
\* what it leaves in the store are honest as well, for all calls, chunks, tasks
\* and queue capacities.
THEOREM CallsAreHonest ==
    ASSUME ~Reentrant
    PROVE  Spec => CallsHonest
  <1>1. Spec => []IngestInv
    BY IngestStarts, IngestKeeps, PTL DEF Spec
  <1>2. IngestInv => CountsHonest /\ EveryChunkApplied
    BY IngestInvHonest
  <1> QED  BY <1>1, <1>2, AbortsStop, IngestInvStops, PTL DEF CallsHonest
-----------------------------------------------------------------------------
(* The worktrees.  Listing and planning are loops, and so is the frame of     *)
(* the stream below: each exists on every prefix, by counting.               *)

LEMMA LeastNat ==
    ASSUME NEW T \in SUBSET Nat, T # {}
    PROVE  \E n \in T : \A m \in T : n <= m
  <1>1. IsWellFoundedOn(OpToRel(<, Nat), Nat)
    BY NatLessThanWellFounded
  <1>2. PICK n \in T : \A m \in T : ~(<<m, n>> \in OpToRel(<, Nat))
    BY <1>1, WFMin
  <1>3. ASSUME NEW m \in T, ~(n <= m) PROVE FALSE
    <2>1. m \in Nat /\ n \in Nat /\ m < n
      BY <1>3
    <2> QED  BY <1>2, <1>3, <2>1 DEF OpToRel
  <1> QED  BY <1>3

LEMMA Counting ==
    ASSUME NEW L \in Nat, NEW T, 0 \in T, \A n \in 1 .. L : n - 1 \in T => n \in T
    PROVE  \A n \in 0 .. L : n \in T
  <1> SUFFICES ASSUME NEW m \in 0 .. L, m \notin T PROVE FALSE
    OBVIOUS
  <1> DEFINE U == {n \in Nat : n <= L /\ n \notin T}
  <1>1. m \in U
    OBVIOUS
  <1>2. PICK n \in U : \A k \in U : n <= k
    BY <1>1, LeastNat
  <1>3. n \in 1 .. L /\ n - 1 \in Nat /\ n - 1 <= L /\ ~(n <= n - 1)
    <2>1. n # 0 /\ n \in Nat /\ n <= L
      BY <1>2
    <2> QED  BY <2>1
  <1>4. n - 1 \in T
    BY <1>2, <1>3
  <1> QED  BY <1>2, <1>3, <1>4

\* What a loop begins with, and one turn of it: the listing of some directories,
\* the planning of claims, the callbacks of a frame.
Begun(loop) == IF loop.kind = "frame" THEN loop.begun ELSE <<>>

Grown(loop, acc, i) ==
    CASE loop.kind = "list" -> IF Paths[i] \in loop.linked THEN Append(acc, Paths[i]) ELSE acc
      [] loop.kind = "plan" -> PlanOne(loop.claims, acc, i)
      [] loop.kind = "frame" -> Ran(acc, loop.callbacks[i], loop.settled)

Listing(linked) == [kind |-> "list", linked |-> linked]
Planning(claims) == [kind |-> "plan", claims |-> claims]
Framing(begun, callbacks, settled) ==
    [kind |-> "frame", begun |-> begun, callbacks |-> callbacks, settled |-> settled]

IsRun(loop, n, g) ==
    g = [i \in 0 .. n |-> IF i = 0 THEN Begun(loop) ELSE Grown(loop, g[i - 1], i)]

LEMMA RunExists ==
    ASSUME NEW loop, NEW L \in Nat
    PROVE  \E g : IsRun(loop, L, g)
  <1> DEFINE T == {n \in 0 .. L : \E g : IsRun(loop, n, g)}
  <1>1. 0 \in T
    <2>1. IsRun(loop, 0, [i \in 0 .. 0 |-> Begun(loop)])
      BY DEF IsRun
    <2> QED  BY <2>1
  <1>2. ASSUME NEW n \in 1 .. L, n - 1 \in T PROVE n \in T
    <2>1. PICK g : IsRun(loop, n - 1, g)
      BY <1>2
    <2> DEFINE h == [i \in 0 .. n |-> IF i = n THEN Grown(loop, g[n - 1], n) ELSE g[i]]
               w == [i \in 0 .. n |-> IF i = 0 THEN Begun(loop) ELSE Grown(loop, h[i - 1], i)]
    <2>2. \A i \in 0 .. n - 1 : i \in 0 .. n /\ h[i] = g[i]
      OBVIOUS
    <2>3. n \in 0 .. n /\ h[n] = Grown(loop, g[n - 1], n) /\ n # 0 /\ n - 1 \in 0 .. n - 1
      OBVIOUS
    <2>4. \A i \in 0 .. n - 1 : g[i] = IF i = 0 THEN Begun(loop) ELSE Grown(loop, g[i - 1], i)
      BY <2>1 DEF IsRun
    <2>5. h = [i \in 0 .. n |-> h[i]]
      OBVIOUS
    <2> HIDE DEF h
    <2>6. ASSUME NEW i \in 0 .. n PROVE h[i] = w[i]
      <3>1. CASE i = n
        BY <2>2, <2>3, <3>1
      <3>2. CASE i # n
        <4>1. i \in 0 .. n - 1 /\ (i # 0 => i - 1 \in 0 .. n - 1)
          BY <3>2
        <4> QED  BY <2>2, <2>4, <4>1
      <3> QED  BY <3>1, <3>2
    <2>7. IsRun(loop, n, h)
      BY <2>5, <2>6 DEF IsRun
    <2> QED  BY <2>7
  <1> HIDE DEF T
  <1>3. L \in T
    BY <1>1, <1>2, Counting
  <1> QED  BY <1>3 DEF T

\* A loop as a recursive function, and what its turns come to.
RunOf(loop, L) == LET g[i \in 0 .. L] == IF i = 0 THEN Begun(loop) ELSE Grown(loop, g[i - 1], i)
                  IN g

LEMMA RunIs ==
    ASSUME NEW loop, NEW L \in Nat
    PROVE  /\ RunOf(loop, L)[0] = Begun(loop)
           /\ \A n \in 1 .. L : RunOf(loop, L)[n] = Grown(loop, RunOf(loop, L)[n - 1], n)
  <1> DEFINE g == CHOOSE g : IsRun(loop, L, g)
  <1>1. IsRun(loop, L, g)
    BY RunExists, Zenon
  <1>2. RunOf(loop, L) = g
    BY DEF RunOf, IsRun
  <1> HIDE DEF g
  <1> QED  BY <1>1, <1>2 DEF IsRun

LEMMA ListIsRun ==
    ASSUME NEW linked
    PROVE  ListedOf(linked) = RunOf(Listing(linked), Len(Paths))[Len(Paths)]
  BY DEF ListedOf, RunOf, Begun, Grown, Listing

LEMMA PlanIsRun ==
    ASSUME NEW claims
    PROVE  PlanSyncOffsets(claims) = RunOf(Planning(claims), Len(claims))[Len(claims)]
  BY DEF PlanSyncOffsets, RunOf, Begun, Grown, Planning

LEMMA PathsAre == /\ Len(Paths) \in Nat /\ DOMAIN Paths = 1 .. Len(Paths)
                  /\ \A n \in 1 .. Len(Paths) : Paths[n] \in Range(Paths)
                  /\ \A m, n \in 1 .. Len(Paths) : Paths[m] = Paths[n] => m = n
  <1>1. Len(Paths) \in Nat /\ DOMAIN Paths = 1 .. Len(Paths)
    BY WorktreesAssumption
  <1>2. \A n \in DOMAIN Paths : Paths[n] \in Range(Paths)
    BY Zenon DEF Range
  <1>3. \A m, n \in DOMAIN Paths : Paths[m] = Paths[n] => m = n
    BY WorktreesAssumption DEF IsInjective
  <1> QED  BY <1>1, <1>2, <1>3

\* The listing holds the worktrees there are, each once.
LEMMA ListedIs ==
    ASSUME NEW D, D \subseteq Range(Paths)
    PROVE  LET list == ListedOf(D)
           IN  /\ list \in Seq(Range(Paths)) /\ Len(list) \in Nat
               /\ \A i \in 1 .. Len(list) : list[i] \in D
               /\ \A path \in D : \E i \in 1 .. Len(list) : list[i] = path
               /\ \A i, j \in 1 .. Len(list) : list[i] = list[j] => i = j
  <1> DEFINE L == Len(Paths)
             R == Range(Paths)
             run == RunOf(Listing(D), L)
             Good(n, list) ==
               /\ list \in Seq(R)
               /\ \A i \in 1 .. Len(list) : list[i] \in D /\ \E k \in 1 .. n : list[i] = Paths[k]
               /\ \A k \in 1 .. n : Paths[k] \in D => \E i \in 1 .. Len(list) : list[i] = Paths[k]
               /\ \A i, j \in 1 .. Len(list) : list[i] = list[j] => i = j
             T == {n \in 0 .. L : Good(n, run[n])}
  <1>1. L \in Nat /\ \A n \in 1 .. L : Paths[n] \in R
    BY PathsAre
  <1>2. \A m, n \in 1 .. L : Paths[m] = Paths[n] => m = n
    BY PathsAre
  <1>3. run[0] = <<>> /\ \A n \in 1 .. L :
                           run[n] = IF Paths[n] \in D THEN Append(run[n - 1], Paths[n])
                                    ELSE run[n - 1]
    BY <1>1, RunIs DEF Begun, Grown, Listing
  <1>4. \A path \in D : \E n \in 1 .. L : path = Paths[n]
    BY PathsAre DEF Range
  <1>5. ListedOf(D) = run[L]
    BY ListIsRun
  <1> HIDE DEF run, L, R
  <1>6. 0 \in T
    <2>1. Good(0, <<>>) /\ 0 \in 0 .. L
      BY <1>1
    <2> HIDE DEF Good
    <2> QED  BY <1>3, <2>1
  <1>7. ASSUME NEW n \in 1 .. L, n - 1 \in T PROVE n \in T
    <2> DEFINE list == run[n - 1]
               longer == Append(list, Paths[n])
               N == Len(list)
    <2>1. Good(n - 1, list) /\ n \in 0 .. L
      <3> HIDE DEF Good
      <3> QED  BY <1>1, <1>7
    <2>2. \A k \in 1 .. n : k \in 1 .. n - 1 \/ k = n
      BY <1>1
    <2>3. \A k \in 1 .. n - 1 : k \in 1 .. n /\ k \in 1 .. L /\ k # n
      BY <1>1
    <2>4. CASE Paths[n] \notin D
      <3>1. run[n] = list
        BY <1>3, <2>4
      <3> HIDE DEF list
      <3>2. Good(n, list)
        BY <2>1, <2>2, <2>3, <2>4
      <3> QED  BY <2>1, <3>1, <3>2
    <2>5. CASE Paths[n] \in D
      <3>1. run[n] = longer
        BY <1>3, <2>5
      <3> HIDE DEF list
      <3>2. /\ longer \in Seq(R) /\ Len(longer) = N + 1 /\ N \in Nat
            /\ longer[N + 1] = Paths[n] /\ \A i \in 1 .. N : longer[i] = list[i]
        BY <1>1, <2>1
      <3>3. \A i \in 1 .. N : list[i] # Paths[n]
        BY <1>2, <2>1, <2>3
      <3>4. \A i \in 1 .. N + 1 : i \in 1 .. N \/ i = N + 1
        BY <3>2
      <3>5. \A i \in 1 .. N : i \in 1 .. N + 1
        BY <3>2
      <3>6. N + 1 \in 1 .. N + 1
        BY <3>2
      <3> HIDE DEF longer, N
      <3>7. \A i \in 1 .. N + 1 : longer[i] \in D /\ \E k \in 1 .. n : longer[i] = Paths[k]
        BY <2>1, <2>3, <2>5, <3>2, <3>4 DEF N
      <3>8. \A k \in 1 .. n : Paths[k] \in D => \E i \in 1 .. N + 1 : longer[i] = Paths[k]
        <4> TAKE k \in 1 .. n
        <4>1. CASE k \in 1 .. n - 1
          <5>1. Paths[k] \in D => \E i \in 1 .. N : list[i] = Paths[k]
            BY <2>1, <4>1 DEF N
          <5> QED  BY <3>2, <3>5, <5>1
        <4>2. CASE k = n
          BY <3>2, <3>6, <4>2
        <4> QED  BY <2>2, <4>1, <4>2
      <3>9. \A i, j \in 1 .. N + 1 : longer[i] = longer[j] => i = j
        BY <2>1, <3>2, <3>3, <3>4 DEF N
      <3>10. Good(n, longer)
        BY <3>2, <3>7, <3>8, <3>9
      <3> QED  BY <2>1, <3>1, <3>10
    <2> QED  BY <2>4, <2>5
  <1> HIDE DEF T
  <1>8. L \in T
    BY <1>1, <1>6, <1>7, Counting
  <1>9. Good(L, run[L])
    BY <1>8 DEF T
  <1> HIDE DEF Good
  <1>10. LET list == run[L]
         IN  /\ list \in Seq(R) /\ Len(list) \in Nat
             /\ \A i \in 1 .. Len(list) : list[i] \in D
             /\ \A path \in D : \E i \in 1 .. Len(list) : list[i] = path
             /\ \A i, j \in 1 .. Len(list) : list[i] = list[j] => i = j
    BY <1>4, <1>9 DEF Good
  <1> QED  BY <1>5, <1>10 DEF R

Claimable == Offsets \cup {NoClaim}

LEMMA OffsetsAre ==
    /\ \A offset \in Offsets : offset \in Nat /\ offset > 0 /\ offset # NoClaim
    /\ \A one, other \in Offsets \cup {0} :
         one # other => PortsForOffset(one) \cap PortsForOffset(other) = {}
  <1>1. MaxSlot \in Nat /\ NoClaim \notin Int
    BY WorktreesAssumption
  <1>2. \A offset \in Offsets : \E slot \in 1 .. MaxSlot : offset = slot * 1000
    BY DEF Offsets, OffsetStep
  <1>3. \A offset \in Offsets : offset \in Nat /\ offset > 0 /\ offset # NoClaim
    BY <1>1, <1>2
  <1>4. ASSUME NEW one \in Offsets \cup {0}, NEW other \in Offsets \cup {0}, one # other
        PROVE  PortsForOffset(one) \cap PortsForOffset(other) = {}
    <2>1. PICK m \in Nat : one = m * 1000
      BY <1>1, <1>2
    <2>2. PICK n \in Nat : other = n * 1000
      BY <1>1, <1>2
    <2>3. \A base, second \in PortBases : base + m * 1000 # second + n * 1000
      BY <1>4, <2>1, <2>2 DEF PortBases
    <2> QED  BY <2>1, <2>2, <2>3 DEF PortsForOffset
  <1> QED  BY <1>3, <1>4

\* What is given out is free.
LEMMA AllocatedIs ==
    ASSUME NEW claimed, AllocateOffset(claimed) # NoClaim
    PROVE  AllocateOffset(claimed) \in Offsets \ claimed
  <1> DEFINE free == FreeOffsets(claimed)
  <1>1. free # {} /\ AllocateOffset(claimed) = Lowest(free)
    BY DEF AllocateOffset
  <1>2. free \subseteq Offsets \ claimed
    BY DEF FreeOffsets
  <1>3. free \in SUBSET Nat
    <2>1. Offsets \subseteq Nat
      BY OffsetsAre
    <2> QED  BY <1>2, <2>1
  <1> HIDE DEF free
  <1>4. \E offset \in free : \A other \in free : offset <= other
    BY <1>1, <1>3, LeastNat
  <1>5. Lowest(free) \in free
    BY <1>4, Zenon DEF Lowest
  <1> QED  BY <1>1, <1>2, <1>5

\* A plan that gives everyone an offset gives each one of its own, and leaves
\* everyone but the later of two that clash what they had.
LEMMA PlanIs ==
    ASSUME NEW claims \in Seq(Claimable), NoClaim \notin Range(PlanSyncOffsets(claims))
    PROVE  LET plan == PlanSyncOffsets(claims)
           IN  /\ plan \in Seq(Offsets) /\ Len(plan) = Len(claims)
               /\ \A i, j \in 1 .. Len(claims) : plan[i] = plan[j] => i = j
               /\ \A i \in 1 .. Len(claims) :
                    claims[i] # NoClaim /\ (\A j \in 1 .. i - 1 : claims[j] # claims[i])
                      => plan[i] = claims[i]
  <1> DEFINE L == Len(claims)
             kept == Holders(claims)
             seen == {claims[j] : j \in kept}
             run == RunOf(Planning(claims), L)
             Good(n, plan) ==
               /\ plan \in Seq(Claimable) /\ Len(plan) = n
               /\ \A i \in 1 .. n : i \in kept => plan[i] = claims[i]
               /\ \A i \in 1 .. n : i \notin kept /\ plan[i] # NoClaim =>
                    /\ plan[i] \in Offsets \ seen
                    /\ \A j \in 1 .. i - 1 : plan[j] # plan[i]
             T == {n \in 0 .. L : Good(n, run[n])}
  <1>1. L \in Nat /\ DOMAIN claims = 1 .. L /\ \A n \in 1 .. L : claims[n] \in Claimable
    OBVIOUS
  <1>2. run[0] = <<>> /\ \A n \in 1 .. L : run[n] = PlanOne(claims, run[n - 1], n)
    BY <1>1, RunIs DEF Begun, Grown, Planning
  <1>3. PlanSyncOffsets(claims) = run[L]
    BY PlanIsRun
  <1>4. \A i \in 1 .. L :
          i \in kept <=> claims[i] # NoClaim /\ \A j \in 1 .. i - 1 : claims[j] # claims[i]
    <2>1. \A i \in 1 .. L : claims[i] # NoClaim => claims[i] > 0
      BY <1>1, OffsetsAre DEF Claimable
    <2> HIDE DEF L
    <2> QED  BY <1>1, <2>1 DEF Holders
  <1>5. \A i \in 1 .. L : i \in kept => claims[i] \in seen
    BY DEF seen
  <1> HIDE DEF run, L, seen, kept
  <1>6. 0 \in T
    <2>1. Good(0, <<>>) /\ 0 \in 0 .. L
      BY <1>1
    <2> HIDE DEF Good
    <2> QED  BY <1>2, <2>1
  <1>7. ASSUME NEW n \in 1 .. L, n - 1 \in T PROVE n \in T
    <2> DEFINE plan == run[n - 1]
               x == IF n \in kept THEN claims[n] ELSE AllocateOffset(seen \cup Range(plan))
               longer == Append(plan, x)
    <2>1. Good(n - 1, plan) /\ n \in 0 .. L /\ n - 1 \in Nat /\ n \in Nat
      BY <1>1, <1>7
    <2>2. run[n] = longer
      BY <1>2 DEF PlanOne, seen, kept
    <2> HIDE DEF plan
    <2>3. DOMAIN plan = 1 .. n - 1
      BY <2>1
    <2>4. \A j \in 1 .. n - 1 : plan[j] \in Range(plan)
      BY <2>3, Zenon DEF Range
    <2>5. n \notin kept /\ x # NoClaim =>
            x \in Offsets \ seen /\ \A j \in 1 .. n - 1 : plan[j] # x
      <3> DEFINE claimed == seen \cup Range(plan)
      <3>1. n \notin kept => x = AllocateOffset(claimed)
        OBVIOUS
      <3>2. seen \subseteq claimed /\ \A j \in 1 .. n - 1 : plan[j] \in claimed
        BY <2>4
      <3> HIDE DEF x, claimed
      <3>3. SUFFICES ASSUME n \notin kept, x # NoClaim
                     PROVE  x \in Offsets \ seen /\ \A j \in 1 .. n - 1 : plan[j] # x
        OBVIOUS
      <3>4. x \in Offsets \ claimed
        BY <3>1, <3>3, AllocatedIs
      <3> QED  BY <3>2, <3>4
    <2>6. x \in Claimable
      BY <1>1, <2>5 DEF Claimable
    <2>7. n \in kept => x = claims[n]
      OBVIOUS
    <2> HIDE DEF x
    <2>8. /\ longer \in Seq(Claimable) /\ Len(longer) = n
          /\ longer[n] = x /\ \A i \in 1 .. n - 1 : longer[i] = plan[i]
      BY <2>1, <2>6
    <2>9. \A i \in 1 .. n : i \in 1 .. n - 1 \/ i = n
      BY <2>1
    <2>10. \A i \in 1 .. n - 1 : \A j \in 1 .. i - 1 : j \in 1 .. n - 1
      BY <2>1
    <2> HIDE DEF longer
    <2>11. \A i \in 1 .. n : i \in kept => longer[i] = claims[i]
      BY <2>1, <2>7, <2>8, <2>9
    <2>12. ASSUME NEW i \in 1 .. n, i \notin kept, longer[i] # NoClaim
           PROVE  /\ longer[i] \in Offsets \ seen
                  /\ \A j \in 1 .. i - 1 : longer[j] # longer[i]
      <3>1. CASE i = n
        BY <2>5, <2>8, <2>12, <3>1
      <3>2. CASE i \in 1 .. n - 1
        BY <2>1, <2>8, <2>10, <2>12, <3>2
      <3> QED  BY <2>9, <3>1, <3>2
    <2>13. Good(n, longer)
      BY <2>8, <2>11, <2>12
    <2> QED  BY <2>1, <2>2, <2>13
  <1> HIDE DEF T
  <1>8. L \in T
    BY <1>1, <1>6, <1>7, Counting
  <1> DEFINE plan == run[L]
  <1>9. Good(L, plan)
    BY <1>8 DEF T
  <1>10. \A i \in 1 .. L : plan[i] # NoClaim
    <2>1. DOMAIN plan = 1 .. L
      BY <1>1, <1>9
    <2>2. NoClaim \notin Range(plan)
      BY <1>3
    <2> HIDE DEF plan
    <2> QED  BY <2>1, <2>2 DEF Range
  <1> HIDE DEF plan
  <1>11. plan \in Seq(Offsets)
    <2>1. \A i \in 1 .. L : plan[i] \in Offsets
      BY <1>9, <1>10 DEF Claimable
    <2>2. plan = [i \in 1 .. L |-> plan[i]]
      BY <1>1, <1>9
    <2> QED  BY <1>1, <2>1, <2>2
  <1>12. ASSUME NEW i \in 1 .. L, NEW j \in 1 .. L, i < j PROVE plan[i] # plan[j]
    <2>1. i \in 1 .. j - 1
      BY <1>1, <1>12
    <2>2. CASE j \notin kept
      BY <1>9, <1>10, <2>1, <2>2
    <2>3. CASE j \in kept /\ i \in kept
      BY <1>4, <1>9, <2>1, <2>3
    <2>4. CASE j \in kept /\ i \notin kept
      BY <1>5, <1>9, <1>10, <2>4
    <2> QED  BY <2>2, <2>3, <2>4
  <1>13. \A i, j \in 1 .. L : plan[i] = plan[j] => i = j
    <2>1. \A i, j \in 1 .. L : i < j \/ j < i \/ i = j
      BY <1>1
    <2> QED  BY <1>12, <2>1
  <1>14. PlanSyncOffsets(claims) = plan
    BY <1>3 DEF plan
  <1>15. Len(plan) = L /\ \A i \in 1 .. L : i \in kept => plan[i] = claims[i]
    BY <1>9
  <1> HIDE DEF Good
  <1> QED  BY <1>4, <1>11, <1>13, <1>14, <1>15 DEF L

(* The repository and its commands *)

Worktree == [branch : Branches, offset : Claimable, name : Range(Paths) \cup {NoClaim}]

RepoTyped(w) ==
    /\ w = [linked |-> w.linked, branches |-> w.branches, servers |-> w.servers,
            raced |-> w.raced]
    /\ DOMAIN w.linked \subseteq Range(Paths)
    /\ w.linked \in [DOMAIN w.linked -> Worktree]
    /\ w.branches \subseteq Branches
    /\ w.servers \subseteq [path : Range(Paths), offset : Offsets \cup {0}]
    /\ w.raced \in BOOLEAN

CreateCommands ==
    [step : {"add", "claim", "install"}, branch : Branches, path : Range(Paths),
     claimed : SUBSET Offsets, alone : BOOLEAN]

RemoveCommands ==
    [step : {"kill", "remove", "branch"}, path : Range(Paths), branch : Branches,
     offset : Claimable, keepBranch : BOOLEAN, alone : BOOLEAN]

SyncCommands ==
    {s \in [step : {"write", "synced"}, listed : Seq(Range(Paths)), plan : Seq(Offsets),
            names : Seq(Range(Paths)), found : Seq(Claimable), alone : BOOLEAN] :
       Len(s.plan) = Len(s.listed) /\ Len(s.names) = Len(s.listed)}

Commands == CreateCommands \cup RemoveCommands \cup SyncCommands

\* No two worktrees claim one offset.
Sticky(w) ==
    \A path, other \in DOMAIN w.linked :
        w.linked[path].offset = w.linked[other].offset /\ w.linked[path].offset # NoClaim
          => path = other

\* What a command relies on, as long as no two overlap: a create, that whatever
\* is claimed was claimed when it looked; a remove, that the offset it takes the
\* servers down of is of its own worktree; a sync, that what it is still to write is
\* claimed by nobody but the one it is for.
Reliable(w, s) ==
    /\ s.step \in {"add", "claim"} => Claims(w) \subseteq s.claimed
    /\ s.step = "kill" /\ s.offset # NoClaim =>
         \A other \in DOMAIN w.linked :
             w.linked[other].offset = s.offset => other = s.path
    /\ s.step = "write" =>
         /\ \A i, j \in DOMAIN s.plan : s.plan[i] = s.plan[j] => i = j
         /\ \A path \in DOMAIN w.linked, j \in DOMAIN s.plan :
              w.linked[path].offset = s.plan[j] => s.listed[j] = path

\* How far a sync that nobody disturbed has got: the first worktrees are written
\* as planned, the rest are to be.
Planned(w, s) ==
    s.step \in {"write", "synced"} =>
        LET list == Listed(w)
            plan == PlanSyncOffsets(s.found)
            done == Len(list) - Len(s.plan)
        IN /\ Len(s.found) = Len(list) /\ NoClaim \notin Range(plan)
           /\ done \in 0 .. Len(list)
           /\ s.step = "synced" => done = Len(list)
           /\ \A j \in 1 .. Len(s.plan) :
                s.listed[j] = list[done + j] /\ s.plan[j] = plan[done + j]
           /\ \A i \in 1 .. done : w.linked[list[i]].offset = plan[i]

\* A command that runs alone is the only one; as long as nothing has raced, so
\* is every command.
OneCommand ==
    \A p \in Shells :
        shell[p] # Idle /\ (~wt.raced \/ shell[p].alone)
          => \A q \in Shells : q # p => shell[q] = Idle

WorktreesInv ==
    /\ RepoTyped(wt)
    /\ shell \in [Shells -> Commands \cup {Idle}]
    /\ commands \in 0 .. MaxCommands
    /\ OneCommand
    /\ ~wt.raced => Sticky(wt) /\ \A p \in Shells : Reliable(wt, shell[p])
    /\ \A p \in Shells : shell[p] # Idle /\ shell[p].alone => Planned(wt, shell[p])

LEMMA IdleIs == /\ Idle \notin Commands /\ Idle.step = "idle"
                /\ \A w : Reliable(w, Idle) /\ Planned(w, Idle)
  <1>1. Idle.step = "idle"
    BY DEF Idle
  <1>2. \A s \in Commands : s.step # "idle"
    BY DEF Commands, CreateCommands, RemoveCommands, SyncCommands
  <1> QED  BY <1>1, <1>2 DEF Reliable, Planned

\* Whether a command is alone is nothing that it relies on.
LEMMA AloneAside ==
    ASSUME NEW s \in Commands, NEW alone \in BOOLEAN
    PROVE  LET t == [s EXCEPT !.alone = alone]
           IN  /\ t \in Commands /\ t # Idle /\ t.alone = alone
               /\ \A w : /\ Reliable(w, s) => Reliable(w, t)
                         /\ Planned(w, s) => Planned(w, t)
  <1> DEFINE t == [s EXCEPT !.alone = alone]
  <1>1. CASE s \in CreateCommands
    <2>1. t \in CreateCommands /\ t.alone = alone /\ t.step = s.step /\ t.claimed = s.claimed
      BY <1>1 DEF CreateCommands
    <2>2. s.step \in {"add", "claim", "install"}
      BY <1>1 DEF CreateCommands
    <2> HIDE DEF t
    <2>3. \A w : /\ Reliable(w, s) => Reliable(w, t)
                 /\ Planned(w, s) => Planned(w, t)
      BY <2>1, <2>2 DEF Reliable, Planned
    <2> QED  BY <2>1, <2>3, IdleIs DEF Commands, t
  <1>2. CASE s \in RemoveCommands
    <2>1. t \in RemoveCommands /\ t.alone = alone /\ t.step = s.step /\ t.path = s.path
          /\ t.offset = s.offset
      BY <1>2 DEF RemoveCommands
    <2>2. s.step \in {"kill", "remove", "branch"}
      BY <1>2 DEF RemoveCommands
    <2> HIDE DEF t
    <2>3. \A w : /\ Reliable(w, s) => Reliable(w, t)
                 /\ Planned(w, s) => Planned(w, t)
      BY <2>1, <2>2 DEF Reliable, Planned
    <2> QED  BY <2>1, <2>3, IdleIs DEF Commands, t
  <1>3. CASE s \in SyncCommands
    <2>1. t \in SyncCommands /\ t.alone = alone /\ t.step = s.step /\ t.listed = s.listed
          /\ t.plan = s.plan /\ t.found = s.found
      BY <1>3 DEF SyncCommands
    <2>2. s.step \in {"write", "synced"}
      BY <1>3 DEF SyncCommands
    <2> HIDE DEF t
    <2>3. ASSUME NEW w, Reliable(w, s) PROVE Reliable(w, t)
      BY <2>1, <2>2, <2>3 DEF Reliable
    <2>4. ASSUME NEW w, Planned(w, s) PROVE Planned(w, t)
      BY <2>1, <2>2, <2>4 DEF Planned
    <2> QED  BY <2>1, <2>3, <2>4, IdleIs DEF Commands, t
  <1> QED  BY <1>1, <1>2, <1>3 DEF Commands

LEMMA DisturbedIs ==
    ASSUME NEW s \in Commands
    PROVE  /\ Disturbed(s) \in Commands /\ Disturbed(s) # Idle /\ Disturbed(s).alone = FALSE
           /\ \A w : Reliable(w, s) => Reliable(w, Disturbed(s))
  BY AloneAside DEF Disturbed

\* A shell goes on, alone or with what others rely on put at risk.
LEMMA GoesKeeps ==
    ASSUME WorktreesInv, NEW p \in Shells, shell[p] # Idle, NEW w, RepoTyped(w),
           NEW next \in Commands \cup {Idle}, Goes(p, w, next),
           ~w.raced => /\ ~wt.raced \/ shell[p].alone
                       /\ Sticky(w) /\ Reliable(w, next),
           next # Idle => next.alone = shell[p].alone,
           shell[p].alone => Planned(w, next)
    PROVE  WorktreesInv'
  <1>1. /\ wt' = w /\ commands' = commands /\ shell' = [shell EXCEPT ![p] = next]
        /\ commands \in 0 .. MaxCommands
    BY DEF Goes, WorktreesInv
  <1>2. /\ shell \in [Shells -> Commands \cup {Idle}]
        /\ shell' \in [Shells -> Commands \cup {Idle}]
        /\ shell'[p] = next /\ \A q \in Shells : q # p => shell'[q] = shell[q]
    BY <1>1 DEF WorktreesInv
  <1>3. ~wt.raced \/ shell[p].alone => \A q \in Shells : q # p => shell[q] = Idle
    BY DEF WorktreesInv, OneCommand
  <1>5. OneCommand'
    <2>1. ASSUME NEW q \in Shells, shell'[q] # Idle, ~w.raced \/ shell'[q].alone,
                 NEW r \in Shells, r # q
          PROVE  shell'[r] = Idle
      <3>1. CASE q = p
        BY <1>2, <1>3, <2>1, <3>1
      <3>2. CASE q # p
        <4>1. shell[q] # Idle /\ ~(~wt.raced \/ shell[p].alone)
          BY <1>2, <1>3, <2>1, <3>2
        <4>2. shell[q].alone
          BY <1>2, <2>1, <3>2, <4>1
        <4> QED  BY <4>1, <4>2, <3>2 DEF WorktreesInv, OneCommand
      <3> QED  BY <3>1, <3>2
    <2> QED  BY <1>1, <2>1 DEF OneCommand
  <1>6. ASSUME ~w.raced PROVE Sticky(w) /\ \A q \in Shells : Reliable(w, shell'[q])
    BY <1>2, <1>3, <1>6, IdleIs
  <1>7. ASSUME NEW q \in Shells, shell'[q] # Idle, shell'[q].alone
        PROVE  Planned(w, shell'[q])
    <2>1. CASE q = p
      BY <1>2, <1>7, <2>1
    <2>2. CASE q # p
      BY <1>2, <1>7, <2>2 DEF WorktreesInv, OneCommand
    <2> QED  BY <2>1, <2>2
  <1> QED  BY <1>1, <1>2, <1>5, <1>6, <1>7 DEF WorktreesInv

\* A command begins: alone, or everything has raced.
LEMMA StartKeeps ==
    ASSUME WorktreesInv, NEW p \in Shells, NEW command \in Commands, Start(p, command),
           ~wt.raced => Reliable(wt, command), Planned(wt, command)
    PROVE  WorktreesInv'
  <1> DEFINE busy == \E q \in Shells : shell[q] # Idle
             begun == [command EXCEPT !.alone = ~busy]
  <1>1. /\ wt' = [wt EXCEPT !.raced = @ \/ busy]
        /\ shell' = [q \in Shells |-> IF q = p THEN begun
                                     ELSE IF shell[q] = Idle THEN Idle
                                     ELSE Disturbed(shell[q])]
        /\ shell[p] = Idle
    BY DEF Start
  <1>2. commands' \in 0 .. MaxCommands
    BY WorktreesAssumption DEF Start, WorktreesInv
  <1>3. /\ begun \in Commands /\ begun # Idle /\ begun.alone = ~busy
        /\ Reliable(wt, command) => Reliable(wt, begun)
        /\ Planned(wt, begun)
    <2> DEFINE alone == ~busy
    <2>1. alone \in BOOLEAN
      OBVIOUS
    <2> HIDE DEF alone
    <2>2. LET t == [command EXCEPT !.alone = alone]
          IN  /\ t \in Commands /\ t # Idle /\ t.alone = alone
              /\ Reliable(wt, command) => Reliable(wt, t)
              /\ Planned(wt, command) => Planned(wt, t)
      BY <2>1, AloneAside
    <2> QED  BY <2>2 DEF alone
  <1> HIDE DEF begun
  <1>4. RepoTyped(wt) /\ shell \in [Shells -> Commands \cup {Idle}]
    BY DEF WorktreesInv
  <1>5. \A q \in Shells : shell[q] # Idle =>
          /\ Disturbed(shell[q]) \in Commands /\ Disturbed(shell[q]) # Idle
          /\ Disturbed(shell[q]).alone = FALSE
    BY <1>4, DisturbedIs
  <1>6. shell' \in [Shells -> Commands \cup {Idle}]
    BY <1>1, <1>3, <1>5
  <1>7. CASE busy
    <2>1. wt'.raced /\ RepoTyped(wt')
      BY <1>1, <1>4, <1>7 DEF RepoTyped
    <2>2. \A q \in Shells : shell'[q] # Idle => shell'[q].alone = FALSE
      BY <1>1, <1>3, <1>5, <1>7
    <2> QED  BY <1>2, <1>6, <2>1, <2>2 DEF WorktreesInv, OneCommand
  <1>8. CASE ~busy
    <2>1. wt' = wt
      BY <1>1, <1>4, <1>8 DEF RepoTyped
    <2>2. shell'[p] = begun /\ \A q \in Shells : q # p => shell'[q] = Idle
      BY <1>1, <1>8
    <2>3. OneCommand'
      BY <2>2 DEF OneCommand
    <2>4. ~wt.raced => \A q \in Shells : Reliable(wt, shell'[q])
      BY <1>3, <2>2, IdleIs
    <2>5. \A q \in Shells : Planned(wt, shell'[q])
      BY <1>3, <2>2, IdleIs
    <2> QED  BY <1>2, <1>4, <1>6, <2>1, <2>3, <2>4, <2>5 DEF WorktreesInv
  <1> QED  BY <1>7, <1>8

\* What claims are left was claimed before.
NoMore(w) ==
    \A path \in DOMAIN w.linked :
        w.linked[path].offset # NoClaim =>
            path \in DOMAIN wt.linked /\ wt.linked[path].offset = w.linked[path].offset

LEMMA NoMoreKeeps ==
    ASSUME RepoTyped(wt), NEW w, RepoTyped(w), NoMore(w)
    PROVE  /\ Sticky(wt) => Sticky(w)
           /\ \A s \in Commands : Reliable(wt, s) => Reliable(w, s)
  <1>1. Sticky(wt) => Sticky(w)
    BY DEF Sticky, NoMore
  <1>2. ASSUME NEW s \in Commands, Reliable(wt, s) PROVE Reliable(w, s)
    <2>1. Claims(w) \subseteq Claims(wt)
      BY DEF Claims, NoMore
    <2>2. s.step \in {"add", "claim"} => Claims(w) \subseteq s.claimed
      BY <1>2, <2>1 DEF Reliable
    <2>3. s.step = "kill" /\ s.offset # NoClaim =>
            \A other \in DOMAIN w.linked :
                w.linked[other].offset = s.offset => other = s.path
      BY <1>2 DEF Reliable, NoMore
    <2>4. ASSUME s.step = "write"
          PROVE  \A path \in DOMAIN w.linked, j \in DOMAIN s.plan :
                   w.linked[path].offset = s.plan[j] => s.listed[j] = path
      <3>1. \A j \in DOMAIN s.plan : s.plan[j] # NoClaim
        <4>1. s.plan \in Seq(Offsets)
          BY <2>4 DEF Commands, CreateCommands, RemoveCommands, SyncCommands
        <4> QED  BY <4>1, OffsetsAre
      <3> QED  BY <1>2, <2>4, <3>1 DEF Reliable, NoMore
    <2> QED  BY <1>2, <2>2, <2>3, <2>4 DEF Reliable
  <1> QED  BY <1>1, <1>2

LEMMA HandKeeps ==
    ASSUME WorktreesInv, NEW w, RepoTyped(w), Hand(w),
           ~w.raced => ~wt.raced /\ NoMore(w)
    PROVE  WorktreesInv'
  <1>1. /\ wt' = w
        /\ shell' = [p \in Shells |-> IF shell[p] = Idle THEN Idle ELSE Disturbed(shell[p])]
    BY DEF Hand
  <1>2. commands' \in 0 .. MaxCommands
    BY WorktreesAssumption DEF Hand, WorktreesInv
  <1>3. RepoTyped(wt) /\ shell \in [Shells -> Commands \cup {Idle}]
    BY DEF WorktreesInv
  <1>4. \A p \in Shells : shell[p] # Idle =>
          /\ shell[p] \in Commands
          /\ Disturbed(shell[p]) \in Commands /\ Disturbed(shell[p]) # Idle
          /\ Disturbed(shell[p]).alone = FALSE
          /\ Reliable(w, shell[p]) => Reliable(w, Disturbed(shell[p]))
    BY <1>3, DisturbedIs
  <1>5. /\ shell' \in [Shells -> Commands \cup {Idle}]
        /\ \A p \in Shells : /\ shell'[p] # Idle <=> shell[p] # Idle
                             /\ shell'[p] # Idle => shell'[p].alone = FALSE
    BY <1>1, <1>4
  <1>6. ASSUME ~w.raced PROVE Sticky(w) /\ \A p \in Shells : Reliable(w, shell'[p])
    <2>1. Sticky(wt) /\ \A p \in Shells : Reliable(wt, shell[p])
      BY <1>6 DEF WorktreesInv
    <2>2. Sticky(w) /\ \A s \in Commands : Reliable(wt, s) => Reliable(w, s)
      BY <1>3, <1>6, <2>1, NoMoreKeeps
    <2>3. \A p \in Shells : Reliable(w, shell'[p])
      BY <1>1, <1>4, <2>1, <2>2, IdleIs
    <2> QED  BY <2>2, <2>3
  <1>7. OneCommand'
    BY <1>1, <1>5 DEF WorktreesInv, OneCommand
  <1> QED  BY <1>1, <1>2, <1>5, <1>6, <1>7 DEF WorktreesInv

LEMMA StepTells ==
    ASSUME WorktreesInv, NEW p \in Shells, shell[p].step # "idle"
    PROVE  /\ shell[p] \in Commands /\ shell[p] # Idle
           /\ shell[p].step \in {"add", "claim", "install"} => shell[p] \in CreateCommands
           /\ shell[p].step \in {"kill", "remove", "branch"} => shell[p] \in RemoveCommands
           /\ shell[p].step \in {"write", "synced"} => shell[p] \in SyncCommands
  <1>1. shell[p] \in Commands /\ shell[p] # Idle
    BY IdleIs DEF WorktreesInv
  <1> QED  BY <1>1 DEF Commands, CreateCommands, RemoveCommands, SyncCommands

\* What may follow any step: the worktrees claim no more, and the command ends.
LEMMA EndKeeps ==
    ASSUME WorktreesInv, NEW p \in Shells, shell[p] # Idle, NEW w, RepoTyped(w),
           NoMore(w), w.raced = wt.raced, Goes(p, w, Idle)
    PROVE  WorktreesInv'
  <1>1. ~w.raced => Sticky(w)
    BY NoMoreKeeps DEF WorktreesInv
  <1> QED  BY <1>1, GoesKeeps, IdleIs

LEMMA SameIsNoMore == /\ NoMore(wt)
                      /\ WorktreesInv => RepoTyped(wt)
  BY DEF NoMore, WorktreesInv

\* The repository after each of the things done to it.
LEMMA AddedIs ==
    ASSUME RepoTyped(wt), NEW path \in Range(Paths), path \notin DOMAIN wt.linked,
           NEW branch \in Branches
    PROVE  LET w == Added(wt, path, branch)
           IN  RepoTyped(w) /\ NoMore(w) /\ w.raced = wt.raced /\ w.servers = wt.servers
  <1> DEFINE w == Added(wt, path, branch)
             fresh == [branch |-> branch, offset |-> NoClaim, name |-> NoClaim]
             linked == [other \in DOMAIN wt.linked \cup {path} |->
                          IF other = path THEN fresh ELSE wt.linked[other]]
  <1>1. w = [wt EXCEPT !.linked = linked, !.branches = @ \cup {branch}]
    BY DEF Added
  <1>2. fresh \in Worktree /\ fresh.offset = NoClaim
    BY DEF Worktree, Claimable
  <1> HIDE DEF fresh
  <1>3. linked \in [DOMAIN wt.linked \cup {path} -> Worktree]
    BY <1>2 DEF RepoTyped
  <1>4. \A other \in DOMAIN linked :
          linked[other].offset # NoClaim =>
            other \in DOMAIN wt.linked /\ linked[other] = wt.linked[other]
    BY <1>2
  <1>5. DOMAIN linked = DOMAIN wt.linked \cup {path}
    OBVIOUS
  <1> HIDE DEF linked, w
  <1>6. w = [linked |-> linked, branches |-> wt.branches \cup {branch},
             servers |-> wt.servers, raced |-> wt.raced]
    BY <1>1 DEF RepoTyped
  <1>7. RepoTyped(w)
    BY <1>3, <1>5, <1>6 DEF RepoTyped
  <1> QED  BY <1>4, <1>6, <1>7 DEF NoMore, w

LEMMA ClaimedIs ==
    ASSUME RepoTyped(wt), NEW path \in DOMAIN wt.linked,
           NEW name \in Range(Paths) \cup {NoClaim}, NEW offset \in Claimable
    PROVE  LET w == Claimed(wt, path, name, offset)
           IN  /\ RepoTyped(w) /\ w.raced = wt.raced /\ w.servers = wt.servers
               /\ DOMAIN w.linked = DOMAIN wt.linked
               /\ w.linked[path].offset = offset
               /\ \A other \in DOMAIN wt.linked \ {path} : w.linked[other] = wt.linked[other]
  <1> DEFINE w == Claimed(wt, path, name, offset)
             old == wt.linked[path]
             linked == [wt.linked EXCEPT ![path] =
                          [branch |-> old.branch, offset |-> offset, name |-> name]]
  <1>1. /\ wt.linked \in [DOMAIN wt.linked -> Worktree]
        /\ old \in Worktree
    BY DEF RepoTyped
  <1>2. w = [wt EXCEPT !.linked = linked]
    BY DEF Claimed
  <1>3. /\ linked \in [DOMAIN wt.linked -> Worktree]
        /\ linked[path].offset = offset
        /\ \A other \in DOMAIN wt.linked \ {path} : linked[other] = wt.linked[other]
    BY <1>1 DEF Worktree
  <1> HIDE DEF linked, w
  <1>4. w = [linked |-> linked, branches |-> wt.branches,
             servers |-> wt.servers, raced |-> wt.raced]
    BY <1>2 DEF RepoTyped
  <1>5. DOMAIN linked = DOMAIN wt.linked
    BY <1>3
  <1>6. RepoTyped(w)
    BY <1>3, <1>4, <1>5 DEF RepoTyped
  <1> QED  BY <1>3, <1>4, <1>5, <1>6 DEF w

LEMMA RemovedIs ==
    ASSUME RepoTyped(wt), NEW path
    PROVE  LET w == Removed(wt, path)
           IN  RepoTyped(w) /\ NoMore(w) /\ w.raced = wt.raced /\ w.servers = wt.servers
  <1> DEFINE w == Removed(wt, path)
             linked == [other \in DOMAIN wt.linked \ {path} |-> wt.linked[other]]
  <1>1. w = [wt EXCEPT !.linked = linked]
    BY DEF Removed
  <1>2. /\ linked \in [DOMAIN linked -> Worktree] /\ DOMAIN linked \subseteq DOMAIN wt.linked
        /\ \A other \in DOMAIN linked : linked[other] = wt.linked[other]
    BY DEF RepoTyped
  <1> HIDE DEF linked, w
  <1>3. w = [linked |-> linked, branches |-> wt.branches,
             servers |-> wt.servers, raced |-> wt.raced]
    BY <1>1 DEF RepoTyped
  <1>4. RepoTyped(w)
    BY <1>2, <1>3 DEF RepoTyped
  <1> QED  BY <1>2, <1>3, <1>4 DEF NoMore, w

\* Servers, branches and whether anything has raced claim nothing.
LEMMA AsideIs ==
    ASSUME RepoTyped(wt), NEW w, NEW servers, NEW branches, NEW raced \in BOOLEAN,
           w = [linked |-> wt.linked, branches |-> branches, servers |-> servers,
                raced |-> raced],
           servers \subseteq [path : Range(Paths), offset : Offsets \cup {0}],
           branches \subseteq Branches
    PROVE  RepoTyped(w) /\ NoMore(w) /\ w.raced = raced /\ w.linked = wt.linked
           /\ w.servers = servers
  BY DEF RepoTyped, NoMore

LEMMA ListedHere ==
    ASSUME NEW w, RepoTyped(w)
    PROVE  /\ Listed(w) \in Seq(Range(Paths)) /\ Len(Listed(w)) \in Nat
           /\ \A i \in 1 .. Len(Listed(w)) :
                Listed(w)[i] \in DOMAIN w.linked /\ w.linked[Listed(w)[i]].offset \in Claimable
           /\ \A path \in DOMAIN w.linked : \E i \in 1 .. Len(Listed(w)) : Listed(w)[i] = path
           /\ \A i, j \in 1 .. Len(Listed(w)) : Listed(w)[i] = Listed(w)[j] => i = j
  <1> DEFINE D == DOMAIN w.linked
  <1>1. D \subseteq Range(Paths) /\ \A path \in D : w.linked[path].offset \in Claimable
    BY DEF RepoTyped, Worktree
  <1>2. Listed(w) = ListedOf(D)
    BY DEF Listed
  <1> HIDE DEF D
  <1>3. LET list == ListedOf(D)
        IN  /\ list \in Seq(Range(Paths)) /\ Len(list) \in Nat
            /\ \A i \in 1 .. Len(list) : list[i] \in D
            /\ \A path \in D : \E i \in 1 .. Len(list) : list[i] = path
            /\ \A i, j \in 1 .. Len(list) : list[i] = list[j] => i = j
    BY <1>1, ListedIs
  <1> QED  BY <1>1, <1>2, <1>3 DEF D

(* create *)

LEMMA CreateBegunKeeps ==
    ASSUME WorktreesInv, NEW p \in Shells, CreateBegun(p)
    PROVE  WorktreesInv'
  <1>1. PICK branch \in Branches :
          Start(p, [step |-> "add", branch |-> branch, path |-> DirName[branch],
                    claimed |-> Claims(wt), alone |-> TRUE])
    BY DEF CreateBegun
  <1> DEFINE command == [step |-> "add", branch |-> branch, path |-> DirName[branch],
                         claimed |-> Claims(wt), alone |-> TRUE]
  <1>2. DirName[branch] \in Range(Paths)
    BY WorktreesAssumption
  <1>3. Claims(wt) \subseteq Offsets
    BY DEF Claims, WorktreesInv, RepoTyped, Worktree, Claimable
  <1>4. command \in CreateCommands
    BY <1>2, <1>3 DEF CreateCommands
  <1>5. command.step = "add" /\ command.claimed = Claims(wt)
    OBVIOUS
  <1>6. Start(p, command)
    BY <1>1
  <1> HIDE DEF command
  <1>7. Reliable(wt, command) /\ Planned(wt, command)
    BY <1>5 DEF Reliable, Planned
  <1> QED  BY <1>4, <1>6, <1>7, StartKeeps DEF Commands

LEMMA CreateAddsKeeps ==
    ASSUME WorktreesInv, NEW p \in Shells, CreateAdds(p)
    PROVE  WorktreesInv'
  <1> DEFINE s == shell[p]
             next == [s EXCEPT !.step = "claim"]
             w == Added(wt, s.path, s.branch)
  <1>1. s \in Commands /\ s # Idle /\ s \in CreateCommands /\ s.step = "add"
    BY StepTells DEF CreateAdds
  <1>2. CASE Goes(p, wt, Idle)
    BY <1>1, <1>2, EndKeeps, SameIsNoMore
  <1>3. CASE s.path \notin DOMAIN wt.linked /\ Goes(p, w, next)
    <2>1. RepoTyped(wt) /\ s.path \in Range(Paths) /\ s.branch \in Branches
      BY <1>1 DEF WorktreesInv, CreateCommands
    <2>2. RepoTyped(w) /\ NoMore(w) /\ w.raced = wt.raced
      BY <1>3, <2>1, AddedIs
    <2>3. /\ next \in CreateCommands /\ next.step = "claim" /\ next.claimed = s.claimed
          /\ next.alone = s.alone
      BY <1>1 DEF CreateCommands
    <2>4. Goes(p, w, next)
      BY <1>3
    <2> HIDE DEF next, w
    <2>5. ASSUME ~w.raced PROVE Sticky(w) /\ Reliable(w, next)
      <3>1. Sticky(wt) /\ Reliable(wt, s)
        BY <2>2, <2>5 DEF WorktreesInv
      <3>2. Sticky(w) /\ Reliable(w, s)
        BY <1>1, <2>1, <2>2, <3>1, NoMoreKeeps
      <3> HIDE DEF s
      <3> QED  BY <1>1, <2>3, <3>2 DEF Reliable
    <2>6. Planned(w, next)
      BY <2>3 DEF Planned
    <2> QED  BY <1>1, <2>2, <2>3, <2>4, <2>5, <2>6, GoesKeeps DEF Commands
  <1> QED  BY <1>2, <1>3 DEF CreateAdds

LEMMA CreateClaimsKeeps ==
    ASSUME WorktreesInv, NEW p \in Shells, CreateClaims(p)
    PROVE  WorktreesInv'
  <1> DEFINE s == shell[p]
             next == [s EXCEPT !.step = "install"]
             offset == AllocateOffset(s.claimed)
             w == Claimed(wt, s.path, s.path, offset)
  <1>1. s \in Commands /\ s # Idle /\ s \in CreateCommands /\ s.step = "claim"
    BY StepTells DEF CreateClaims
  <1>2. CASE Goes(p, wt, Idle)
    BY <1>1, <1>2, EndKeeps, SameIsNoMore
  <1>3. CASE offset # NoClaim /\ s.path \in DOMAIN wt.linked /\ Goes(p, w, next)
    <2>1. RepoTyped(wt) /\ s.path \in Range(Paths)
      BY <1>1 DEF WorktreesInv, CreateCommands
    <2>2. offset \in Offsets \ s.claimed
      BY <1>3, AllocatedIs
    <2>3. /\ next \in CreateCommands /\ next.step = "install" /\ next.alone = s.alone
      BY <1>1 DEF CreateCommands
    <2>4. Goes(p, w, next)
      BY <1>3
    <2>5. /\ RepoTyped(w) /\ w.raced = wt.raced /\ DOMAIN w.linked = DOMAIN wt.linked
          /\ w.linked[s.path].offset = offset
          /\ \A other \in DOMAIN wt.linked \ {s.path} : w.linked[other] = wt.linked[other]
      <3> HIDE DEF offset
      <3> QED  BY <1>3, <2>1, <2>2, ClaimedIs DEF Claimable
    <2> HIDE DEF next, w, offset
    <2>6. ASSUME ~w.raced PROVE Sticky(w) /\ Reliable(w, next)
      <3>1. Sticky(wt) /\ Claims(wt) \subseteq s.claimed
        BY <1>1, <2>5, <2>6 DEF WorktreesInv, Reliable
      <3>2. \A other \in DOMAIN wt.linked : wt.linked[other].offset # offset
        BY <1>3, <2>2, <3>1 DEF Claims
      <3>3. Sticky(w)
        BY <2>5, <3>1, <3>2 DEF Sticky
      <3> QED  BY <2>3, <3>3 DEF Reliable
    <2>7. Planned(w, next)
      BY <2>3 DEF Planned
    <2> QED  BY <1>1, <2>3, <2>4, <2>5, <2>6, <2>7, GoesKeeps DEF Commands
  <1> QED  BY <1>2, <1>3 DEF CreateClaims

(* remove *)

LEMMA RemoveBegunKeeps ==
    ASSUME WorktreesInv, NEW p \in Shells, RemoveBegun(p)
    PROVE  WorktreesInv'
  <1> DEFINE Command(path, keepBranch) ==
               [step |-> "kill", path |-> path, branch |-> wt.linked[path].branch,
                offset |-> wt.linked[path].offset, keepBranch |-> keepBranch, alone |-> TRUE]
  <1>1. PICK keepBranch \in BOOLEAN, i \in DOMAIN Listed(wt) :
          Start(p, Command(Listed(wt)[i], keepBranch))
    BY DEF RemoveBegun
  <1> DEFINE path == Listed(wt)[i]
             command == Command(path, keepBranch)
  <1>2. RepoTyped(wt)
    BY DEF WorktreesInv
  <1>3. path \in DOMAIN wt.linked
    BY <1>2, ListedHere
  <1> HIDE DEF path
  <1>4. wt.linked[path] \in Worktree /\ path \in Range(Paths)
    BY <1>2, <1>3 DEF RepoTyped
  <1>5. command \in RemoveCommands
    BY <1>4 DEF RemoveCommands, Worktree
  <1>6. command.step = "kill" /\ command.path = path
        /\ command.offset = wt.linked[path].offset
    OBVIOUS
  <1>7. Start(p, command)
    BY <1>1 DEF path
  <1> HIDE DEF command
  <1>8. ~wt.raced => Reliable(wt, command)
    BY <1>3, <1>6 DEF Reliable, WorktreesInv, Sticky
  <1>9. Planned(wt, command)
    BY <1>6 DEF Planned
  <1> QED  BY <1>5, <1>7, <1>8, <1>9, StartKeeps DEF Commands

LEMMA RemovingGoes ==
    ASSUME WorktreesInv, NEW p \in Shells, shell[p] \in RemoveCommands,
           NEW step \in {"remove", "branch"},
           NEW w, RepoTyped(w), NoMore(w), w.raced = wt.raced,
           Goes(p, w, [shell[p] EXCEPT !.step = step])
    PROVE  WorktreesInv'
  <1> DEFINE s == shell[p]
             next == [s EXCEPT !.step = step]
  <1>1. next \in RemoveCommands /\ next.step = step /\ next.alone = s.alone
    BY DEF RemoveCommands
  <1>2. Goes(p, w, next)
    OBVIOUS
  <1>3. s # Idle
    BY IdleIs DEF Commands
  <1> HIDE DEF next
  <1>4. ~w.raced => Sticky(w)
    BY NoMoreKeeps DEF WorktreesInv
  <1>5. Reliable(w, next) /\ Planned(w, next)
    BY <1>1 DEF Reliable, Planned
  <1> QED  BY <1>1, <1>2, <1>3, <1>4, <1>5, GoesKeeps DEF Commands

LEMMA KilledIs ==
    ASSUME RepoTyped(wt), NEW offset
    PROVE  LET w == KillPorts(wt, offset)
           IN  RepoTyped(w) /\ NoMore(w) /\ w.raced = wt.raced
  <1> DEFINE w == KillPorts(wt, offset)
             servers == {server \in wt.servers :
                           PortsForOffset(server.offset) \cap PortsForOffset(offset) = {}}
  <1>1. w = [wt EXCEPT !.servers = servers]
    BY DEF KillPorts
  <1>2. servers \subseteq wt.servers
    OBVIOUS
  <1> HIDE DEF servers, w
  <1>3. w = [linked |-> wt.linked, branches |-> wt.branches, servers |-> servers,
             raced |-> wt.raced]
    BY <1>1 DEF RepoTyped
  <1> QED  BY <1>2, <1>3, AsideIs DEF RepoTyped, w

LEMMA RemoveKeeps ==
    ASSUME WorktreesInv, NEW p \in Shells, RemoveKills(p) \/ RemoveRemoves(p) \/ RemoveBranch(p)
    PROVE  WorktreesInv'
  <1> DEFINE s == shell[p]
  <1>1. s \in Commands /\ s # Idle /\ s \in RemoveCommands
    BY StepTells DEF RemoveKills, RemoveRemoves, RemoveBranch
  <1>2. RepoTyped(wt)
    BY DEF WorktreesInv
  <1>3. CASE RemoveKills(p)
    <2> DEFINE w == IF s.offset = NoClaim THEN wt ELSE KillPorts(wt, s.offset)
    <2>1. RepoTyped(w) /\ NoMore(w) /\ w.raced = wt.raced
      BY <1>2, KilledIs, SameIsNoMore
    <2>2. Goes(p, w, [shell[p] EXCEPT !.step = "remove"])
      BY <1>3 DEF RemoveKills
    <2> HIDE DEF w
    <2> QED  BY <1>1, <2>1, <2>2, RemovingGoes
  <1>4. CASE RemoveRemoves(p)
    <2> DEFINE w == Removed(wt, s.path)
    <2>1. RepoTyped(w) /\ NoMore(w) /\ w.raced = wt.raced
      BY <1>2, RemovedIs
    <2>2. \/ Goes(p, wt, Idle) \/ Goes(p, w, Idle)
          \/ Goes(p, w, [shell[p] EXCEPT !.step = "branch"])
      BY <1>4 DEF RemoveRemoves
    <2> HIDE DEF w
    <2> QED  BY <1>1, <1>2, <2>1, <2>2, RemovingGoes, EndKeeps, SameIsNoMore
  <1>5. CASE RemoveBranch(p)
    <2> DEFINE w == [wt EXCEPT !.branches = @ \ {s.branch}]
    <2>1. w = [linked |-> wt.linked, branches |-> wt.branches \ {s.branch},
               servers |-> wt.servers, raced |-> wt.raced]
      BY <1>2 DEF RepoTyped
    <2>2. Goes(p, wt, Idle) \/ Goes(p, w, Idle)
      BY <1>5 DEF RemoveBranch
    <2> HIDE DEF w
    <2>3. RepoTyped(w) /\ NoMore(w) /\ w.raced = wt.raced
      BY <1>2, <2>1, AsideIs DEF RepoTyped
    <2> QED  BY <1>1, <1>2, <2>2, <2>3, EndKeeps, SameIsNoMore
  <1> QED  BY <1>3, <1>4, <1>5

(* sync *)

LEMMA SyncBegunKeeps ==
    ASSUME WorktreesInv, NEW p \in Shells, SyncBegun(p)
    PROVE  WorktreesInv'
  <1> DEFINE listed == Listed(wt)
             claims == [i \in DOMAIN listed |-> wt.linked[listed[i]].offset]
             plan == PlanSyncOffsets(claims)
             names == [i \in DOMAIN listed |->
                         IF wt.linked[listed[i]].name = NoClaim THEN listed[i]
                         ELSE wt.linked[listed[i]].name]
             command == [step |-> "write", listed |-> listed, plan |-> plan, names |-> names,
                         found |-> claims, alone |-> TRUE]
             N == Len(listed)
  <1>1. Start(p, command) /\ NoClaim \notin Range(plan)
    BY DEF SyncBegun
  <1>2. RepoTyped(wt) /\ \A path \in DOMAIN wt.linked : wt.linked[path] \in Worktree
    BY DEF WorktreesInv, RepoTyped
  <1>3. /\ listed \in Seq(Range(Paths)) /\ N \in Nat /\ DOMAIN listed = 1 .. N
        /\ \A i \in 1 .. N : listed[i] \in DOMAIN wt.linked /\ listed[i] \in Range(Paths)
        /\ \A path \in DOMAIN wt.linked : \E i \in 1 .. N : listed[i] = path
    BY <1>2, ListedHere
  <1> HIDE DEF listed, N
  <1>4. /\ claims \in Seq(Claimable) /\ Len(claims) = N /\ DOMAIN claims = 1 .. N
        /\ \A i \in 1 .. N : claims[i] = wt.linked[listed[i]].offset
    BY <1>2, <1>3 DEF Worktree
  <1>5. names \in Seq(Range(Paths)) /\ Len(names) = N
    <2>1. ASSUME NEW i \in 1 .. N PROVE names[i] \in Range(Paths)
      BY <1>2, <1>3 DEF Worktree
    <2>2. names = [i \in 1 .. N |-> names[i]]
      BY <1>3
    <2> HIDE DEF names
    <2> QED  BY <1>3, <2>1, <2>2
  <1> HIDE DEF claims, names
  <1>6. /\ plan \in Seq(Offsets) /\ Len(plan) = N /\ DOMAIN plan = 1 .. N
        /\ \A i, j \in 1 .. N : plan[i] = plan[j] => i = j
        /\ \A i \in 1 .. N :
             claims[i] # NoClaim /\ (\A j \in 1 .. i - 1 : claims[j] # claims[i])
               => plan[i] = claims[i]
    BY <1>1, <1>4, PlanIs
  <1> HIDE DEF plan
  <1>7. command \in SyncCommands
    BY <1>3, <1>4, <1>5, <1>6 DEF SyncCommands, N
  <1>8. /\ command.step = "write" /\ command.plan = plan /\ command.listed = listed
        /\ command.found = claims
    OBVIOUS
  <1> HIDE DEF command
  <1>9. ASSUME ~wt.raced PROVE Reliable(wt, command)
    <2>1. Sticky(wt)
      BY <1>9 DEF WorktreesInv
    <2>2. ASSUME NEW path \in DOMAIN wt.linked, NEW j \in 1 .. N,
                 wt.linked[path].offset = plan[j]
          PROVE  listed[j] = path
      <3>1. PICK i \in 1 .. N : listed[i] = path
        BY <1>3
      <3>2. claims[i] = plan[j] /\ claims[i] # NoClaim
        BY <1>4, <1>6, <2>2, <3>1, OffsetsAre
      <3>3. ASSUME NEW k \in 1 .. i - 1 PROVE claims[k] # claims[i]
        <4>1. k \in 1 .. N /\ k # i
          BY <1>3, <3>3
        <4>2. ASSUME claims[k] = claims[i] PROVE FALSE
          <5>1. listed[k] = listed[i]
            BY <1>3, <1>4, <2>1, <3>2, <4>1, <4>2 DEF Sticky
          <5> QED  BY <1>2, <4>1, <5>1, ListedHere DEF listed, N
        <4> QED  BY <4>2
      <3>4. plan[i] = plan[j]
        BY <1>6, <3>2, <3>3
      <3> QED  BY <1>6, <3>1, <3>4
    <2> QED  BY <1>6, <1>8, <2>2 DEF Reliable
  <1>10. Planned(wt, command)
    <2>1. Len(Listed(wt)) = N /\ Listed(wt) = listed
      BY DEF listed, N
    <2>2. PlanSyncOffsets(claims) = plan
      BY DEF plan
    <2>3. N - Len(command.plan) = 0 /\ 0 \in 0 .. N /\ Len(command.plan) = N
      BY <1>3, <1>6, <1>8
    <2>4. /\ Len(command.found) = N /\ PlanSyncOffsets(command.found) = plan
          /\ \A j \in 1 .. N : /\ command.listed[j] = listed[0 + j]
                               /\ command.plan[j] = plan[0 + j]
      BY <1>4, <1>8, <2>2
    <2> QED  BY <1>1, <1>8, <2>1, <2>3, <2>4 DEF Planned
  <1> QED  BY <1>1, <1>7, <1>9, <1>10, StartKeeps DEF Commands, command

LEMMA SyncedKeeps ==
    ASSUME WorktreesInv, NEW p \in Shells, shell[p].step = "write", shell[p].listed = <<>>,
           Goes(p, [wt EXCEPT !.raced = @ /\ ~shell[p].alone],
                [shell[p] EXCEPT !.step = "synced"])
    PROVE  WorktreesInv'
  <1> DEFINE s == shell[p]
             w == [wt EXCEPT !.raced = @ /\ ~s.alone]
             next == [s EXCEPT !.step = "synced"]
  <1>1. s \in SyncCommands /\ s # Idle /\ s.step = "write"
    BY StepTells
  <1>2. RepoTyped(wt)
    BY DEF WorktreesInv
  <1>3. w = [linked |-> wt.linked, branches |-> wt.branches, servers |-> wt.servers,
             raced |-> wt.raced /\ ~s.alone]
    BY <1>2 DEF RepoTyped
  <1>4. s.alone \in BOOLEAN /\ Len(s.plan) = 0
    BY <1>1 DEF SyncCommands
  <1>5. /\ next \in SyncCommands /\ next.step = "synced" /\ next.alone = s.alone
        /\ next.plan = s.plan /\ next.listed = s.listed /\ next.found = s.found
    BY <1>1 DEF SyncCommands
  <1>6. Goes(p, w, next)
    OBVIOUS
  <1> HIDE DEF w, next
  <1>7. RepoTyped(w) /\ w.linked = wt.linked /\ w.raced = (wt.raced /\ ~s.alone)
    BY <1>2, <1>3, <1>4 DEF RepoTyped
  <1>8. Listed(w) = Listed(wt)
    BY <1>7 DEF Listed
  <1>9. ASSUME s.alone
        PROVE  LET list == Listed(wt)
                   plan == PlanSyncOffsets(s.found)
               IN  /\ Len(s.found) = Len(list) /\ NoClaim \notin Range(plan)
                   /\ Len(list) \in Nat
                   /\ \A i \in 1 .. Len(list) : wt.linked[list[i]].offset = plan[i]
    <2>1. Planned(wt, s)
      BY <1>1, <1>9 DEF WorktreesInv
    <2>2. Len(Listed(wt)) \in Nat
      BY <1>2, ListedHere
    <2>3. Len(Listed(wt)) - Len(s.plan) = Len(Listed(wt))
      BY <1>4, <2>2
    <2> QED  BY <1>1, <2>1, <2>2, <2>3 DEF Planned
  <1>10. ASSUME s.alone PROVE Planned(w, next)
    <2> DEFINE list == Listed(wt)
               plan == PlanSyncOffsets(s.found)
               N == Len(list)
    <2>1. N \in Nat /\ N - Len(next.plan) = N /\ N \in 0 .. N /\ Len(next.plan) = 0
      BY <1>2, <1>4, <1>5, ListedHere
    <2>2. /\ Len(next.found) = N /\ NoClaim \notin Range(plan)
          /\ \A i \in 1 .. N : w.linked[list[i]].offset = plan[i]
      BY <1>5, <1>7, <1>9, <1>10
    <2>3. Listed(w) = list /\ PlanSyncOffsets(next.found) = plan
      BY <1>5, <1>8
    <2> HIDE DEF list, plan
    <2> QED  BY <2>1, <2>2, <2>3 DEF Planned
  <1>11. ASSUME s.alone PROVE Sticky(w)
    <2> DEFINE list == Listed(wt)
               plan == PlanSyncOffsets(s.found)
               N == Len(list)
    <2>1. /\ Len(s.found) = N /\ NoClaim \notin Range(plan)
          /\ \A i \in 1 .. N : wt.linked[list[i]].offset = plan[i]
      BY <1>9, <1>11
    <2>2. s.found \in Seq(Claimable)
      BY <1>1 DEF SyncCommands
    <2>3. \A i, j \in 1 .. N : plan[i] = plan[j] => i = j
      BY <2>1, <2>2, PlanIs
    <2>4. \A path \in DOMAIN wt.linked : \E i \in 1 .. N : list[i] = path
      BY <1>2, ListedHere
    <2> HIDE DEF list, plan, N
    <2> QED  BY <1>7, <2>1, <2>3, <2>4 DEF Sticky
  <1>12. ASSUME ~w.raced PROVE (~wt.raced \/ s.alone) /\ Sticky(w) /\ Reliable(w, next)
    <2>1. ~wt.raced \/ s.alone
      BY <1>7, <1>12
    <2>2. Sticky(w)
      BY <1>7, <1>11, <2>1 DEF WorktreesInv, Sticky
    <2>3. Reliable(w, next)
      BY <1>5 DEF Reliable
    <2> QED  BY <2>1, <2>2, <2>3
  <1> QED  BY <1>1, <1>5, <1>6, <1>7, <1>10, <1>12, GoesKeeps DEF Commands

LEMMA SyncWroteKeeps ==
    ASSUME WorktreesInv, NEW p \in Shells, shell[p].step = "write", shell[p].listed # <<>>,
           Head(shell[p].listed) \in DOMAIN wt.linked,
           Goes(p, Claimed(wt, Head(shell[p].listed), Head(shell[p].names),
                           Head(shell[p].plan)),
                [shell[p] EXCEPT !.listed = Tail(@), !.names = Tail(@), !.plan = Tail(@)])
    PROVE  WorktreesInv'
  <1> DEFINE s == shell[p]
             path == Head(s.listed)
             offset == Head(s.plan)
             w == Claimed(wt, path, Head(s.names), offset)
             next == [s EXCEPT !.listed = Tail(@), !.names = Tail(@), !.plan = Tail(@)]
             M == Len(s.plan)
  <1>1. s \in SyncCommands /\ s # Idle /\ s.step = "write"
    BY StepTells
  <1>2. RepoTyped(wt)
    BY DEF WorktreesInv
  <1>3. /\ s.listed \in Seq(Range(Paths)) /\ s.plan \in Seq(Offsets)
        /\ s.names \in Seq(Range(Paths)) /\ s.found \in Seq(Claimable)
        /\ Len(s.listed) = M /\ Len(s.names) = M /\ M \in Nat /\ s.alone \in BOOLEAN
        /\ s = [step |-> "write", listed |-> s.listed, plan |-> s.plan, names |-> s.names,
                found |-> s.found, alone |-> s.alone]
    BY <1>1 DEF SyncCommands
  <1>4. /\ M >= 1 /\ path = s.listed[1] /\ offset = s.plan[1] /\ offset \in Offsets
        /\ Head(s.names) \in Range(Paths)
    BY <1>3
  <1>5. /\ Tail(s.listed) \in Seq(Range(Paths)) /\ Len(Tail(s.listed)) = M - 1
        /\ Tail(s.names) \in Seq(Range(Paths)) /\ Len(Tail(s.names)) = M - 1
        /\ Tail(s.plan) \in Seq(Offsets) /\ Len(Tail(s.plan)) = M - 1
        /\ DOMAIN Tail(s.plan) = 1 .. M - 1 /\ DOMAIN s.plan = 1 .. M
        /\ \A j \in 1 .. M - 1 : /\ Tail(s.plan)[j] = s.plan[j + 1]
                                 /\ Tail(s.listed)[j] = s.listed[j + 1]
    BY <1>3, <1>4
  <1>6. /\ next \in SyncCommands /\ next.step = "write" /\ next.alone = s.alone
        /\ next.plan = Tail(s.plan) /\ next.listed = Tail(s.listed) /\ next.found = s.found
    <2> DEFINE listed == Tail(s.listed)
               names == Tail(s.names)
               plan == Tail(s.plan)
    <2>1. next = [s EXCEPT !.listed = listed, !.names = names, !.plan = plan]
      OBVIOUS
    <2>2. /\ listed \in Seq(Range(Paths)) /\ names \in Seq(Range(Paths)) /\ plan \in Seq(Offsets)
          /\ Len(plan) = Len(listed) /\ Len(names) = Len(listed)
      BY <1>5
    <2> HIDE DEF next, listed, names, plan
    <2>3. /\ next.listed = listed /\ next.plan = plan /\ next.names = names
          /\ next.step = "write" /\ next.alone = s.alone /\ next.found = s.found
      BY <1>1, <2>1 DEF SyncCommands
    <2>4. next \in [step : {"write", "synced"}, listed : Seq(Range(Paths)), plan : Seq(Offsets),
                    names : Seq(Range(Paths)), found : Seq(Claimable), alone : BOOLEAN]
      BY <1>1, <2>1, <2>2 DEF SyncCommands
    <2> QED  BY <2>2, <2>3, <2>4 DEF SyncCommands, listed, names, plan
  <1>7. Goes(p, w, next)
    OBVIOUS
  <1>8. /\ RepoTyped(w) /\ w.raced = wt.raced /\ DOMAIN w.linked = DOMAIN wt.linked
        /\ w.linked[path].offset = offset
        /\ \A other \in DOMAIN wt.linked \ {path} : w.linked[other] = wt.linked[other]
    <2> DEFINE name == Head(s.names)
    <2>1. name \in Range(Paths) \cup {NoClaim} /\ offset \in Claimable
      BY <1>4 DEF Claimable
    <2>2. path \in DOMAIN wt.linked
      OBVIOUS
    <2>3. w = Claimed(wt, path, name, offset)
      OBVIOUS
    <2> HIDE DEF name, path, offset, w
    <2>4. LET u == Claimed(wt, path, name, offset)
          IN  /\ RepoTyped(u) /\ u.raced = wt.raced /\ DOMAIN u.linked = DOMAIN wt.linked
              /\ u.linked[path].offset = offset
              /\ \A other \in DOMAIN wt.linked \ {path} : u.linked[other] = wt.linked[other]
      BY <1>2, <2>1, <2>2, ClaimedIs
    <2> QED  BY <2>3, <2>4
  <1>9. path \in DOMAIN wt.linked
    OBVIOUS
  <1> HIDE DEF w, next, path, offset, M
  <1>10. next \in SyncCommands /\ next.step = "write" /\ next.alone = s.alone
    BY <1>6
  <1>11. /\ next.plan = Tail(s.plan) /\ next.listed = Tail(s.listed) /\ next.found = s.found
    BY <1>6
  <1> HIDE DEF s
  <1>12. \A j \in 1 .. M - 1 : j + 1 \in 1 .. M /\ j + 1 # 1
    BY <1>3
  <1>13. ASSUME ~w.raced PROVE ~wt.raced /\ Sticky(w) /\ Reliable(w, next)
    <2>1. Sticky(wt) /\ Reliable(wt, s) /\ ~wt.raced
      BY <1>8, <1>13 DEF WorktreesInv, s
    <2>2. /\ \A i, j \in 1 .. M : s.plan[i] = s.plan[j] => i = j
          /\ \A other \in DOMAIN wt.linked, j \in 1 .. M :
               wt.linked[other].offset = s.plan[j] => s.listed[j] = other
      BY <1>1, <1>5, <2>1 DEF Reliable
    <2>3. \A other \in DOMAIN wt.linked \ {path} : wt.linked[other].offset # offset
      <3>1. 1 \in 1 .. M
        BY <1>3, <1>4
      <3> QED  BY <1>4, <2>2, <3>1
    <2>4. Sticky(w)
      BY <1>8, <2>1, <2>3 DEF Sticky
    <2>5. ASSUME NEW other \in DOMAIN wt.linked, NEW j \in 1 .. M - 1,
                 w.linked[other].offset = Tail(s.plan)[j]
          PROVE  Tail(s.listed)[j] = other
      <3>1. j + 1 \in 1 .. M /\ j + 1 # 1 /\ 1 \in 1 .. M
        BY <1>3, <1>4, <1>12
      <3>2. w.linked[other].offset = s.plan[j + 1] /\ Tail(s.listed)[j] = s.listed[j + 1]
        BY <1>5, <2>5
      <3>3. other # path
        BY <1>4, <1>8, <2>2, <3>1, <3>2
      <3>4. wt.linked[other].offset = s.plan[j + 1]
        BY <1>8, <3>2, <3>3
      <3> QED  BY <2>2, <3>1, <3>2, <3>4
    <2>6. ASSUME NEW i \in 1 .. M - 1, NEW j \in 1 .. M - 1, Tail(s.plan)[i] = Tail(s.plan)[j]
          PROVE  i = j
      <3>1. i + 1 = j + 1
        BY <1>5, <1>12, <2>2, <2>6
      <3> QED  BY <3>1
    <2>7. Reliable(w, next)
      BY <1>5, <1>8, <1>10, <1>11, <2>5, <2>6 DEF Reliable
    <2> QED  BY <2>1, <2>4, <2>7
  <1>14. ASSUME s.alone PROVE Planned(w, next)
    <2> DEFINE list == Listed(wt)
               plan == PlanSyncOffsets(s.found)
               N == Len(list)
               done == N - M
    <2>1. N \in Nat /\ \A i, j \in 1 .. N : list[i] = list[j] => i = j
      BY <1>2, ListedHere
    <2>2. \A i \in 1 .. N : list[i] \in DOMAIN wt.linked
      BY <1>2, ListedHere
    <2>3. Planned(wt, s)
      BY <1>1, <1>14 DEF WorktreesInv, s
    <2>4. Listed(w) = list
      BY <1>8 DEF Listed
    <2> HIDE DEF list, plan, N
    <2>5. /\ Len(s.found) = N /\ NoClaim \notin Range(plan)
          /\ done \in 0 .. N
          /\ \A j \in 1 .. M : s.listed[j] = list[done + j] /\ s.plan[j] = plan[done + j]
          /\ \A i \in 1 .. done : wt.linked[list[i]].offset = plan[i]
      BY <1>1, <2>3 DEF Planned, list, plan, N, M
    <2>6. /\ N - (M - 1) = done + 1 /\ done + 1 \in 0 .. N /\ done + 1 \in 1 .. N
          /\ \A i \in 1 .. done : i \in 1 .. N /\ i # done + 1
          /\ \A i \in 1 .. done + 1 : i \in 1 .. done \/ i = done + 1
          /\ \A j \in 1 .. M - 1 : (done + 1) + j = done + (j + 1)
      BY <1>3, <1>4, <2>1, <2>5
    <2>7. path = list[done + 1] /\ offset = plan[done + 1]
      <3>1. 1 \in 1 .. M
        BY <1>3, <1>4
      <3> QED  BY <1>4, <2>5, <3>1
    <2>8. ASSUME NEW i \in 1 .. done + 1 PROVE w.linked[list[i]].offset = plan[i]
      <3>1. CASE i = done + 1
        BY <1>8, <2>7, <3>1
      <3>2. CASE i \in 1 .. done
        <4>1. list[i] # path /\ list[i] \in DOMAIN wt.linked
          BY <2>1, <2>2, <2>6, <2>7, <3>2
        <4> QED  BY <1>8, <2>5, <3>2, <4>1
      <3> QED  BY <2>6, <3>1, <3>2
    <2>9. \A j \in 1 .. M - 1 : /\ Tail(s.listed)[j] = list[(done + 1) + j]
                                /\ Tail(s.plan)[j] = plan[(done + 1) + j]
      <3> TAKE j \in 1 .. M - 1
      <3>1. j + 1 \in 1 .. M /\ (done + 1) + j = done + (j + 1)
        BY <1>12, <2>6
      <3>2. s.listed[j + 1] = list[done + (j + 1)] /\ s.plan[j + 1] = plan[done + (j + 1)]
        BY <2>5, <3>1
      <3>3. Tail(s.listed)[j] = s.listed[j + 1] /\ Tail(s.plan)[j] = s.plan[j + 1]
        BY <1>5
      <3> HIDE DEF done
      <3> QED  BY <3>1, <3>2, <3>3
    <2>10. Len(next.plan) = M - 1
      BY <1>5, <1>11
    <2>11. PlanSyncOffsets(next.found) = plan /\ Len(next.found) = N /\ N = Len(list)
      BY <1>11, <2>5 DEF plan, N
    <2> HIDE DEF done
    <2> DEFINE past == N - Len(next.plan)
    <2>12. past = done + 1
      BY <2>6, <2>10
    <2>13. /\ \A j \in 1 .. Len(next.plan) : /\ next.listed[j] = list[past + j]
                                           /\ next.plan[j] = plan[past + j]
           /\ \A i \in 1 .. past : w.linked[list[i]].offset = plan[i]
      BY <1>11, <2>8, <2>9, <2>10, <2>12
    <2>14. NoClaim \notin Range(plan) /\ past \in 0 .. N
      BY <2>5, <2>6, <2>12
    <2> QED  BY <1>10, <2>4, <2>11, <2>13, <2>14 DEF Planned
  <1> QED  BY <1>1, <1>7, <1>8, <1>10, <1>13, <1>14, GoesKeeps DEF Commands, s

LEMMA SyncWritesKeeps ==
    ASSUME WorktreesInv, NEW p \in Shells, SyncWrites(p)
    PROVE  WorktreesInv'
  <1>1. shell[p] # Idle /\ shell[p].step = "write"
    BY IdleIs DEF SyncWrites
  <1>2. CASE shell[p].listed = <<>>
    BY <1>1, <1>2, SyncedKeeps DEF SyncWrites
  <1>3. CASE shell[p].listed # <<>> /\ Head(shell[p].listed) \notin DOMAIN wt.linked
    BY <1>1, <1>3, EndKeeps, SameIsNoMore DEF SyncWrites
  <1>4. CASE shell[p].listed # <<>> /\ Head(shell[p].listed) \in DOMAIN wt.linked
    BY <1>1, <1>4, SyncWroteKeeps DEF SyncWrites
  <1> QED  BY <1>2, <1>3, <1>4

(* Other hands *)

LEMMA HandsKeep ==
    ASSUME WorktreesInv, ToolAdds \/ FileLost \/ FileCopied \/ ServerStarts
    PROVE  WorktreesInv'
  <1>1. RepoTyped(wt) /\ \A path \in DOMAIN wt.linked : wt.linked[path] \in Worktree
    BY DEF WorktreesInv, RepoTyped
  <1>2. CASE ToolAdds
    <2>1. PICK path \in Range(Paths), branch \in Branches :
            path \notin DOMAIN wt.linked /\ Hand(Added(wt, path, branch))
      BY <1>2 DEF ToolAdds
    <2> DEFINE w == Added(wt, path, branch)
    <2>2. RepoTyped(w) /\ NoMore(w) /\ w.raced = wt.raced
      BY <1>1, <2>1, AddedIs
    <2>3. Hand(w)
      BY <2>1
    <2> HIDE DEF w
    <2> QED  BY <2>2, <2>3, HandKeeps
  <1>3. CASE FileLost
    <2>1. PICK path \in DOMAIN wt.linked : Hand(Claimed(wt, path, NoClaim, NoClaim))
      BY <1>3 DEF FileLost
    <2> DEFINE w == Claimed(wt, path, NoClaim, NoClaim)
    <2>2. /\ RepoTyped(w) /\ w.raced = wt.raced /\ DOMAIN w.linked = DOMAIN wt.linked
          /\ w.linked[path].offset = NoClaim
          /\ \A other \in DOMAIN wt.linked \ {path} : w.linked[other] = wt.linked[other]
      BY <1>1, ClaimedIs DEF Claimable
    <2>3. Hand(w)
      BY <2>1
    <2> HIDE DEF w
    <2>4. NoMore(w)
      BY <2>2 DEF NoMore
    <2> QED  BY <2>2, <2>3, <2>4, HandKeeps
  <1>4. CASE FileCopied
    <2>1. PICK from \in DOMAIN wt.linked, to \in DOMAIN wt.linked :
            Hand([Claimed(wt, to, wt.linked[from].name, wt.linked[from].offset)
                    EXCEPT !.raced = TRUE])
      BY <1>4 DEF FileCopied
    <2> DEFINE name == wt.linked[from].name
               offset == wt.linked[from].offset
               u == Claimed(wt, to, name, offset)
               w == [u EXCEPT !.raced = TRUE]
    <2>2. name \in Range(Paths) \cup {NoClaim} /\ offset \in Claimable
      BY <1>1 DEF Worktree
    <2> HIDE DEF name, offset
    <2>3. RepoTyped(u)
      BY <1>1, <2>2, ClaimedIs
    <2> HIDE DEF u
    <2>6. w = [linked |-> u.linked, branches |-> u.branches, servers |-> u.servers,
               raced |-> TRUE]
      <3>1. u = [linked |-> u.linked, branches |-> u.branches, servers |-> u.servers,
                 raced |-> u.raced]
        BY <2>3 DEF RepoTyped
      <3>2. w = [u EXCEPT !.raced = TRUE]
        OBVIOUS
      <3> HIDE DEF w
      <3> QED  BY <3>1, <3>2
    <2>4. RepoTyped(w) /\ w.raced
      <3> HIDE DEF w
      <3> QED  BY <2>3, <2>6 DEF RepoTyped
    <2>5. Hand(w)
      BY <2>1 DEF name, offset, u
    <2> HIDE DEF w
    <2> QED  BY <2>4, <2>5, HandKeeps
  <1>5. CASE ServerStarts
    <2>1. PICK path \in DOMAIN wt.linked, offset \in Offsets \cup {0} :
            Hand([wt EXCEPT !.servers = @ \cup {[path |-> path, offset |-> offset]}])
      BY <1>1, <1>5 DEF ServerStarts, Worktree, Claimable
    <2> DEFINE servers == wt.servers \cup {[path |-> path, offset |-> offset]}
               w == [wt EXCEPT !.servers = servers]
    <2>2. servers \subseteq [path : Range(Paths), offset : Offsets \cup {0}]
      BY <1>1 DEF RepoTyped
    <2>3. Hand(w)
      BY <2>1
    <2> HIDE DEF servers
    <2>4. w = [linked |-> wt.linked, branches |-> wt.branches, servers |-> servers,
               raced |-> wt.raced]
      BY <1>1 DEF RepoTyped
    <2> HIDE DEF w
    <2>5. RepoTyped(w) /\ NoMore(w) /\ w.raced = wt.raced
      BY <1>1, <2>2, <2>4, AsideIs DEF RepoTyped
    <2> QED  BY <2>3, <2>5, HandKeeps
  <1> QED  BY <1>2, <1>3, <1>4, <1>5

LEMMA WorktreesStart == WorktreesInit => WorktreesInv
  <1> SUFFICES ASSUME WorktreesInit PROVE WorktreesInv
    OBVIOUS
  <1>1. /\ wt.linked = <<>> /\ wt.branches = {} /\ wt.servers = {} /\ wt.raced = FALSE
        /\ wt = [linked |-> wt.linked, branches |-> wt.branches, servers |-> wt.servers,
                 raced |-> wt.raced]
    BY DEF WorktreesInit
  <1>2. DOMAIN wt.linked = {} /\ wt.linked \in [{} -> Worktree]
    BY <1>1
  <1>3. RepoTyped(wt)
    BY <1>1, <1>2 DEF RepoTyped
  <1>4. Sticky(wt)
    BY <1>2 DEF Sticky
  <1>5. shell = [p \in Shells |-> Idle] /\ commands \in 0 .. MaxCommands
    BY WorktreesAssumption DEF WorktreesInit
  <1> QED  BY <1>3, <1>4, <1>5, IdleIs DEF WorktreesInv, OneCommand

LEMMA WorktreesKeep == WorktreesInv /\ [WorktreesNext]_worktreeVars => WorktreesInv'
  <1> SUFFICES ASSUME WorktreesInv, [WorktreesNext]_worktreeVars PROVE WorktreesInv'
    OBVIOUS
  <1>1. ASSUME NEW p \in Shells, CreateInstalls(p) \/ SyncEnds(p) \/ Interrupted(p)
        PROVE  WorktreesInv'
    <2>1. shell[p] # Idle /\ Goes(p, wt, Idle)
      BY <1>1, IdleIs DEF CreateInstalls, SyncEnds, Interrupted
    <2> QED  BY <2>1, EndKeeps, SameIsNoMore
  <1>2. CASE UNCHANGED worktreeVars
    BY <1>2 DEF worktreeVars, WorktreesInv, OneCommand
  <1> QED
    BY <1>1, <1>2, CreateBegunKeeps, CreateAddsKeeps, CreateClaimsKeeps, RemoveBegunKeeps,
       RemoveKeeps, SyncBegunKeeps, SyncWritesKeeps, HandsKeep DEF WorktreesNext

(* What the invariant comes to *)

LEMMA WorktreesTyped == WorktreesInv => WorktreesTypeOK
  <1> SUFFICES ASSUME WorktreesInv PROVE WorktreesTypeOK
    OBVIOUS
  <1>1. RepoTyped(wt) /\ commands \in 0 .. MaxCommands
    BY DEF WorktreesInv
  <1>2. \A path \in DOMAIN wt.linked : wt.linked[path] \in Worktree
    BY <1>1 DEF RepoTyped
  <1>3. Offsets \subseteq (Claimable \ {NoClaim}) \cup {0}
    BY OffsetsAre DEF Claimable
  <1>4. wt.servers \subseteq [path : Range(Paths), offset : (Claimable \ {NoClaim}) \cup {0}]
    BY <1>1, <1>3 DEF RepoTyped
  <1>5. \A p \in Shells : shell[p].step \in {"idle", "add", "claim", "install", "kill",
                                             "remove", "branch", "write", "synced"}
    <2>1. \A p \in Shells : shell[p] \in Commands \cup {Idle}
      BY DEF WorktreesInv
    <2>2. \A s \in Commands : s.step \in {"add", "claim", "install", "kill", "remove",
                                          "branch", "write", "synced"}
      BY DEF Commands, CreateCommands, RemoveCommands, SyncCommands
    <2> QED  BY <2>1, <2>2, IdleIs
  <1> QED  BY <1>1, <1>2, <1>4, <1>5 DEF WorktreesTypeOK, Worktree, Claimable, RepoTyped

LEMMA SyncsRepair == WorktreesInv => SyncRepairs
  <1> SUFFICES ASSUME WorktreesInv, NEW p \in Shells, shell[p].step = "synced", shell[p].alone
               PROVE  LET offsets == [i \in DOMAIN Listed(wt) |->
                                        wt.linked[Listed(wt)[i]].offset]
                          found == shell[p].found
                      IN /\ NoClaim \notin Range(offsets)
                         /\ Apart(offsets)
                         /\ \A i \in DOMAIN found :
                              (found[i] # NoClaim /\ \A j \in 1 .. i - 1 : found[j] # found[i])
                                => offsets[i] = found[i]
    BY DEF SyncRepairs
  <1> DEFINE list == Listed(wt)
             offsets == [i \in DOMAIN list |-> wt.linked[list[i]].offset]
             found == shell[p].found
             plan == PlanSyncOffsets(found)
             N == Len(list)
  <1>1. shell[p] \in SyncCommands /\ shell[p] # Idle
    BY StepTells
  <1>2. N \in Nat /\ DOMAIN list = 1 .. N
    BY ListedHere DEF WorktreesInv
  <1>3. found \in Seq(Claimable)
    BY <1>1 DEF SyncCommands
  <1>4. Planned(wt, shell[p])
    BY <1>1 DEF WorktreesInv
  <1>5. /\ Len(found) = N /\ NoClaim \notin Range(plan)
        /\ N - Len(shell[p].plan) = N
        /\ \A i \in 1 .. N - Len(shell[p].plan) : wt.linked[list[i]].offset = plan[i]
    BY <1>4 DEF Planned
  <1>6. /\ plan \in Seq(Offsets) /\ Len(plan) = Len(found)
        /\ \A i, j \in 1 .. Len(found) : plan[i] = plan[j] => i = j
        /\ \A i \in 1 .. Len(found) :
             found[i] # NoClaim /\ (\A j \in 1 .. i - 1 : found[j] # found[i])
               => plan[i] = found[i]
    <2> HIDE DEF found
    <2> QED  BY <1>3, <1>5, PlanIs
  <1>7. /\ offsets = [i \in 1 .. N |-> plan[i]] /\ DOMAIN found = 1 .. N
        /\ \A i \in 1 .. N : plan[i] \in Offsets
    <2>1. DOMAIN found = 1 .. N /\ \A i \in 1 .. N : plan[i] \in Offsets
      <3> HIDE DEF found, plan, N
      <3> QED  BY <1>2, <1>3, <1>5, <1>6
    <2>2. \A i \in 1 .. N : wt.linked[list[i]].offset = plan[i]
      BY <1>5
    <2> HIDE DEF found, plan, N, list
    <2>3. offsets = [i \in 1 .. N |-> plan[i]]
      BY <1>2, <2>2
    <2> QED  BY <2>1, <2>3
  <1> HIDE DEF offsets, list, found, plan, N
  <1>8. NoClaim \notin Range(offsets)
    BY <1>7, OffsetsAre DEF Range
  <1>9. Apart(offsets)
    BY <1>5, <1>6, <1>7, OffsetsAre DEF Apart
  <1>10. \A i \in DOMAIN found :
           (found[i] # NoClaim /\ \A j \in 1 .. i - 1 : found[j] # found[i])
             => offsets[i] = found[i]
    BY <1>5, <1>6, <1>7
  <1> QED  BY <1>8, <1>9, <1>10 DEF offsets, list, found

\* Only a remove takes servers down.
LEMMA ServersStay ==
    ASSUME WorktreesInv, [WorktreesNext]_worktreeVars, \A p \in Shells : ~RemoveKills(p)
    PROVE  wt.servers \subseteq wt'.servers
  <1>1. RepoTyped(wt) /\ \A path \in DOMAIN wt.linked : wt.linked[path] \in Worktree
    BY DEF WorktreesInv, RepoTyped
  <1> DEFINE Same(w) == w.servers = wt.servers
  <1>2. ASSUME NEW p \in Shells, NEW command, Start(p, command) PROVE Same(wt')
    <2> DEFINE raced == \E q \in Shells : shell[q] # Idle
    <2>1. wt' = [wt EXCEPT !.raced = @ \/ raced]
      BY <1>2 DEF Start
    <2> HIDE DEF raced
    <2> QED  BY <1>1, <2>1 DEF RepoTyped
  <1>3. ASSUME NEW p \in Shells, CreateBegun(p) \/ RemoveBegun(p) \/ SyncBegun(p)
        PROVE  Same(wt')
    BY <1>2, <1>3 DEF CreateBegun, RemoveBegun, SyncBegun
  <1>4. ASSUME NEW p \in Shells, CreateAdds(p) PROVE Same(wt')
    <2>1. shell[p] \in CreateCommands
      BY <1>4, StepTells DEF CreateAdds
    <2>2. shell[p].path \in Range(Paths) /\ shell[p].branch \in Branches
      BY <2>1 DEF CreateCommands
    <2> QED  BY <1>1, <1>4, <2>2, AddedIs DEF CreateAdds, Goes
  <1>5. ASSUME NEW p \in Shells, CreateClaims(p) PROVE Same(wt')
    <2> DEFINE offset == AllocateOffset(shell[p].claimed)
               path == shell[p].path
    <2>1. shell[p] \in CreateCommands
      BY <1>5, StepTells DEF CreateClaims
    <2>2. offset \in Claimable
      BY AllocatedIs DEF Claimable
    <2>3. path \in Range(Paths) \cup {NoClaim}
      BY <2>1 DEF CreateCommands
    <2>4. wt' = wt \/ (path \in DOMAIN wt.linked /\ wt' = Claimed(wt, path, path, offset))
      BY <1>5 DEF CreateClaims, Goes
    <2> HIDE DEF offset, path
    <2> QED  BY <1>1, <2>2, <2>3, <2>4, ClaimedIs
  <1>6. ASSUME NEW p \in Shells, RemoveRemoves(p) PROVE Same(wt')
    BY <1>1, <1>6, RemovedIs DEF RemoveRemoves, Goes
  <1>7. ASSUME NEW p \in Shells, RemoveBranch(p) PROVE Same(wt')
    BY <1>1, <1>7 DEF RemoveBranch, Goes, RepoTyped
  <1>8. ASSUME NEW p \in Shells, SyncWrites(p) PROVE Same(wt')
    <2> DEFINE s == shell[p]
               path == Head(s.listed)
               name == Head(s.names)
               offset == Head(s.plan)
               raced == wt.raced /\ ~s.alone
    <2>1. s \in SyncCommands
      BY <1>8, StepTells DEF SyncWrites
    <2>2. s.listed # <<>> => name \in Range(Paths) \cup {NoClaim} /\ offset \in Claimable
      <3>1. s.names \in Seq(Range(Paths)) /\ s.plan \in Seq(Offsets) /\ s.listed \in Seq(Range(Paths))
            /\ Len(s.plan) = Len(s.listed) /\ Len(s.names) = Len(s.listed)
        BY <2>1 DEF SyncCommands
      <3> HIDE DEF s
      <3> QED  BY <3>1 DEF Claimable
    <2>3. \/ wt' = wt \/ wt' = [wt EXCEPT !.raced = raced]
          \/ s.listed # <<>> /\ path \in DOMAIN wt.linked /\ wt' = Claimed(wt, path, name, offset)
      BY <1>8 DEF SyncWrites, Goes
    <2> HIDE DEF s, path, name, offset, raced
    <2>4. wt' = [wt EXCEPT !.raced = raced] => Same(wt')
      BY <1>1 DEF RepoTyped
    <2> QED  BY <1>1, <2>2, <2>3, <2>4, ClaimedIs
  <1>9. ASSUME NEW p \in Shells, CreateInstalls(p) \/ SyncEnds(p) \/ Interrupted(p)
        PROVE  Same(wt')
    BY <1>9 DEF CreateInstalls, SyncEnds, Interrupted, Goes
  <1>10. ASSUME ToolAdds \/ FileLost PROVE Same(wt')
    BY <1>1, <1>10, AddedIs, ClaimedIs DEF ToolAdds, FileLost, Hand, Claimable
  <1>11. ASSUME FileCopied PROVE Same(wt')
    <2>1. PICK from \in DOMAIN wt.linked, to \in DOMAIN wt.linked :
            wt' = [Claimed(wt, to, wt.linked[from].name, wt.linked[from].offset)
                     EXCEPT !.raced = TRUE]
      BY <1>11 DEF FileCopied, Hand
    <2> DEFINE name == wt.linked[from].name
               offset == wt.linked[from].offset
               u == Claimed(wt, to, name, offset)
    <2>2. name \in Range(Paths) \cup {NoClaim} /\ offset \in Claimable
      BY <1>1 DEF Worktree
    <2> HIDE DEF name, offset
    <2>3. RepoTyped(u) /\ Same(u)
      BY <1>1, <2>2, ClaimedIs
    <2>4. wt' = [u EXCEPT !.raced = TRUE]
      BY <2>1 DEF name, offset
    <2> HIDE DEF u
    <2> QED  BY <2>3, <2>4 DEF RepoTyped
  <1>12. ASSUME ServerStarts PROVE wt.servers \subseteq wt'.servers
    <2>1. PICK server : wt' = [wt EXCEPT !.servers = @ \cup {server}]
      BY <1>12 DEF ServerStarts, Hand
    <2> QED  BY <1>1, <2>1 DEF RepoTyped
  <1>13. UNCHANGED worktreeVars => Same(wt')
    BY DEF worktreeVars
  <1> QED
    BY <1>3, <1>4, <1>5, <1>6, <1>7, <1>8, <1>9, <1>10, <1>11, <1>12, <1>13 DEF WorktreesNext

LEMMA ClaimsStayApart ==
    ASSUME WorktreesInv, WorktreesInv', [WorktreesNext]_worktreeVars
    PROVE  /\ ~wt'.raced =>
                LET claimed == {path \in DOMAIN wt'.linked : wt'.linked[path].offset # NoClaim}
                IN /\ Apart([path \in claimed |-> wt'.linked[path].offset])
                   /\ \A path \in claimed :
                        PortsForOffset(wt'.linked[path].offset) \cap PortBases = {}
           /\ ~wt.raced =>
                \A server \in wt.servers \ wt'.servers :
                    \/ \E p \in Shells : shell[p].step = "kill" /\ shell[p].path = server.path
                    \/ server.path \notin DOMAIN wt.linked
                    \/ server.offset # wt.linked[server.path].offset
  <1> DEFINE claimed == {path \in DOMAIN wt'.linked : wt'.linked[path].offset # NoClaim}
             offsets == [path \in claimed |-> wt'.linked[path].offset]
  <1>1. ASSUME ~wt'.raced
        PROVE  /\ Apart(offsets)
               /\ \A path \in claimed :
                    PortsForOffset(wt'.linked[path].offset) \cap PortBases = {}
    <2>1. \A path \in DOMAIN wt'.linked : wt'.linked[path] \in Worktree
      BY DEF WorktreesInv, RepoTyped
    <2>2. \A path, other \in claimed :
            wt'.linked[path].offset = wt'.linked[other].offset => path = other
      BY <1>1 DEF WorktreesInv, Sticky
    <2>3. \A path \in claimed : wt'.linked[path].offset \in Offsets
      BY <2>1 DEF Worktree, Claimable
    <2>4. /\ DOMAIN offsets = claimed
          /\ \A path \in claimed : offsets[path] = wt'.linked[path].offset
      OBVIOUS
    <2> HIDE DEF claimed, offsets
    <2>5. Apart(offsets)
      BY <2>2, <2>3, <2>4, OffsetsAre DEF Apart
    <2>6. PortsForOffset(0) = PortBases
      BY DEF PortsForOffset, PortBases
    <2>7. \A path \in claimed : PortsForOffset(wt'.linked[path].offset) \cap PortsForOffset(0) = {}
      BY <2>3, OffsetsAre
    <2> QED  BY <2>5, <2>6, <2>7
  <1>2. ASSUME ~wt.raced, NEW server \in wt.servers \ wt'.servers,
               server.path \in DOMAIN wt.linked,
               server.offset = wt.linked[server.path].offset
        PROVE  \E p \in Shells : shell[p].step = "kill" /\ shell[p].path = server.path
    <2>1. PICK p \in Shells : RemoveKills(p)
      BY <1>2, ServersStay
    <2> DEFINE s == shell[p]
    <2>2. s \in RemoveCommands /\ s.step = "kill"
      BY <2>1, StepTells DEF RemoveKills
    <2>3. Reliable(wt, s)
      BY <1>2 DEF WorktreesInv
    <2>4. RepoTyped(wt) /\ server \in [path : Range(Paths), offset : Offsets \cup {0}]
      BY <1>2 DEF WorktreesInv, RepoTyped
    <2>5. wt' = (IF s.offset = NoClaim THEN wt ELSE KillPorts(wt, s.offset))
      BY <2>1 DEF RemoveKills, Goes
    <2> HIDE DEF s
    <2>6. s.offset # NoClaim /\ PortsForOffset(server.offset) \cap PortsForOffset(s.offset) # {}
      BY <1>2, <2>4, <2>5 DEF KillPorts, RepoTyped
    <2>7. s.offset \in Offsets
      BY <2>2, <2>6 DEF RemoveCommands, Claimable
    <2>8. server.offset = s.offset
      BY <2>4, <2>6, <2>7, OffsetsAre
    <2>9. server.path = s.path
      BY <1>2, <2>2, <2>3, <2>6, <2>8 DEF Reliable
    <2> QED  BY <2>2, <2>9 DEF s
  <1> QED  BY <1>1, <1>2

\* As long as no two commands overlap and no claim is copied, and after every sync
\* nobody disturbed, worktrees and the primary bind different ports, and a remove
\* takes down no server of another; a sync gives everyone ports of its own and moves
\* no claim but the later of two that clash.
THEOREM ClaimsAreHonest == WorktreesSpec => ClaimsHonest
  <1>1. WorktreesInit => WorktreesInv
    BY WorktreesStart
  <1>2. WorktreesInv /\ [WorktreesNext]_worktreeVars => WorktreesInv'
    BY WorktreesKeep
  <1>3. WorktreesInv => WorktreesTypeOK /\ SyncRepairs
    BY WorktreesTyped, SyncsRepair
  <1> DEFINE Step ==
        /\ ~wt'.raced =>
             LET claimed == {path \in DOMAIN wt'.linked : wt'.linked[path].offset # NoClaim}
             IN /\ Apart([path \in claimed |-> wt'.linked[path].offset])
                /\ \A path \in claimed :
                     PortsForOffset(wt'.linked[path].offset) \cap PortBases = {}
        /\ ~wt.raced =>
             \A server \in wt.servers \ wt'.servers :
                 \/ \E p \in Shells : shell[p].step = "kill" /\ shell[p].path = server.path
                 \/ server.path \notin DOMAIN wt.linked
                 \/ server.offset # wt.linked[server.path].offset
  <1>4. WorktreesInv /\ WorktreesInv' /\ [WorktreesNext]_worktreeVars => Step
    BY ClaimsStayApart
  <1>5. ClaimsApart <=> [][Step]_worktreeVars
    BY DEF ClaimsApart
  <1> HIDE DEF Step
  <1> QED  BY <1>1, <1>2, <1>3, <1>4, <1>5, PTL DEF WorktreesSpec, ClaimsHonest

-----------------------------------------------------------------------------
(* The stream *)

StreamFields == {"kind", "autoScroll", "mounted", "pending", "entryCount", "done",
                 "stickToBottom", "canceled", "drawn", "shown", "state", "said", "top",
                 "scrolled", "away", "next", "loops", "told", "queue", "gliding"}

USE DEF StreamFields

\* One page differs from another in nothing but some of its fields.
Alike(v, w, fields) ==
    /\ DOMAIN v = StreamFields
    /\ \A field \in StreamFields \ fields : v[field] = w[field]

RenderCallbacks == {"announceStart", "flush", "step"}

QueueTyped(q) ==
    /\ q = [callbacks |-> q.callbacks, frame |-> q.frame, requested |-> q.requested]
    /\ q.callbacks \in Seq(RenderCallbacks)
    /\ IsInjective(q.callbacks)

\* Whoever waits, waits for a frame the browser owes.
FrameOwed(q) == q.frame \in {None} \cup q.requested

PageTyped(w) ==
    /\ DOMAIN w = StreamFields
    /\ w.kind \in Kinds
    /\ w.autoScroll \in BOOLEAN /\ w.mounted \in BOOLEAN /\ w.done \in BOOLEAN
    /\ w.stickToBottom \in BOOLEAN /\ w.canceled \in BOOLEAN /\ w.scrolled \in BOOLEAN
    /\ w.away \in BOOLEAN /\ w.gliding \in BOOLEAN
    /\ w.pending \in Seq(1 .. Feed) /\ w.drawn \in Seq(1 .. Feed)
    /\ w.entryCount \in 0 .. Feed /\ w.next = w.entryCount + 1
    /\ w.shown \in 0 .. w.entryCount
    /\ w.state \in {"streaming", "done"}
    /\ w.loops \in Seq({"reading", "stopped", "done"})
    /\ w.top \in 0 .. Height(w)
    /\ QueueTyped(w.queue)

Numbers(n) == [i \in 1 .. n |-> i]

\* What is drawn and what waits, and what was said: as long as the beginning is
\* yet to be announced it has not been, and before the end nobody has announced it.
InOrder(w, yet) ==
    ~w.canceled =>
        /\ w.drawn \o w.pending = Numbers(w.entryCount)
        /\ w.said \in {<<>>, <<"start">>, <<"complete">>, <<"start", "complete">>}
        /\ ~w.done => w.said \in {<<>>, <<"start">>}
        /\ yet => w.said \in {<<>>, <<"complete">>}
        /\ w.mounted => Len(w.loops) = 1 /\ (w.loops[1] = "reading" => ~w.done)
        /\ ~w.mounted => /\ w.loops = <<>> /\ w.drawn = <<>> /\ w.pending = <<>>
                         /\ w.said = <<>> /\ ~w.done /\ ~yet

\* A reader who is away is not followed, or a scroll event has yet to say so.
ReaderAway(w) ==
    w.mounted /\ w.away =>
        /\ w.top + ViewportHeight + StickToBottomSlack < Height(w)
        /\ ~w.scrolled => ~w.stickToBottom

PageSound(w, yet) == PageTyped(w) /\ InOrder(w, yet) /\ ReaderAway(w)

StreamInv ==
    /\ PageSound(stream, Contains(stream.queue.callbacks, "announceStart"))
    /\ FrameOwed(stream.queue)
    /\ used \in 0 .. MaxUser

(* The queue of renders *)

LEMMA WithoutIs ==
    ASSUME NEW s \in Seq(RenderCallbacks), IsInjective(s), NEW callback
    PROVE  LET rest == Without(s, callback)
           IN  /\ rest \in Seq(RenderCallbacks) /\ IsInjective(rest)
               /\ \A other : Contains(rest, other) => Contains(s, other)
  <1> DEFINE at == CHOOSE i \in DOMAIN s : s[i] = callback
             rest == RemoveAt(s, at)
  <1>1. CASE ~Contains(s, callback)
    BY <1>1 DEF Without
  <1>2. CASE Contains(s, callback)
    <2>1. Without(s, callback) = rest
      BY <1>2 DEF Without
    <2>2. at \in 1 .. Len(s)
      BY <1>2 DEF Contains
    <2> HIDE DEF at
    <2>3. /\ rest \in Seq(RenderCallbacks) /\ Len(rest) = Len(s) - 1
          /\ \A i \in 1 .. Len(s) - 1 : rest[i] = IF i < at THEN s[i] ELSE s[i + 1]
      BY <2>2, RemoveAtIs
    <2>4. Len(s) \in Nat /\ DOMAIN s = 1 .. Len(s) /\ at \in Nat
      BY <2>2
    <2> HIDE DEF rest
    <2> DEFINE From(i) == IF i < at THEN i ELSE i + 1
    <2>5. \A i \in 1 .. Len(s) - 1 : From(i) \in 1 .. Len(s) /\ rest[i] = s[From(i)]
      BY <2>3, <2>4
    <2>6. \A i, j \in 1 .. Len(s) - 1 : From(i) = From(j) => i = j
      BY <2>4
    <2>7. DOMAIN rest = 1 .. Len(s) - 1 /\ Len(rest) = Len(s) - 1
      BY <2>3
    <2> HIDE DEF From
    <2>8. IsInjective(rest)
      BY <2>4, <2>5, <2>6, <2>7 DEF IsInjective
    <2>9. \A other : Contains(rest, other) => Contains(s, other)
      BY <2>5, <2>7 DEF Contains
    <2> QED  BY <2>1, <2>3, <2>8, <2>9
  <1> QED  BY <1>1, <1>2

LEMMA RequestedIs ==
    ASSUME NEW q, QueueTyped(q)
    PROVE  LET r == Requested(q)
           IN  QueueTyped(r) /\ FrameOwed(r) /\ r.callbacks = q.callbacks
  <1> DEFINE h == Fresh(q)
             owed == q.requested \cup {h}
             r == Requested(q)
  <1>1. r = [q EXCEPT !.frame = h, !.requested = owed]
    BY DEF Requested
  <1> HIDE DEF h, r
  <1>2. h \in owed
    OBVIOUS
  <1> HIDE DEF owed
  <1>3. r = [callbacks |-> q.callbacks, frame |-> h, requested |-> owed]
    BY <1>1 DEF QueueTyped
  <1>4. /\ r.callbacks = q.callbacks /\ r.frame = h /\ r.requested = owed
        /\ r = [callbacks |-> r.callbacks, frame |-> r.frame, requested |-> r.requested]
    BY <1>3
  <1>5. QueueTyped(r) /\ FrameOwed(r) /\ r.callbacks = q.callbacks
    BY <1>2, <1>4 DEF QueueTyped, FrameOwed
  <1> QED  BY <1>5 DEF r

LEMMA QueueRenderIs ==
    ASSUME NEW q, QueueTyped(q), NEW callback \in RenderCallbacks
    PROVE  LET r == QueueRender(q, callback)
           IN  /\ QueueTyped(r) /\ (FrameOwed(q) => FrameOwed(r))
               /\ \A other : Contains(r.callbacks, other)
                               <=> Contains(q.callbacks, other) \/ other = callback
  <1> DEFINE s == q.callbacks
             t == IF Contains(s, callback) THEN s ELSE Append(s, callback)
             u == [q EXCEPT !.callbacks = t]
  <1>1. /\ t \in Seq(RenderCallbacks) /\ IsInjective(t)
        /\ \A other : Contains(t, other) <=> Contains(s, other) \/ other = callback
    <2>1. s \in Seq(RenderCallbacks) /\ IsInjective(s)
      BY DEF QueueTyped
    <2> HIDE DEF s
    <2>2. CASE Contains(s, callback)
      BY <2>1, <2>2
    <2>3. CASE ~Contains(s, callback)
      <3>1. t = Append(s, callback)
        BY <2>3
      <3> HIDE DEF t
      <3>2. /\ t \in Seq(RenderCallbacks) /\ Len(t) = Len(s) + 1 /\ Len(s) \in Nat
            /\ DOMAIN t = 1 .. Len(s) + 1 /\ DOMAIN s = 1 .. Len(s)
            /\ t[Len(s) + 1] = callback /\ \A i \in 1 .. Len(s) : t[i] = s[i]
        BY <2>1, <3>1
      <3>3. \A i \in 1 .. Len(s) + 1 : i \in 1 .. Len(s) \/ i = Len(s) + 1
        BY <3>2
      <3>4. \A i \in 1 .. Len(s) : i \in 1 .. Len(s) + 1 /\ s[i] # callback
        BY <2>3, <3>2 DEF Contains
      <3>5. Len(s) + 1 \in 1 .. Len(s) + 1
        BY <3>2
      <3>6. IsInjective(t)
        BY <2>1, <3>2, <3>3, <3>4 DEF IsInjective
      <3>7. \A other : Contains(t, other) <=> Contains(s, other) \/ other = callback
        BY <3>2, <3>3, <3>4, <3>5 DEF Contains
      <3> QED  BY <3>2, <3>6, <3>7
    <2> QED  BY <2>2, <2>3
  <1>2. QueueRender(q, callback) = IF q.frame = None THEN Requested(u) ELSE u
    BY DEF QueueRender
  <1> HIDE DEF t, s
  <1>3. /\ u.callbacks = t /\ u.frame = q.frame /\ u.requested = q.requested
        /\ u = [callbacks |-> u.callbacks, frame |-> u.frame, requested |-> u.requested]
    BY DEF QueueTyped
  <1> HIDE DEF u
  <1>4. QueueTyped(u) /\ (FrameOwed(q) => FrameOwed(u))
    BY <1>1, <1>3 DEF QueueTyped, FrameOwed
  <1>5. QueueTyped(Requested(u)) /\ FrameOwed(Requested(u)) /\ Requested(u).callbacks = t
    BY <1>3, <1>4, RequestedIs
  <1> QED  BY <1>1, <1>2, <1>3, <1>4, <1>5 DEF s

LEMMA DequeueRenderIs ==
    ASSUME NEW q, QueueTyped(q), NEW callback
    PROVE  LET r == DequeueRender(q, callback)
           IN  /\ QueueTyped(r) /\ (FrameOwed(q) => FrameOwed(r))
               /\ \A other : Contains(r.callbacks, other) => Contains(q.callbacks, other)
  <1> DEFINE rest == Without(q.callbacks, callback)
             none == [callbacks |-> <<>>, frame |-> None,
                      requested |-> q.requested \ {q.frame}]
             u == [q EXCEPT !.callbacks = rest]
  <1>1. /\ rest \in Seq(RenderCallbacks) /\ IsInjective(rest)
        /\ \A other : Contains(rest, other) => Contains(q.callbacks, other)
    BY WithoutIs DEF QueueTyped
  <1>2. DequeueRender(q, callback) = IF rest = <<>> /\ q.frame # None THEN none ELSE u
    BY DEF DequeueRender
  <1> HIDE DEF rest
  <1>3. QueueTyped(none) /\ FrameOwed(none) /\ \A other : ~Contains(none.callbacks, other)
    BY DEF QueueTyped, FrameOwed, IsInjective, Contains
  <1>4. /\ u.callbacks = rest /\ u.frame = q.frame /\ u.requested = q.requested
        /\ u = [callbacks |-> u.callbacks, frame |-> u.frame, requested |-> u.requested]
    BY DEF QueueTyped
  <1> HIDE DEF u, none
  <1>5. QueueTyped(u) /\ (FrameOwed(q) => FrameOwed(u))
    BY <1>1, <1>4 DEF QueueTyped, FrameOwed
  <1> QED  BY <1>1, <1>2, <1>3, <1>4, <1>5

LEMMA FrameBegunIs ==
    ASSUME NEW q, QueueTyped(q), NEW h
    PROVE  QueueTyped(FrameBegun(q, h)) /\ \A x : ~Contains(FrameBegun(q, h).callbacks, x)
  <1> DEFINE r == FrameBegun(q, h)
             owed == q.requested \ {h}
  <1>1. r = [q EXCEPT !.callbacks = <<>>, !.requested = owed]
    BY DEF FrameBegun
  <1> HIDE DEF r, owed
  <1>2. r = [callbacks |-> <<>>, frame |-> q.frame, requested |-> owed]
    BY <1>1 DEF QueueTyped
  <1>3. r.callbacks = <<>>
        /\ r = [callbacks |-> r.callbacks, frame |-> r.frame, requested |-> r.requested]
    BY <1>2
  <1>4. QueueTyped(r) /\ \A x : ~Contains(r.callbacks, x)
    BY <1>3 DEF QueueTyped, IsInjective, Contains
  <1> QED  BY <1>4 DEF r

LEMMA FrameEndedIs ==
    ASSUME NEW q, QueueTyped(q)
    PROVE  /\ QueueTyped(FrameEnded(q)) /\ FrameOwed(FrameEnded(q))
           /\ FrameEnded(q).callbacks = q.callbacks
  <1> DEFINE r == [q EXCEPT !.frame = None]
  <1>1. FrameEnded(q) = IF q.callbacks # <<>> THEN Requested(q) ELSE r
    BY DEF FrameEnded
  <1>2. r.callbacks = q.callbacks /\ r.frame = None
        /\ r = [callbacks |-> r.callbacks, frame |-> r.frame, requested |-> r.requested]
    BY DEF QueueTyped
  <1> HIDE DEF r
  <1>3. QueueTyped(r) /\ FrameOwed(r)
    BY <1>2 DEF QueueTyped, FrameOwed
  <1> QED  BY <1>1, <1>2, <1>3, RequestedIs

(* What is done to the page *)

\* The neighbour, the wish to be drawn, what the host is told and whether the view
\* follows are nothing that a page's order depends on.
LEMMA AsideKeeps ==
    ASSUME NEW w, NEW yet, PageSound(w, yet), NEW v,
           Alike(v, w, {"queue", "gliding", "autoScroll", "told"}),
           v.gliding \in BOOLEAN, v.autoScroll \in BOOLEAN, QueueTyped(v.queue),
           NEW later \in BOOLEAN, later => yet
    PROVE  PageSound(v, later)
  <1>1. /\ v.kind = w.kind /\ v.mounted = w.mounted /\ v.pending = w.pending
        /\ v.entryCount = w.entryCount /\ v.done = w.done
        /\ v.stickToBottom = w.stickToBottom /\ v.canceled = w.canceled
        /\ v.drawn = w.drawn /\ v.shown = w.shown /\ v.state = w.state /\ v.said = w.said
        /\ v.top = w.top /\ v.scrolled = w.scrolled /\ v.away = w.away /\ v.next = w.next
        /\ v.loops = w.loops /\ DOMAIN v = StreamFields
    BY DEF Alike
  <1>2. Height(v) = Height(w)
    BY <1>1 DEF Height
  <1> QED  BY <1>1, <1>2 DEF PageSound, PageTyped, InOrder, ReaderAway

LEMMA WithRenderIs ==
    ASSUME NEW w, DOMAIN w = StreamFields, QueueTyped(w.queue),
           NEW callback \in RenderCallbacks
    PROVE  LET v == WithRender(w, callback)
           IN  /\ Alike(v, w, {"queue"}) /\ QueueTyped(v.queue)
               /\ FrameOwed(w.queue) => FrameOwed(v.queue)
               /\ \A other : Contains(v.queue.callbacks, other)
                               <=> Contains(w.queue.callbacks, other) \/ other = callback
  <1> DEFINE r == QueueRender(w.queue, callback)
             v == WithRender(w, callback)
  <1>1. v = [w EXCEPT !.queue = r]
    BY DEF WithRender
  <1>2. /\ QueueTyped(r) /\ (FrameOwed(w.queue) => FrameOwed(r))
        /\ \A other : Contains(r.callbacks, other)
                        <=> Contains(w.queue.callbacks, other) \/ other = callback
    BY QueueRenderIs
  <1> HIDE DEF r, v
  <1>3. v.queue = r /\ Alike(v, w, {"queue"})
    BY <1>1 DEF Alike
  <1> QED  BY <1>2, <1>3 DEF v

LEMMA HeightIs ==
    ASSUME NEW w, PageTyped(w)
    PROVE  /\ Height(w) = 30 * Len(w.drawn) + 10 /\ Height(w) \in Nat /\ Len(w.drawn) \in Nat
           /\ Bottom(w) \in 0 .. Height(w)
  <1>1. Len(w.drawn) \in Nat
    BY DEF PageTyped
  <1>2. Height(w) = 30 * Len(w.drawn) + 10
    BY <1>1 DEF Height, RowHeight, FooterHeight
  <1>3. Height(w) \in Nat
    BY <1>1, <1>2
  <1> HIDE DEF Height
  <1>4. Bottom(w) \in 0 .. Height(w)
    BY <1>3 DEF Bottom, ViewportHeight
  <1> QED  BY <1>1, <1>2, <1>3, <1>4

LEMMA HandleScrollKeeps ==
    ASSUME NEW w, NEW yet, PageSound(w, yet)
    PROVE  LET v == HandleScroll(w)
           IN  /\ PageSound(v, yet) /\ Alike(v, w, {"scrolled", "stickToBottom"})
               /\ v.mounted /\ v.away => ~v.stickToBottom
  <1> DEFINE follows == w.top + ViewportHeight + StickToBottomSlack >= Height(w)
             u == [w EXCEPT !.scrolled = FALSE, !.stickToBottom = follows]
  <1>1. /\ Height(w) \in Nat /\ w.top \in Nat
        /\ w.mounted /\ w.away =>
             w.top + ViewportHeight + StickToBottomSlack < Height(w) /\ (~w.scrolled => ~w.stickToBottom)
    BY HeightIs DEF PageSound, PageTyped, ReaderAway
  <1>2. follows \in BOOLEAN /\ (w.mounted /\ w.away => ~follows)
    BY <1>1 DEF ViewportHeight, StickToBottomSlack
  <1>3. HandleScroll(w) = IF ~w.scrolled THEN w ELSE u
    BY DEF HandleScroll
  <1>4. DOMAIN w = StreamFields /\ Alike(w, w, {"scrolled", "stickToBottom"})
    BY DEF PageSound, PageTyped, Alike
  <1> HIDE DEF follows
  <1>5. Alike(u, w, {"scrolled", "stickToBottom"}) /\ u.scrolled = FALSE
        /\ u.stickToBottom = follows
    BY <1>4 DEF Alike
  <1> HIDE DEF u
  <1>6. /\ u.kind = w.kind /\ u.mounted = w.mounted /\ u.pending = w.pending
        /\ u.entryCount = w.entryCount /\ u.done = w.done /\ u.canceled = w.canceled
        /\ u.drawn = w.drawn /\ u.shown = w.shown /\ u.state = w.state /\ u.said = w.said
        /\ u.top = w.top /\ u.away = w.away /\ u.next = w.next /\ u.loops = w.loops
        /\ u.queue = w.queue /\ u.gliding = w.gliding /\ u.autoScroll = w.autoScroll
        /\ DOMAIN u = StreamFields
    BY <1>5 DEF Alike
  <1>7. Height(u) = Height(w)
    BY <1>6 DEF Height
  <1>8. PageSound(u, yet)
    BY <1>1, <1>2, <1>5, <1>6, <1>7 DEF PageSound, PageTyped, InOrder, ReaderAway
  <1> QED  BY <1>1, <1>2, <1>3, <1>4, <1>5, <1>6, <1>8

LEMMA FlushKeeps ==
    ASSUME NEW w, NEW yet, PageSound(w, yet), w.mounted /\ w.away => ~w.stickToBottom
    PROVE  LET v == Flush(w)
           IN  /\ PageSound(v, yet)
               /\ Alike(v, w, {"drawn", "pending", "shown", "state", "top", "scrolled"})
               /\ w.away => v.top = w.top
  <1> DEFINE drawn == w.drawn \o w.pending
             state == IF w.done THEN "done" ELSE w.state
             grown == [w EXCEPT !.drawn = drawn, !.pending = <<>>, !.shown = w.entryCount,
                                !.state = state]
             bottom == Bottom(grown)
             scrolled == w.scrolled \/ bottom # w.top
             down == [grown EXCEPT !.top = bottom, !.scrolled = scrolled]
             changed == {"drawn", "pending", "shown", "state", "top", "scrolled"}
  <1>1. PageTyped(w)
    BY DEF PageSound
  <1>2. Flush(w) = IF ~w.mounted THEN w
                   ELSE IF w.autoScroll /\ w.stickToBottom THEN
                        [grown EXCEPT !.top = Bottom(grown),
                                      !.scrolled = grown.scrolled \/ Bottom(grown) # w.top]
                   ELSE grown
    BY DEF Flush
  <1>3. /\ drawn \in Seq(1 .. Feed) /\ Len(drawn) >= Len(w.drawn) /\ Len(w.drawn) \in Nat
        /\ Len(drawn) \in Nat
        /\ drawn \o <<>> = w.drawn \o w.pending
    BY <1>1 DEF PageTyped
  <1>4. state \in {"streaming", "done"}
    BY <1>1 DEF PageTyped
  <1> HIDE DEF drawn, state
  <1>5. /\ DOMAIN grown = StreamFields /\ grown.drawn = drawn /\ grown.pending = <<>>
        /\ grown.shown = w.entryCount /\ grown.state = state
        /\ \A field \in StreamFields \ {"drawn", "pending", "shown", "state"} :
             grown[field] = w[field]
    BY <1>1 DEF PageTyped
  <1> HIDE DEF grown
  <1>6. /\ grown.kind = w.kind /\ grown.mounted = w.mounted
        /\ grown.entryCount = w.entryCount /\ grown.done = w.done
        /\ grown.canceled = w.canceled /\ grown.said = w.said /\ grown.top = w.top
        /\ grown.away = w.away /\ grown.next = w.next /\ grown.loops = w.loops
        /\ grown.queue = w.queue /\ grown.gliding = w.gliding
        /\ grown.autoScroll = w.autoScroll /\ grown.scrolled = w.scrolled
        /\ grown.stickToBottom = w.stickToBottom
    BY <1>5
  <1>7. Height(grown) = 30 * Len(drawn) + 10 /\ Height(w) = 30 * Len(w.drawn) + 10
    BY <1>1, <1>3, <1>5, HeightIs DEF Height, RowHeight, FooterHeight
  <1>8. PageTyped(grown)
    BY <1>1, <1>3, <1>4, <1>5, <1>6, <1>7 DEF PageTyped
  <1>9. w.mounted => InOrder(grown, yet)
    BY <1>3, <1>5, <1>6 DEF PageSound, InOrder
  <1>10. w.mounted /\ w.away => w.top + ViewportHeight + StickToBottomSlack < Height(grown)
    BY <1>1, <1>3, <1>7 DEF PageSound, PageTyped, ReaderAway, ViewportHeight,
       StickToBottomSlack
  <1>11. bottom \in 0 .. Height(grown)
    BY <1>8, HeightIs
  <1>12. scrolled \in BOOLEAN
    BY <1>1 DEF PageTyped
  <1>13. down = [grown EXCEPT !.top = Bottom(grown),
                              !.scrolled = grown.scrolled \/ Bottom(grown) # w.top]
    BY <1>6
  <1> HIDE DEF bottom, scrolled
  <1>14. /\ DOMAIN down = StreamFields /\ down.top = bottom /\ down.scrolled = scrolled
         /\ \A field \in StreamFields \ {"top", "scrolled"} : down[field] = grown[field]
    BY <1>5
  <1> HIDE DEF down
  <1>15. /\ down.kind = w.kind /\ down.mounted = w.mounted
         /\ down.entryCount = w.entryCount /\ down.done = w.done
         /\ down.canceled = w.canceled /\ down.said = w.said
         /\ down.away = w.away /\ down.next = w.next /\ down.loops = w.loops
         /\ down.queue = w.queue /\ down.gliding = w.gliding
         /\ down.autoScroll = w.autoScroll /\ down.drawn = drawn /\ down.pending = <<>>
         /\ down.shown = w.entryCount /\ down.state = state
         /\ down.stickToBottom = w.stickToBottom
    BY <1>5, <1>6, <1>14
  <1>16. Height(down) = Height(grown)
    BY <1>5, <1>15 DEF Height
  <1>17. PageTyped(down)
    BY <1>1, <1>3, <1>4, <1>11, <1>12, <1>14, <1>15, <1>16 DEF PageTyped
  <1>18. CASE ~w.mounted
    BY <1>1, <1>2, <1>18 DEF Alike, PageTyped
  <1>19. CASE w.mounted /\ w.autoScroll /\ w.stickToBottom
    <2>1. Flush(w) = down /\ ~w.away
      BY <1>2, <1>13, <1>19
    <2>2. InOrder(down, yet)
      BY <1>3, <1>15, <1>19 DEF PageSound, InOrder
    <2>3. ReaderAway(down)
      BY <1>15, <2>1 DEF ReaderAway
    <2>4. Alike(down, w, changed)
      BY <1>5, <1>14 DEF Alike
    <2> QED  BY <1>17, <2>1, <2>2, <2>3, <2>4 DEF PageSound
  <1>20. CASE w.mounted /\ ~(w.autoScroll /\ w.stickToBottom)
    <2>1. Flush(w) = grown
      BY <1>2, <1>20
    <2>2. ReaderAway(grown)
      BY <1>6, <1>10 DEF PageSound, ReaderAway
    <2>3. Alike(grown, w, changed)
      BY <1>5 DEF Alike
    <2> QED  BY <1>6, <1>8, <1>9, <1>20, <2>1, <2>2, <2>3 DEF PageSound
  <1> QED  BY <1>1, <1>18, <1>19, <1>20 DEF PageTyped

LEMMA AnnounceStartKeeps ==
    ASSUME NEW w, NEW yet \in BOOLEAN, PageSound(w, TRUE)
    PROVE  LET v == AnnounceStart(w)
           IN  PageSound(v, FALSE) /\ Alike(v, w, {"said"})
  <1> DEFINE said == Append(w.said, "start")
             u == [w EXCEPT !.said = said]
  <1>1. PageTyped(w) /\ InOrder(w, TRUE) /\ ReaderAway(w)
    BY DEF PageSound
  <1>2. AnnounceStart(w) = IF ~w.canceled /\ ~w.done /\ w.mounted THEN u ELSE w
    BY DEF AnnounceStart, Announced
  <1>3. CASE ~w.canceled /\ ~w.done /\ w.mounted
    <2>1. w.said = <<>>
      <3>1. <<"start">>[1] = "start" /\ <<"complete">>[1] = "complete"
        OBVIOUS
      <3>2. w.said \in {<<>>, <<"start">>} /\ w.said \in {<<>>, <<"complete">>}
        BY <1>1, <1>3 DEF InOrder
      <3> QED  BY <3>1, <3>2
    <2>2. said = <<"start">>
      BY <2>1
    <2> HIDE DEF said
    <2>3. Alike(u, w, {"said"}) /\ u.said = <<"start">>
      BY <1>1, <2>2 DEF Alike, PageTyped
    <2> HIDE DEF u
    <2>4. /\ u.kind = w.kind /\ u.mounted = w.mounted /\ u.pending = w.pending
          /\ u.entryCount = w.entryCount /\ u.done = w.done /\ u.canceled = w.canceled
          /\ u.drawn = w.drawn /\ u.shown = w.shown /\ u.state = w.state
          /\ u.top = w.top /\ u.away = w.away /\ u.next = w.next /\ u.loops = w.loops
          /\ u.queue = w.queue /\ u.gliding = w.gliding /\ u.autoScroll = w.autoScroll
          /\ u.scrolled = w.scrolled /\ u.stickToBottom = w.stickToBottom
          /\ DOMAIN u = StreamFields
      BY <2>3 DEF Alike
    <2>5. Height(u) = Height(w)
      BY <2>4 DEF Height
    <2>6. PageTyped(u)
      BY <1>1, <2>4, <2>5 DEF PageTyped
    <2>7. InOrder(u, FALSE)
      BY <1>1, <1>3, <2>3, <2>4 DEF InOrder
    <2>8. ReaderAway(u)
      BY <1>1, <2>4, <2>5 DEF ReaderAway
    <2> QED  BY <1>2, <1>3, <2>3, <2>6, <2>7, <2>8 DEF PageSound
  <1>4. CASE ~(~w.canceled /\ ~w.done /\ w.mounted)
    <2>1. InOrder(w, FALSE)
      BY <1>1 DEF InOrder
    <2>2. Alike(w, w, {"said"})
      BY <1>1 DEF Alike, PageTyped
    <2> QED  BY <1>1, <1>2, <1>4, <2>1, <2>2 DEF PageSound
  <1> QED  BY <1>3, <1>4

\* What the neighbour does to the page is to queue its step or to withdraw it.
LEMMA CancelIs ==
    ASSUME NEW w, PageTyped(w)
    PROVE  LET v == Cancel(w)
           IN  /\ Alike(v, w, {"queue", "gliding"}) /\ v.gliding \in BOOLEAN
               /\ QueueTyped(v.queue) /\ (FrameOwed(w.queue) => FrameOwed(v.queue))
               /\ \A other : Contains(v.queue.callbacks, other)
                               => Contains(w.queue.callbacks, other)
  <1> DEFINE r == DequeueRender(w.queue, "step")
             u == [w EXCEPT !.gliding = FALSE, !.queue = r]
  <1>1. /\ QueueTyped(r) /\ (FrameOwed(w.queue) => FrameOwed(r))
        /\ \A other : Contains(r.callbacks, other) => Contains(w.queue.callbacks, other)
    BY DequeueRenderIs DEF PageTyped
  <1>2. Cancel(w) = IF ~w.gliding THEN w ELSE u
    BY DEF Cancel
  <1>3. Alike(w, w, {"queue", "gliding"}) /\ w.gliding \in BOOLEAN /\ QueueTyped(w.queue)
    BY DEF PageTyped, Alike
  <1> HIDE DEF r
  <1>4. Alike(u, w, {"queue", "gliding"}) /\ u.gliding = FALSE /\ u.queue = r
    BY DEF PageTyped, Alike
  <1> HIDE DEF u
  <1> QED  BY <1>1, <1>2, <1>3, <1>4

LEMMA ScrollToIs ==
    ASSUME NEW w, PageTyped(w)
    PROVE  LET v == ScrollTo(w)
           IN  /\ Alike(v, w, {"queue", "gliding"}) /\ v.gliding \in BOOLEAN
               /\ QueueTyped(v.queue) /\ (FrameOwed(w.queue) => FrameOwed(v.queue))
               /\ \A other : Contains(v.queue.callbacks, other)
                               => Contains(w.queue.callbacks, other) \/ other = "step"
  <1> DEFINE u == [w EXCEPT !.gliding = TRUE]
             v == WithRender(u, "step")
  <1>1. ScrollTo(w) = IF w.gliding THEN w ELSE v
    BY DEF ScrollTo
  <1>2. /\ Alike(w, w, {"queue", "gliding"}) /\ w.gliding \in BOOLEAN
        /\ QueueTyped(w.queue) /\ DOMAIN w = StreamFields
    BY DEF PageTyped, Alike
  <1>3. Alike(u, w, {"gliding"}) /\ u.gliding = TRUE /\ u.queue = w.queue
        /\ DOMAIN u = StreamFields
    BY <1>2 DEF Alike
  <1> HIDE DEF u
  <1>4. /\ Alike(v, u, {"queue"}) /\ QueueTyped(v.queue)
        /\ FrameOwed(u.queue) => FrameOwed(v.queue)
        /\ \A other : Contains(v.queue.callbacks, other)
                        <=> Contains(u.queue.callbacks, other) \/ other = "step"
    BY <1>2, <1>3, WithRenderIs DEF RenderCallbacks
  <1> HIDE DEF v
  <1>5. Alike(v, w, {"queue", "gliding"}) /\ v.gliding = TRUE
    BY <1>3, <1>4 DEF Alike
  <1> QED  BY <1>1, <1>2, <1>3, <1>4, <1>5

LEMMA GlideStepIs ==
    ASSUME NEW w, PageTyped(w), NEW settled
    PROVE  LET v == GlideStep(w, settled)
           IN  /\ Alike(v, w, {"queue", "gliding"}) /\ v.gliding \in BOOLEAN
               /\ QueueTyped(v.queue)
               /\ \A other : Contains(v.queue.callbacks, other)
                               => Contains(w.queue.callbacks, other) \/ other = "step"
  <1>1. /\ Alike(w, w, {"queue", "gliding"}) /\ w.gliding \in BOOLEAN
        /\ QueueTyped(w.queue) /\ DOMAIN w = StreamFields
    BY DEF PageTyped, Alike
  <1> DEFINE v == WithRender(w, "step")
  <1>2. /\ Alike(v, w, {"queue"}) /\ QueueTyped(v.queue)
        /\ \A other : Contains(v.queue.callbacks, other)
                        <=> Contains(w.queue.callbacks, other) \/ other = "step"
    BY <1>1, WithRenderIs DEF RenderCallbacks
  <1>3. Alike(v, w, {"queue", "gliding"}) /\ v.gliding = w.gliding
    BY <1>2 DEF Alike
  <1>4. GlideStep(w, settled) = IF ~w.gliding THEN w ELSE IF settled THEN Cancel(w) ELSE v
    BY DEF GlideStep
  <1> HIDE DEF v
  <1> QED  BY <1>1, <1>2, <1>3, <1>4, CancelIs

\* In the middle of a frame a page is as sound as what is still to run lets it be,
\* nothing but the neighbour's step has been queued, and a reader who is away
\* is not being followed.
InFrame(v, begun, yet) ==
    /\ PageSound(v, yet)
    /\ \A callback : Contains(v.queue.callbacks, callback) => callback = "step"
    /\ v.told = begun.told /\ v.away = begun.away
    /\ v.away => v.top = begun.top
    /\ v.mounted /\ v.away => ~v.stickToBottom

LEMMA RanKeeps ==
    ASSUME NEW w, NEW begun, NEW yet \in BOOLEAN, InFrame(w, begun, yet),
           NEW callback \in RenderCallbacks, NEW settled,
           callback = "announceStart" => yet,
           NEW later \in BOOLEAN, later => yet /\ callback # "announceStart"
    PROVE  InFrame(Ran(w, callback, settled), begun, later)
  <1> DEFINE v == Ran(w, callback, settled)
  <1>1. PageSound(w, yet) /\ PageTyped(w)
    BY DEF InFrame, PageSound
  <1>2. CASE callback = "announceStart"
    <2>1. v = AnnounceStart(w) /\ yet = TRUE /\ later = FALSE
      BY <1>2 DEF Ran
    <2> HIDE DEF v
    <2>2. PageSound(v, FALSE) /\ Alike(v, w, {"said"})
      BY <1>1, <2>1, AnnounceStartKeeps
    <2>3. /\ v.queue = w.queue /\ v.told = w.told /\ v.away = w.away
          /\ v.canceled = w.canceled /\ v.top = w.top /\ v.mounted = w.mounted
          /\ v.stickToBottom = w.stickToBottom
      BY <2>2 DEF Alike
    <2>4. InFrame(v, begun, later)
      BY <2>1, <2>2, <2>3 DEF InFrame
    <2> QED  BY <2>4 DEF v
  <1>3. CASE callback = "flush"
    <2>1. v = Flush(w) /\ (w.mounted /\ w.away => ~w.stickToBottom)
      BY <1>3 DEF Ran, InFrame
    <2> HIDE DEF v
    <2>2. /\ PageSound(v, yet)
          /\ Alike(v, w, {"drawn", "pending", "shown", "state", "top", "scrolled"})
          /\ w.away => v.top = w.top
      BY <1>1, <2>1, FlushKeeps
    <2>3. /\ v.queue = w.queue /\ v.told = w.told /\ v.away = w.away
          /\ v.canceled = w.canceled /\ v.mounted = w.mounted
          /\ v.stickToBottom = w.stickToBottom
      BY <2>2 DEF Alike
    <2>4. PageSound(v, later)
      BY <2>2 DEF PageSound, InOrder
    <2>5. InFrame(v, begun, later)
      BY <2>1, <2>2, <2>3, <2>4 DEF InFrame
    <2> QED  BY <2>5 DEF v
  <1>4. CASE callback = "step"
    <2>1. v = GlideStep(w, settled)
      BY <1>4 DEF Ran
    <2> HIDE DEF v
    <2>2. /\ Alike(v, w, {"queue", "gliding"}) /\ v.gliding \in BOOLEAN
          /\ QueueTyped(v.queue)
          /\ \A other : Contains(v.queue.callbacks, other)
                          => Contains(w.queue.callbacks, other) \/ other = "step"
      BY <1>1, <2>1, GlideStepIs
    <2>3. /\ v.told = w.told /\ v.away = w.away
          /\ v.canceled = w.canceled /\ v.top = w.top /\ v.mounted = w.mounted
          /\ v.stickToBottom = w.stickToBottom /\ v.autoScroll = w.autoScroll
          /\ Alike(v, w, {"queue", "gliding", "autoScroll", "told"})
      BY <2>2 DEF Alike
    <2>4. v.autoScroll \in BOOLEAN
      BY <1>1, <2>3 DEF PageTyped
    <2>5. PageSound(v, later)
      BY <1>1, <2>2, <2>3, <2>4, AsideKeeps
    <2>6. InFrame(v, begun, later)
      BY <2>2, <2>3, <2>5 DEF InFrame
    <2> QED  BY <2>6 DEF v
  <1> QED  BY <1>2, <1>3, <1>4 DEF RenderCallbacks

\* A frame is a loop that begins with the page.
LEMMA FrameIsRun ==
    ASSUME NEW w, NEW h, NEW settled
    PROVE  LET begun == [HandleScroll(w) EXCEPT !.queue = FrameBegun(@, h)]
               callbacks == w.queue.callbacks
               run == RunOf(Framing(begun, callbacks, settled), Len(callbacks))
           IN  FrameRun(w, h, settled)
                 = [run[Len(callbacks)] EXCEPT !.queue = FrameEnded(@)]
  BY DEF FrameRun, RunOf, Begun, Grown, Framing

LEMMA FrameKeeps ==
    ASSUME NEW w, PageSound(w, Contains(w.queue.callbacks, "announceStart")),
           NEW h, NEW settled
    PROVE  LET v == FrameRun(w, h, settled)
           IN  /\ PageSound(v, Contains(v.queue.callbacks, "announceStart"))
               /\ FrameOwed(v.queue) /\ v.told = w.told /\ v.away = w.away
               /\ v.away => v.top = w.top
  <1> DEFINE u == HandleScroll(w)
             taken == FrameBegun(u.queue, h)
             begun == [u EXCEPT !.queue = taken]
             callbacks == w.queue.callbacks
             L == Len(callbacks)
             loop == Framing(begun, callbacks, settled)
             run == RunOf(loop, L)
             Yet(n) == \E j \in n + 1 .. L : callbacks[j] = "announceStart"
             T == {n \in 0 .. L : InFrame(run[n], begun, Yet(n))}
             last == run[L]
             ended == FrameEnded(last.queue)
             v == [last EXCEPT !.queue = ended]
  <1>1. callbacks \in Seq(RenderCallbacks) /\ IsInjective(callbacks)
    BY DEF PageSound, PageTyped, QueueTyped
  <1>2. L \in Nat /\ DOMAIN callbacks = 1 .. L
    BY <1>1
  <1>3. FrameRun(w, h, settled) = v
    BY FrameIsRun
  <1>4. /\ PageSound(u, Contains(callbacks, "announceStart"))
        /\ Alike(u, w, {"scrolled", "stickToBottom"})
        /\ u.mounted /\ u.away => ~u.stickToBottom
    BY HandleScrollKeeps
  <1> HIDE DEF u
  <1>5. /\ u.told = w.told /\ u.away = w.away /\ u.top = w.top /\ DOMAIN u = StreamFields
        /\ u.gliding \in BOOLEAN /\ u.autoScroll \in BOOLEAN /\ QueueTyped(u.queue)
    BY <1>4 DEF Alike, PageSound, PageTyped
  <1>6. QueueTyped(taken) /\ \A x : ~Contains(taken.callbacks, x)
    BY <1>5, FrameBegunIs
  <1> HIDE DEF taken
  <1>7. /\ Alike(begun, u, {"queue", "gliding", "autoScroll", "told"})
        /\ begun.queue = taken /\ begun.gliding = u.gliding
        /\ begun.autoScroll = u.autoScroll /\ begun.told = u.told /\ begun.away = u.away
        /\ begun.top = u.top /\ begun.mounted = u.mounted
        /\ begun.stickToBottom = u.stickToBottom
    BY <1>5 DEF Alike
  <1> HIDE DEF begun
  <1>8. run[0] = begun /\ \A n \in 1 .. L : run[n] = Ran(run[n - 1], callbacks[n], settled)
    BY <1>2, RunIs DEF Begun, Grown, Framing
  <1> HIDE DEF run, callbacks, L
  <1>9. Yet(0) <=> Contains(callbacks, "announceStart")
    BY DEF Contains, L
  <1> HIDE DEF Yet
  <1>10. \A n : Yet(n) \in BOOLEAN
    BY DEF Yet
  <1>11. PageSound(begun, Yet(0))
    BY <1>4, <1>5, <1>6, <1>7, <1>9, <1>10, AsideKeeps
  <1>12. 0 \in T
    BY <1>2, <1>4, <1>6, <1>7, <1>8, <1>11 DEF InFrame
  <1>13. ASSUME NEW n \in 1 .. L, n - 1 \in T PROVE n \in T
    <2>1. InFrame(run[n - 1], begun, Yet(n - 1)) /\ callbacks[n] \in RenderCallbacks
          /\ n \in 0 .. L
      BY <1>1, <1>2, <1>13 DEF L
    <2>2. callbacks[n] = "announceStart" => Yet(n - 1)
      BY <1>2 DEF Yet
    <2>3. Yet(n) => Yet(n - 1) /\ callbacks[n] # "announceStart"
      BY <1>1, <1>2 DEF Yet, IsInjective
    <2>4. InFrame(Ran(run[n - 1], callbacks[n], settled), begun, Yet(n))
      BY <1>10, <2>1, <2>2, <2>3, RanKeeps
    <2> QED  BY <1>8, <2>1, <2>4
  <1> HIDE DEF T
  <1>14. L \in T
    BY <1>2, <1>12, <1>13, Counting
  <1>15. InFrame(last, begun, Yet(L))
    BY <1>14 DEF T
  <1> HIDE DEF last
  <1>16. /\ PageSound(last, Yet(L)) /\ PageTyped(last) /\ QueueTyped(last.queue)
         /\ ~Contains(last.queue.callbacks, "announceStart")
         /\ last.told = begun.told /\ last.away = begun.away
         /\ last.away => last.top = begun.top
    BY <1>15 DEF InFrame, PageSound, PageTyped
  <1>17. /\ QueueTyped(ended) /\ FrameOwed(ended)
         /\ ended.callbacks = last.queue.callbacks
    BY <1>16, FrameEndedIs
  <1> HIDE DEF ended
  <1>18. /\ Alike(v, last, {"queue", "gliding", "autoScroll", "told"}) /\ v.queue = ended
         /\ v.gliding = last.gliding /\ v.autoScroll = last.autoScroll
         /\ v.told = last.told /\ v.away = last.away /\ v.top = last.top
         /\ last.gliding \in BOOLEAN /\ last.autoScroll \in BOOLEAN
    BY <1>16 DEF Alike, PageTyped
  <1> HIDE DEF v
  <1>19. Contains(v.queue.callbacks, "announceStart") = FALSE
    BY <1>16, <1>17, <1>18 DEF Contains
  <1>20. PageSound(v, FALSE)
    BY <1>10, <1>16, <1>17, <1>18, AsideKeeps
  <1> QED  BY <1>3, <1>5, <1>7, <1>16, <1>17, <1>18, <1>19, <1>20

(* The host and the user *)

LEMMA StreamCleanUpKeeps ==
    ASSUME NEW w, NEW yet, PageSound(w, yet), NEW any
    PROVE  LET v == CleanUp(w)
           IN  /\ PageSound(v, any)
               /\ Alike(v, w, {"canceled", "pending", "mounted", "scrolled"})
  <1> DEFINE v == CleanUp(w)
  <1>1. v = [w EXCEPT !.canceled = TRUE, !.pending = <<>>, !.mounted = FALSE, !.scrolled = FALSE]
    BY DEF CleanUp
  <1>2. PageTyped(w) /\ DOMAIN w = StreamFields
    BY DEF PageSound, PageTyped
  <1> HIDE DEF v
  <1>3. /\ Alike(v, w, {"canceled", "pending", "mounted", "scrolled"})
        /\ v.canceled = TRUE /\ v.pending = <<>> /\ v.mounted = FALSE /\ v.scrolled = FALSE
    BY <1>1, <1>2 DEF Alike
  <1>4. /\ v.kind = w.kind /\ v.entryCount = w.entryCount /\ v.done = w.done
        /\ v.drawn = w.drawn /\ v.shown = w.shown /\ v.state = w.state /\ v.said = w.said
        /\ v.top = w.top /\ v.away = w.away /\ v.next = w.next /\ v.loops = w.loops
        /\ v.queue = w.queue /\ v.gliding = w.gliding /\ v.autoScroll = w.autoScroll
        /\ v.stickToBottom = w.stickToBottom /\ DOMAIN v = StreamFields
    BY <1>3 DEF Alike
  <1>5. Height(v) = Height(w)
    BY <1>4 DEF Height
  <1>6. <<>> \in Seq(1 .. Feed)
    OBVIOUS
  <1>7. PageTyped(v)
    BY <1>2, <1>3, <1>4, <1>5, <1>6 DEF PageTyped
  <1>8. PageSound(v, any)
    BY <1>3, <1>7 DEF PageSound, InOrder, ReaderAway
  <1> QED  BY <1>3, <1>8 DEF v

LEMMA UserScrolledKeeps ==
    ASSUME NEW w, NEW yet, PageSound(w, yet), NEW top \in 0 .. Height(w)
    PROVE  LET v == UserScrolled(w, top)
           IN  PageSound(v, yet) /\ v.queue = w.queue /\ v.told = w.told
  <1> DEFINE v == UserScrolled(w, top)
             away == top + ViewportHeight + StickToBottomSlack < Height(w)
  <1>1. v = [w EXCEPT !.top = top, !.scrolled = TRUE, !.away = away]
    BY DEF UserScrolled
  <1>2. PageTyped(w) /\ DOMAIN w = StreamFields
    BY DEF PageSound, PageTyped
  <1>3. away \in BOOLEAN
    BY <1>2, HeightIs DEF ViewportHeight, StickToBottomSlack
  <1>4. away => top + ViewportHeight + StickToBottomSlack < Height(w)
    OBVIOUS
  <1> HIDE DEF v, away
  <1>5. /\ v.kind = w.kind /\ v.mounted = w.mounted /\ v.pending = w.pending
        /\ v.entryCount = w.entryCount /\ v.done = w.done /\ v.canceled = w.canceled
        /\ v.drawn = w.drawn /\ v.shown = w.shown /\ v.state = w.state /\ v.said = w.said
        /\ v.next = w.next /\ v.loops = w.loops /\ v.told = w.told
        /\ v.queue = w.queue /\ v.gliding = w.gliding /\ v.autoScroll = w.autoScroll
        /\ v.stickToBottom = w.stickToBottom /\ DOMAIN v = StreamFields
        /\ v.top = top /\ v.scrolled = TRUE /\ v.away = away
    BY <1>1, <1>2
  <1>6. Height(v) = Height(w)
    BY <1>5 DEF Height
  <1>7. PageSound(v, yet)
    BY <1>2, <1>3, <1>4, <1>5, <1>6 DEF PageSound, PageTyped, InOrder, ReaderAway
  <1> QED  BY <1>5, <1>7 DEF v

LEMMA RenderKeepsStream ==
    ASSUME NEW w, PageSound(w, Contains(w.queue.callbacks, "announceStart"))
    PROVE  LET v == Render(w)
           IN  /\ PageSound(v, Contains(v.queue.callbacks, "announceStart"))
               /\ FrameOwed(w.queue) => FrameOwed(v.queue)
               /\ v.told = w.told
  <1> DEFINE blank == [w EXCEPT !.mounted = TRUE, !.drawn = <<>>, !.shown = 0,
                                !.state = "streaming", !.said = <<>>, !.top = 0,
                                !.scrolled = FALSE, !.away = FALSE]
             queued == WithRender(blank, "announceStart")
             locked == blank.kind = "reader" /\ blank.loops # <<>>
             loops == Append(w.loops, IF locked THEN "stopped" ELSE "reading")
             v == [queued EXCEPT !.loops = loops]
  <1>1. PageTyped(w) /\ DOMAIN w = StreamFields
    BY DEF PageSound, PageTyped
  <1>2. /\ blank.kind = w.kind /\ blank.mounted = TRUE /\ blank.pending = w.pending
        /\ blank.entryCount = w.entryCount /\ blank.done = w.done
        /\ blank.canceled = w.canceled /\ blank.drawn = <<>> /\ blank.shown = 0
        /\ blank.state = "streaming" /\ blank.said = <<>> /\ blank.next = w.next
        /\ blank.loops = w.loops /\ blank.told = w.told /\ blank.queue = w.queue
        /\ blank.gliding = w.gliding /\ blank.autoScroll = w.autoScroll
        /\ blank.stickToBottom = w.stickToBottom /\ blank.top = 0
        /\ blank.scrolled = FALSE /\ blank.away = FALSE /\ DOMAIN blank = StreamFields
    BY <1>1
  <1>3. Render(w) = IF w.mounted THEN w ELSE StartConsuming(blank)
    BY DEF Render
  <1> HIDE DEF blank
  <1>4. /\ Alike(queued, blank, {"queue"}) /\ QueueTyped(queued.queue)
        /\ FrameOwed(blank.queue) => FrameOwed(queued.queue)
        /\ Contains(queued.queue.callbacks, "announceStart")
    BY <1>1, <1>2, WithRenderIs DEF PageTyped, RenderCallbacks
  <1> HIDE DEF queued
  <1>5. queued.loops = w.loops
    BY <1>2, <1>4 DEF Alike
  <1>6. StartConsuming(blank) = v
    BY <1>5 DEF StartConsuming, queued
  <1>7. /\ loops \in Seq({"reading", "stopped", "done"})
        /\ w.loops = <<>> => Len(loops) = 1
    BY <1>1 DEF PageTyped
  <1> HIDE DEF loops
  <1>8. /\ v.kind = w.kind /\ v.mounted = TRUE /\ v.pending = w.pending
        /\ v.entryCount = w.entryCount /\ v.done = w.done
        /\ v.canceled = w.canceled /\ v.drawn = <<>> /\ v.shown = 0
        /\ v.state = "streaming" /\ v.said = <<>> /\ v.next = w.next
        /\ v.loops = loops /\ v.told = w.told /\ v.queue = queued.queue
        /\ v.gliding = w.gliding /\ v.autoScroll = w.autoScroll
        /\ v.stickToBottom = w.stickToBottom /\ v.top = 0
        /\ v.scrolled = FALSE /\ v.away = FALSE /\ DOMAIN v = StreamFields
    BY <1>2, <1>4 DEF Alike
  <1> HIDE DEF v
  <1>9. Height(v) = 10
    BY <1>8 DEF Height, RowHeight, FooterHeight
  <1>10. PageTyped(v)
    <2>1. <<>> \in Seq(1 .. Feed) /\ 0 \in 0 .. 10
      OBVIOUS
    <2>2. w.entryCount \in 0 .. Feed /\ 0 \in 0 .. w.entryCount
      BY <1>1, FeedAssumption DEF PageTyped
    <2> QED  BY <1>1, <1>4, <1>7, <1>8, <1>9, <2>1, <2>2 DEF PageTyped
  <1>11. ~w.mounted => InOrder(v, TRUE)
    BY <1>7, <1>8 DEF PageSound, InOrder
  <1>12. ReaderAway(v)
    BY <1>8 DEF ReaderAway
  <1>13. Contains(v.queue.callbacks, "announceStart") = TRUE
    BY <1>4, <1>8 DEF Contains
  <1> QED  BY <1>2, <1>3, <1>4, <1>6, <1>8, <1>10, <1>11, <1>12, <1>13 DEF PageSound

(* The source *)

LEMMA StoppedKeeps ==
    ASSUME NEW w, NEW yet, PageSound(w, yet), NEW i \in DOMAIN w.loops
    PROVE  LET v == Stopped(w, i)
           IN  PageSound(v, yet) /\ Alike(v, w, {"loops"})
  <1> DEFINE loops == [w.loops EXCEPT ![i] = "stopped"]
             v == Stopped(w, i)
  <1>1. PageTyped(w) /\ DOMAIN w = StreamFields
    BY DEF PageSound, PageTyped
  <1>2. v = [w EXCEPT !.loops = loops]
    BY DEF Stopped
  <1>3. /\ loops \in Seq({"reading", "stopped", "done"}) /\ Len(loops) = Len(w.loops)
        /\ \A j \in DOMAIN w.loops : loops[j] = "reading" => w.loops[j] = "reading"
        /\ w.loops # <<>> /\ DOMAIN w.loops = 1 .. Len(w.loops)
    BY <1>1 DEF PageTyped
  <1> HIDE DEF v, loops
  <1>4. Alike(v, w, {"loops"}) /\ v.loops = loops
    BY <1>1, <1>2 DEF Alike
  <1>5. /\ v.kind = w.kind /\ v.mounted = w.mounted /\ v.pending = w.pending
        /\ v.entryCount = w.entryCount /\ v.done = w.done /\ v.canceled = w.canceled
        /\ v.drawn = w.drawn /\ v.shown = w.shown /\ v.state = w.state /\ v.said = w.said
        /\ v.top = w.top /\ v.away = w.away /\ v.next = w.next /\ v.told = w.told
        /\ v.queue = w.queue /\ v.gliding = w.gliding /\ v.autoScroll = w.autoScroll
        /\ v.scrolled = w.scrolled
        /\ v.stickToBottom = w.stickToBottom /\ DOMAIN v = StreamFields
    BY <1>4 DEF Alike
  <1>6. Height(v) = Height(w)
    BY <1>5 DEF Height
  <1>7. PageTyped(v) /\ ReaderAway(v)
    BY <1>1, <1>3, <1>4, <1>5, <1>6 DEF PageSound, PageTyped, ReaderAway
  <1>8. InOrder(v, yet)
    <2>1. ASSUME ~w.canceled PROVE w.mounted /\ Len(w.loops) = 1
      BY <1>1, <1>3, <2>1 DEF PageSound, PageTyped, InOrder
    <2>2. ~w.canceled => 1 \in DOMAIN w.loops
      BY <1>3, <2>1
    <2> QED  BY <1>3, <1>4, <1>5, <2>1, <2>2 DEF PageSound, InOrder
  <1> QED  BY <1>4, <1>7, <1>8 DEF PageSound, v

(* What the source answers *)

LEMMA ConcatAppend ==
    ASSUME NEW S, NEW s \in Seq(S), NEW t \in Seq(S), NEW e \in S
    PROVE  s \o Append(t, e) = Append(s \o t, e)
  <1> DEFINE a == s \o Append(t, e)
             b == Append(s \o t, e)
  <1>1. /\ Append(t, e) \in Seq(S) /\ Len(Append(t, e)) = Len(t) + 1
        /\ Append(t, e)[Len(t) + 1] = e
        /\ \A i \in 1 .. Len(t) : Append(t, e)[i] = t[i]
    BY AppendProperties
  <1>2. /\ s \o t \in Seq(S) /\ Len(s \o t) = Len(s) + Len(t)
        /\ Len(s) \in Nat /\ Len(t) \in Nat
    BY ConcatProperties
  <1>3. a \in Seq(S) /\ b \in Seq(S) /\ Len(a) = Len(b)
    BY <1>1, <1>2, ConcatProperties, AppendProperties
  <1>4. \A i \in 1 .. Len(a) : a[i] = b[i]
    BY <1>1, <1>2
  <1> QED  BY <1>3, <1>4, SeqEqual

LEMMA SecondAfterFirst ==
    ASSUME NEW S, NEW x \in S, NEW y \in S
    PROVE  Append(<<x>>, y) = <<x, y>>
  <1>1. <<x>> \in Seq(S) /\ Len(<<x>>) = 1 /\ <<x>>[1] = x
    OBVIOUS
  <1>2. <<x, y>> \in Seq(S) /\ Len(<<x, y>>) = 2 /\ <<x, y>>[1] = x /\ <<x, y>>[2] = y
    OBVIOUS
  <1> DEFINE a == Append(<<x>>, y)
             b == <<x, y>>
  <1>3. a \in Seq(S) /\ Len(a) = 2 /\ a[1] = x /\ a[2] = y
    BY <1>1, AppendProperties
  <1>4. \A i \in 1 .. 2 : i = 1 \/ i = 2
    OBVIOUS
  <1>5. b \in Seq(S) /\ Len(b) = 2 /\ b[1] = x /\ b[2] = y
    BY <1>2
  <1> HIDE DEF a, b
  <1>6. a = b
    BY <1>3, <1>4, <1>5, SeqEqual
  <1> QED  BY <1>6 DEF a, b
LEMMA ReceiveEntryKeeps ==
    ASSUME NEW w, PageSound(w, Contains(w.queue.callbacks, "announceStart")),
           w.next <= Feed, ~w.canceled, w.loops # <<>>
    PROVE  LET v == ReceiveEntry([w EXCEPT !.next = @ + 1], w.next)
           IN  /\ PageSound(v, Contains(v.queue.callbacks, "announceStart"))
               /\ FrameOwed(w.queue) => FrameOwed(v.queue)
               /\ v.top = w.top /\ v.away = w.away /\ v.loops = w.loops
  <1> DEFINE pending == Append(w.pending, w.next)
             told == Append(w.told, <<"entry", w.entryCount>>)
             u == [w EXCEPT !.next = @ + 1]
             received == [u EXCEPT !.entryCount = @ + 1, !.pending = pending, !.told = told]
             v == WithRender(received, "flush")
             yet == Contains(w.queue.callbacks, "announceStart")
  <1>1. PageTyped(w) /\ DOMAIN w = StreamFields /\ InOrder(w, yet) /\ ReaderAway(w)
    BY DEF PageSound, PageTyped
  <1>2. /\ u.pending = w.pending /\ u.told = w.told /\ u.entryCount = w.entryCount
        /\ u.next = w.next + 1 /\ DOMAIN u = StreamFields /\ Alike(u, w, {"next"})
    BY <1>1 DEF Alike
  <1>3. ReceiveEntry([w EXCEPT !.next = @ + 1], w.next) = v
    BY <1>2 DEF ReceiveEntry
  <1> HIDE DEF u, pending, told
  <1>4. /\ received.entryCount = w.entryCount + 1 /\ received.pending = pending
        /\ DOMAIN received = StreamFields
        /\ Alike(received, u, {"entryCount", "pending", "told"})
    BY <1>2 DEF Alike
  <1> HIDE DEF received
  <1>5. /\ received.kind = w.kind /\ received.mounted = w.mounted
        /\ received.done = w.done /\ received.canceled = w.canceled
        /\ received.drawn = w.drawn /\ received.shown = w.shown
        /\ received.state = w.state /\ received.said = w.said
        /\ received.top = w.top /\ received.away = w.away /\ received.next = w.next + 1
        /\ received.loops = w.loops /\ received.queue = w.queue
        /\ received.gliding = w.gliding /\ received.autoScroll = w.autoScroll
        /\ received.scrolled = w.scrolled /\ received.stickToBottom = w.stickToBottom
    BY <1>2, <1>4 DEF Alike
  <1>6. Height(received) = Height(w)
    BY <1>5 DEF Height
  <1>7. /\ w.entryCount + 1 \in 0 .. Feed /\ w.next = w.entryCount + 1
        /\ w.next \in 1 .. Feed /\ w.shown \in 0 .. w.entryCount + 1
        /\ w.pending \in Seq(1 .. Feed) /\ w.drawn \in Seq(1 .. Feed)
        /\ w.entryCount \in Nat
    BY <1>1, FeedAssumption DEF PageTyped
  <1>8. pending \in Seq(1 .. Feed)
    BY <1>7 DEF pending
  <1>9. PageTyped(received)
    BY <1>1, <1>4, <1>5, <1>6, <1>7, <1>8 DEF PageTyped
  <1>10. w.drawn \o pending = Numbers(w.entryCount + 1)
    <2>1. w.drawn \o w.pending = Numbers(w.entryCount)
      BY <1>1 DEF InOrder
    <2>2. w.drawn \o pending = Append(w.drawn \o w.pending, w.entryCount + 1)
      <3>1. pending = Append(w.pending, w.entryCount + 1) /\ w.entryCount + 1 \in 1 .. Feed
        BY <1>7 DEF pending
      <3> DEFINE s == w.drawn
                 t == w.pending
                 e == w.entryCount + 1
      <3>2. s \in Seq(1 .. Feed) /\ t \in Seq(1 .. Feed) /\ e \in 1 .. Feed
        BY <1>7, <3>1
      <3> HIDE DEF s, t, e
      <3>3. s \o Append(t, e) = Append(s \o t, e)
        BY <3>2, ConcatAppend
      <3> QED  BY <3>1, <3>3 DEF s, t, e
    <2> DEFINE n == w.entryCount
    <2>3. ASSUME NEW m \in Nat PROVE Append(Numbers(m), m + 1) = Numbers(m + 1)
      <3>1. Numbers(m) \in Seq(Nat) /\ Len(Numbers(m)) = m /\ \A i \in 1 .. m : Numbers(m)[i] = i
        BY DEF Numbers
      <3> DEFINE a == Append(Numbers(m), m + 1)
      <3>2. /\ a \in Seq(Nat) /\ Len(a) = m + 1 /\ a[m + 1] = m + 1
            /\ \A i \in 1 .. m : a[i] = i
        BY <3>1
      <3>3. \A i \in 1 .. m + 1 : i \in 1 .. m \/ i = m + 1
        OBVIOUS
      <3> HIDE DEF a
      <3>4. a = [i \in 1 .. m + 1 |-> a[i]] /\ \A i \in 1 .. m + 1 : a[i] = i
        BY <3>2, <3>3
      <3>5. a = Numbers(m + 1)
        BY <3>4 DEF Numbers
      <3> QED  BY <3>5 DEF a
    <2> QED  BY <1>7, <2>1, <2>2, <2>3
  <1>11. w.mounted
    BY <1>1 DEF InOrder, PageTyped
  <1>12. InOrder(received, yet)
    BY <1>1, <1>4, <1>5, <1>10, <1>11 DEF InOrder
  <1>13. ReaderAway(received)
    BY <1>1, <1>5, <1>6 DEF ReaderAway
  <1>14. /\ Alike(v, received, {"queue"}) /\ QueueTyped(v.queue)
         /\ FrameOwed(received.queue) => FrameOwed(v.queue)
         /\ Contains(v.queue.callbacks, "announceStart") => yet
    BY <1>1, <1>4, <1>5, WithRenderIs DEF PageTyped, RenderCallbacks
  <1> HIDE DEF v, yet
  <1>15. /\ Alike(v, received, {"queue", "gliding", "autoScroll", "told"})
         /\ v.gliding = received.gliding /\ v.autoScroll = received.autoScroll
         /\ v.top = w.top /\ v.away = w.away /\ v.loops = w.loops
    BY <1>5, <1>14 DEF Alike
  <1>16. v.gliding \in BOOLEAN /\ v.autoScroll \in BOOLEAN
    BY <1>1, <1>5, <1>15 DEF PageTyped
  <1>17. PageSound(received, yet)
    BY <1>9, <1>12, <1>13 DEF PageSound
  <1> DEFINE later == Contains(v.queue.callbacks, "announceStart")
  <1>18. later \in BOOLEAN /\ (later => yet)
    BY <1>14 DEF Contains
  <1> HIDE DEF later
  <1>19. PageSound(v, later)
    BY <1>14, <1>15, <1>16, <1>17, <1>18, AsideKeeps
  <1> QED  BY <1>3, <1>5, <1>14, <1>15, <1>19 DEF later

LEMMA SourceEndedKeeps ==
    ASSUME NEW w, PageSound(w, Contains(w.queue.callbacks, "announceStart")),
           ~w.canceled, NEW i \in DOMAIN w.loops, w.loops[i] = "reading"
    PROVE  LET v == SourceEnded([w EXCEPT !.loops[i] = "done"])
           IN  /\ PageSound(v, Contains(v.queue.callbacks, "announceStart"))
               /\ FrameOwed(w.queue) => FrameOwed(v.queue)
               /\ v.top = w.top /\ v.away = w.away
  <1> DEFINE loops == [w.loops EXCEPT ![i] = "done"]
             u == [w EXCEPT !.loops[i] = "done"]
             ended == [u EXCEPT !.done = TRUE]
             drawn == WithRender(ended, "flush")
             said == Append(w.said, "complete")
             told == Append(drawn.told, <<"done", u.entryCount>>)
             v == [[drawn EXCEPT !.said = said] EXCEPT !.told = Append(@, <<"done", u.entryCount>>)]
             yet == Contains(w.queue.callbacks, "announceStart")
  <1>1. PageTyped(w) /\ DOMAIN w = StreamFields /\ InOrder(w, yet) /\ ReaderAway(w)
    BY DEF PageSound, PageTyped
  <1>2. w.mounted /\ i = 1 /\ Len(w.loops) = 1 /\ ~w.done /\ 1 \in DOMAIN w.loops
    <2>1. w.loops # <<>> /\ DOMAIN w.loops = 1 .. Len(w.loops)
      BY <1>1 DEF PageTyped
    <2>2. w.mounted /\ Len(w.loops) = 1 /\ (w.loops[1] = "reading" => ~w.done)
      BY <1>1, <2>1 DEF InOrder, PageTyped
    <2> QED  BY <2>1, <2>2
  <1>3. /\ loops \in Seq({"reading", "stopped", "done"}) /\ Len(loops) = 1 /\ loops[1] = "done"
    BY <1>1, <1>2 DEF PageTyped
  <1>4. u = [w EXCEPT !.loops = loops]
    OBVIOUS
  <1> HIDE DEF loops, u
  <1>5. Alike(ended, w, {"loops", "done"}) /\ ended.loops = loops /\ ended.done = TRUE
        /\ DOMAIN ended = StreamFields /\ ended.queue = w.queue
    BY <1>1, <1>4 DEF Alike
  <1> HIDE DEF ended
  <1>6. /\ Alike(drawn, ended, {"queue"}) /\ QueueTyped(drawn.queue)
        /\ FrameOwed(ended.queue) => FrameOwed(drawn.queue)
        /\ Contains(drawn.queue.callbacks, "announceStart") => yet
    BY <1>1, <1>5, WithRenderIs DEF PageTyped, RenderCallbacks
  <1>7. SourceEnded(u) = v
    <2>1. drawn.mounted = TRUE /\ drawn.said = w.said
      BY <1>1, <1>2, <1>5, <1>6 DEF Alike, PageTyped
    <2>2. SourceEnded(u) = [Announced(drawn, "complete") EXCEPT
                              !.told = Append(@, <<"done", u.entryCount>>)]
      BY DEF SourceEnded, drawn, ended
    <2>3. Announced(drawn, "complete") = [drawn EXCEPT !.said = said]
      BY <2>1 DEF Announced
    <2> QED  BY <2>2, <2>3
  <1> HIDE DEF drawn, said, yet
  <1>8. /\ Alike(v, drawn, {"said", "told"}) /\ v.said = said
    BY <1>6 DEF Alike
  <1> HIDE DEF v
  <1>9. /\ v.kind = w.kind /\ v.mounted = w.mounted /\ v.pending = w.pending
        /\ v.entryCount = w.entryCount /\ v.done = TRUE /\ v.canceled = w.canceled
        /\ v.drawn = w.drawn /\ v.shown = w.shown /\ v.state = w.state /\ v.said = said
        /\ v.top = w.top /\ v.away = w.away /\ v.next = w.next /\ v.loops = loops
        /\ v.queue = drawn.queue /\ v.gliding = w.gliding /\ v.autoScroll = w.autoScroll
        /\ v.scrolled = w.scrolled /\ v.stickToBottom = w.stickToBottom
        /\ DOMAIN v = StreamFields
    BY <1>5, <1>6, <1>8 DEF Alike
  <1>10. Height(v) = Height(w)
    BY <1>9 DEF Height
  <1>11. PageTyped(v) /\ ReaderAway(v)
    BY <1>1, <1>3, <1>6, <1>9, <1>10 DEF PageTyped, ReaderAway
  <1>12. InOrder(v, Contains(v.queue.callbacks, "announceStart"))
    <2>1. w.said \in {<<>>, <<"start">>} /\ (yet => w.said \in {<<>>, <<"complete">>})
      BY <1>1, <1>2 DEF InOrder
    <2>2. yet => w.said = <<>>
      <3>1. <<"start">>[1] = "start" /\ <<"complete">>[1] = "complete"
        OBVIOUS
      <3> QED  BY <2>1, <3>1
    <2>3. said \in {<<"complete">>, <<"start", "complete">>} /\ (yet => said = <<"complete">>)
      <3>1. w.said = <<>> => said = <<"complete">>
        BY DEF said
      <3>2. w.said = <<"start">> => said = <<"start", "complete">>
        <4>1. Append(<<"start">>, "complete") = <<"start", "complete">>
          BY SecondAfterFirst, "start" \in {"start", "complete"},
             "complete" \in {"start", "complete"}
        <4> QED  BY <4>1 DEF said
      <3> QED  BY <2>1, <2>2, <3>1, <3>2
    <2>4. w.drawn \o w.pending = Numbers(w.entryCount)
      BY <1>1 DEF InOrder
    <2>5. Contains(v.queue.callbacks, "announceStart") => yet
      BY <1>6, <1>9
    <2> HIDE DEF said
    <2> QED  BY <1>2, <1>3, <1>9, <2>3, <2>4, <2>5 DEF InOrder
  <1>13. FrameOwed(w.queue) => FrameOwed(v.queue)
    BY <1>5, <1>6, <1>9
  <1> QED  BY <1>7, <1>9, <1>11, <1>12, <1>13 DEF PageSound, u

LEMMA AnsweredKeeps ==
    ASSUME NEW w, PageSound(w, Contains(w.queue.callbacks, "announceStart")),
           NEW i \in DOMAIN w.loops, w.loops[i] = "reading",
           NEW answer \in {"entry", "end", "error"},
           NEW reaction \in {"nothing", "throws", "cleanUp"},
           answer = "entry" => ~Exhausted(w)
    PROVE  LET v == Answered(w, i, answer, reaction)
           IN  /\ PageSound(v, Contains(v.queue.callbacks, "announceStart"))
               /\ FrameOwed(w.queue) => FrameOwed(v.queue)
               /\ v.top = w.top /\ v.away = w.away /\ (w.canceled => v.told = w.told)
  <1> DEFINE Upheld(v) == /\ PageSound(v, Contains(v.queue.callbacks, "announceStart"))
                          /\ FrameOwed(w.queue) => FrameOwed(v.queue)
                          /\ v.top = w.top /\ v.away = w.away
  <1>1. ASSUME NEW u, Upheld(u), i \in DOMAIN u.loops
        PROVE  Upheld(Stopped(u, i)) /\ Stopped(u, i).told = u.told
    <2> DEFINE v == Stopped(u, i)
    <2>2. /\ PageSound(v, Contains(u.queue.callbacks, "announceStart"))
          /\ Alike(v, u, {"loops"})
      BY <1>1, StoppedKeeps
    <2> HIDE DEF v
    <2>3. v.queue = u.queue /\ v.top = u.top /\ v.away = u.away /\ v.told = u.told
      BY <2>2 DEF Alike
    <2>4. Upheld(v) /\ v.told = u.told
      BY <1>1, <2>2, <2>3
    <2> QED  BY <2>4 DEF v
  <1>2. ASSUME NEW u, Upheld(u) PROVE Upheld(CleanUp(u))
    <2> DEFINE v == CleanUp(u)
    <2>2. /\ PageSound(v, Contains(v.queue.callbacks, "announceStart"))
          /\ Alike(v, u, {"canceled", "pending", "mounted", "scrolled"})
      BY <1>2, StreamCleanUpKeeps
    <2> HIDE DEF v
    <2>3. v.queue = u.queue /\ v.top = u.top /\ v.away = u.away
      BY <2>2 DEF Alike
    <2>4. Upheld(v)
      BY <1>2, <2>2, <2>3
    <2> QED  BY <2>4 DEF v
  <1>3. Upheld(w)
    OBVIOUS
  <1>4. w.canceled \in BOOLEAN /\ w.loops # <<>> /\ w.next \in Nat
    BY FeedAssumption DEF PageSound, PageTyped
  <1>5. CASE w.canceled
    <2>1. Answered(w, i, answer, reaction) = Stopped(w, i)
      BY <1>4, <1>5 DEF Answered
    <2> QED  BY <1>1, <1>3, <2>1
  <1>6. CASE ~w.canceled /\ answer = "entry"
    <2> DEFINE u == ReceiveEntry([w EXCEPT !.next = @ + 1], w.next)
    <2>2. Answered(w, i, answer, reaction) = Reacted(u, i, reaction)
      BY <1>6 DEF Answered
    <2>3. w.next <= Feed
      BY <1>4, <1>6, FeedAssumption DEF Exhausted
    <2>4. Upheld(u) /\ u.loops = w.loops
      BY <1>4, <1>6, <2>3, ReceiveEntryKeeps
    <2> HIDE DEF u, Upheld
    <2>5. Upheld(Reacted(u, i, reaction))
      <3>1. CASE reaction = "throws"
        BY <1>1, <2>4, <3>1 DEF Reacted
      <3>2. CASE reaction = "cleanUp"
        BY <1>2, <2>4, <3>2 DEF Reacted
      <3>3. CASE reaction = "nothing"
        BY <2>4, <3>3 DEF Reacted
      <3> QED  BY <3>1, <3>2, <3>3
    <2> QED  BY <1>6, <2>2, <2>5 DEF Upheld
  <1>7. CASE ~w.canceled /\ answer = "end"
    <2>1. Answered(w, i, answer, reaction) = SourceEnded([w EXCEPT !.loops[i] = "done"])
      BY <1>7 DEF Answered
    <2> QED  BY <1>7, <2>1, SourceEndedKeeps
  <1>8. CASE ~w.canceled /\ answer = "error"
    <2>1. Answered(w, i, answer, reaction) = Stopped(w, i)
      BY <1>8 DEF Answered
    <2> QED  BY <1>1, <1>3, <1>8, <2>1
  <1> QED  BY <1>4, <1>5, <1>6, <1>7, <1>8

(* The steps of the stream *)

LEMMA ConstructedSound ==
    ASSUME NEW kind \in Kinds, NEW autoScroll \in BOOLEAN
    PROVE  LET w == Constructed(kind, autoScroll)
           IN  /\ PageSound(w, Contains(w.queue.callbacks, "announceStart"))
               /\ FrameOwed(w.queue)
  <1> DEFINE w == Constructed(kind, autoScroll)
  <1>1. DOMAIN w = StreamFields
    BY DEF Constructed
  <1>2. /\ w.kind = kind /\ w.mounted = FALSE /\ w.pending = <<>> /\ w.entryCount = 0
        /\ w.done = FALSE /\ w.canceled = FALSE /\ w.drawn = <<>> /\ w.shown = 0
        /\ w.state = "streaming" /\ w.said = <<>> /\ w.top = 0 /\ w.away = FALSE
        /\ w.next = 1 /\ w.loops = <<>> /\ w.queue = NoFrames /\ w.gliding = FALSE
        /\ w.autoScroll = autoScroll /\ w.scrolled = FALSE /\ w.stickToBottom = TRUE
    BY DEF Constructed
  <1> HIDE DEF w
  <1>3. Height(w) = 10
    BY <1>2 DEF Height, RowHeight, FooterHeight
  <1>4. /\ QueueTyped(NoFrames) /\ FrameOwed(NoFrames)
        /\ ~Contains(NoFrames.callbacks, "announceStart")
    BY DEF NoFrames, QueueTyped, FrameOwed, IsInjective, Contains
  <1>5. <<>> \in Seq(1 .. Feed) /\ <<>> \in Seq({"reading", "stopped", "done"})
    OBVIOUS
  <1>6. 0 \in 0 .. Feed /\ 0 \in 0 .. 0 /\ 0 \in 0 .. 10
    BY FeedAssumption
  <1>7. PageTyped(w) /\ ReaderAway(w)
    <2>1. /\ w.entryCount \in 0 .. Feed /\ w.next = w.entryCount + 1
          /\ w.shown \in 0 .. w.entryCount /\ w.top \in 0 .. Height(w)
      BY <1>2, <1>3, <1>6
    <2>2. w.queue = NoFrames /\ w.pending \in Seq(1 .. Feed) /\ w.drawn \in Seq(1 .. Feed)
          /\ w.loops \in Seq({"reading", "stopped", "done"})
      BY <1>2, <1>5
    <2>3. /\ w.autoScroll \in BOOLEAN /\ w.mounted \in BOOLEAN /\ w.done \in BOOLEAN
          /\ w.stickToBottom \in BOOLEAN /\ w.canceled \in BOOLEAN /\ w.scrolled \in BOOLEAN
          /\ w.away \in BOOLEAN /\ w.gliding \in BOOLEAN /\ w.kind \in Kinds
          /\ w.state \in {"streaming", "done"}
      BY <1>2
    <2>4. PageTyped(w)
      BY <1>1, <1>4, <2>1, <2>2, <2>3 DEF PageTyped
    <2> QED  BY <1>2, <2>4 DEF ReaderAway
  <1>8. w.drawn \o w.pending = Numbers(w.entryCount)
    <2>1. <<>> \o <<>> = <<>> /\ Len(<<>>) = 0
      OBVIOUS
    <2>2. Numbers(0) = <<>>
      BY DEF Numbers
    <2> QED  BY <1>2, <2>1, <2>2
  <1>9. InOrder(w, Contains(w.queue.callbacks, "announceStart"))
    BY <1>2, <1>4, <1>8 DEF InOrder
  <1> QED  BY <1>2, <1>4, <1>7, <1>9 DEF PageSound, w

\* No step breaks the page, tells a host who cleaned up, or takes the view from a
\* reader who is away without being asked.
StreamKept ==
    /\ StreamInv'
    /\ stream.canceled => stream'.told = stream.told
    /\ stream.away /\ stream'.away /\ stream'.top # stream.top => used' # used

LEMMA StreamKeeps ==
    ASSUME StreamInv, StreamNext
    PROVE  StreamKept
  <1> DEFINE Sound(w) == PageSound(w, Contains(w.queue.callbacks, "announceStart"))
                           /\ FrameOwed(w.queue)
             Quiet(v) == stream.canceled => v.told = stream.told
  <1>1. Sound(stream) /\ used \in 0 .. MaxUser /\ MaxUser \in Nat /\ PageTyped(stream)
        /\ DOMAIN stream = StreamFields
    BY FeedAssumption DEF StreamInv, PageSound, PageTyped
  <1>2. ASSUME used' = used, Sound(stream'), Quiet(stream'),
               stream.away /\ stream'.away => stream'.top = stream.top
        PROVE  StreamKept
    BY <1>1, <1>2 DEF StreamKept, StreamInv
  <1>3. ASSUME NEW pages, Asked(pages), \A v \in pages : Sound(v) /\ Quiet(v)
        PROVE  StreamKept
    <2>1. used' \in 0 .. MaxUser /\ used' # used
      BY <1>1, <1>3 DEF Asked
    <2>2. Sound(stream') /\ Quiet(stream')
      BY <1>3 DEF Asked
    <2> QED  BY <2>1, <2>2 DEF StreamKept, StreamInv
  <1>4. CASE RunFrame
    <2>1. PICK h \in stream.queue.requested, settled \in BOOLEAN :
            stream' = FrameRun(stream, h, settled)
      BY <1>4 DEF RunFrame
    <2>2. /\ Sound(stream') /\ stream'.told = stream.told
          /\ stream'.away = stream.away /\ (stream'.away => stream'.top = stream.top)
      BY <1>1, <2>1, FrameKeeps
    <2> QED  BY <1>2, <1>4, <2>2 DEF RunFrame
  <1>5. CASE ScrollEvent
    <2>1. /\ PageSound(stream', Contains(stream.queue.callbacks, "announceStart"))
          /\ Alike(stream', stream, {"scrolled", "stickToBottom"})
      BY <1>1, <1>5, HandleScrollKeeps DEF ScrollEvent
    <2>2. /\ stream'.queue = stream.queue /\ stream'.told = stream.told
          /\ stream'.top = stream.top
      BY <2>1 DEF Alike
    <2> QED  BY <1>1, <1>2, <1>5, <2>1, <2>2 DEF ScrollEvent
  <1>6. CASE SourceAnswers
    <2>1. PICK i \in DOMAIN stream.loops, answer \in {"entry", "end", "error"},
               reaction \in {"nothing", "throws", "cleanUp"} :
            /\ stream.loops[i] = "reading"
            /\ answer = "entry" => ~Exhausted(stream)
            /\ stream' = Answered(stream, i, answer, reaction)
      BY <1>6 DEF SourceAnswers
    <2>2. Sound(stream') /\ Quiet(stream') /\ stream'.top = stream.top
      BY <1>1, <2>1, AnsweredKeeps
    <2> QED  BY <1>2, <1>6, <2>2 DEF SourceAnswers
  <1>7. CASE Host
    <2>1. Sound(Render(stream)) /\ Quiet(Render(stream))
      BY <1>1, RenderKeepsStream
    <2>2. Sound(CleanUp(stream)) /\ Quiet(CleanUp(stream))
      <3> DEFINE v == CleanUp(stream)
      <3>2. /\ PageSound(v, Contains(v.queue.callbacks, "announceStart"))
            /\ Alike(v, stream, {"canceled", "pending", "mounted", "scrolled"})
        BY <1>1, StreamCleanUpKeeps
      <3> HIDE DEF v
      <3>3. v.queue = stream.queue /\ v.told = stream.told
        BY <3>2 DEF Alike
      <3>4. Sound(v) /\ Quiet(v)
        BY <1>1, <3>2, <3>3
      <3> QED  BY <3>4 DEF v
    <2>3. Sound([stream EXCEPT !.autoScroll = ~@]) /\ Quiet([stream EXCEPT !.autoScroll = ~@])
      <3> DEFINE autoScroll == ~stream.autoScroll
                   v == [stream EXCEPT !.autoScroll = autoScroll]
                   yet == Contains(stream.queue.callbacks, "announceStart")
      <3>2. autoScroll \in BOOLEAN /\ yet \in BOOLEAN
        BY DEF Contains
      <3> HIDE DEF autoScroll
      <3>3. Alike(v, stream, {"autoScroll"}) /\ v.autoScroll = autoScroll
        BY <1>1 DEF Alike
      <3> HIDE DEF v, yet
      <3>4. /\ Alike(v, stream, {"queue", "gliding", "autoScroll", "told"})
            /\ v.queue = stream.queue /\ v.told = stream.told /\ v.gliding = stream.gliding
        BY <3>3 DEF Alike
      <3>5. PageSound(stream, yet)
        BY <1>1 DEF yet
      <3>6. PageSound(v, yet)
        BY <1>1, <3>2, <3>3, <3>4, <3>5, AsideKeeps DEF PageTyped
      <3>7. Sound(v) /\ Quiet(v)
        BY <1>1, <3>4, <3>6 DEF yet
      <3> QED  BY <3>7 DEF v, autoScroll
    <2> QED  BY <1>3, <1>7, <2>1, <2>2, <2>3 DEF Host
  <1>8. CASE User
    <2>1. ASSUME NEW top \in UserTops \cup {Bottom(stream)}, top <= Bottom(stream)
          PROVE  Sound(UserScrolled(stream, top)) /\ Quiet(UserScrolled(stream, top))
      <3>1. top \in 0 .. Height(stream)
        BY <1>1, <2>1, HeightIs, FeedAssumption
      <3> QED  BY <1>1, <3>1, UserScrolledKeeps
    <2>2. ASSUME NEW v, Alike(v, stream, {"queue", "gliding"}), v.gliding \in BOOLEAN,
                 QueueTyped(v.queue), FrameOwed(stream.queue) => FrameOwed(v.queue),
                 Contains(v.queue.callbacks, "announceStart")
                   => Contains(stream.queue.callbacks, "announceStart")
          PROVE  Sound(v) /\ Quiet(v)
      <3> DEFINE later == Contains(v.queue.callbacks, "announceStart")
                 yet == Contains(stream.queue.callbacks, "announceStart")
      <3>1. later \in BOOLEAN /\ (later => yet)
        BY <2>2 DEF Contains
      <3>2. PageSound(stream, yet)
        BY <1>1
      <3> HIDE DEF later, yet
      <3>3. /\ Alike(v, stream, {"queue", "gliding", "autoScroll", "told"})
            /\ v.told = stream.told /\ v.autoScroll = stream.autoScroll
        BY <2>2 DEF Alike
      <3>4. v.autoScroll \in BOOLEAN
        BY <1>1, <3>3 DEF PageTyped
      <3>5. PageSound(v, later)
        BY <2>2, <3>1, <3>2, <3>3, <3>4, AsideKeeps
      <3> QED  BY <1>1, <2>2, <3>3, <3>5 DEF later
    <2>3. Sound(ScrollTo(stream)) /\ Quiet(ScrollTo(stream))
      BY <1>1, <2>2, ScrollToIs
    <2>4. Sound(Cancel(stream)) /\ Quiet(Cancel(stream))
      BY <1>1, <2>2, CancelIs
    <2> QED  BY <1>3, <1>8, <2>1, <2>3, <2>4 DEF User
  <1> QED  BY <1>4, <1>5, <1>6, <1>7, <1>8 DEF StreamNext

LEMMA StreamSoundIs ==
    ASSUME StreamInv
    PROVE  StreamTypeOK /\ EntriesInOrder
  <1>1. PageTyped(stream) /\ QueueTyped(stream.queue) /\ FrameOwed(stream.queue)
    BY DEF StreamInv, PageSound, PageTyped
  <1>2. ASSUME NEW S, NEW s \in Seq(S) PROVE Range(s) \subseteq S
    BY DEF Range
  <1>3. stream.shown <= stream.entryCount /\ stream.entryCount < stream.next
        /\ stream.next \in 1 .. Feed + 1
    BY <1>1, FeedAssumption DEF PageTyped
  <1>4. /\ Range(stream.pending) \subseteq 1 .. Feed /\ Range(stream.drawn) \subseteq 1 .. Feed
        /\ Range(stream.loops) \subseteq {"reading", "stopped", "done"}
        /\ Range(stream.queue.callbacks) \subseteq {"announceStart", "flush", "step"}
    BY <1>1, <1>2 DEF PageTyped, QueueTyped, RenderCallbacks
  <1>5. StreamTypeOK
    BY <1>1, <1>3, <1>4 DEF StreamTypeOK, PageTyped, FrameOwed, StreamInv
  <1>6. EntriesInOrder
    BY DEF EntriesInOrder, StreamInv, PageSound, InOrder, Numbers
  <1> QED  BY <1>5, <1>6

\* A stream shows and tells what it received, to whom it should, and does not take
\* the view away from a reader: for every number of entries, kind of source and
\* sequence of calls, gestures, answers and frames.
THEOREM StreamIsHonest == StreamSpec => StreamHonest
  <1> DEFINE Quiet == stream.canceled => stream'.told = stream.told
             Still == stream.away /\ stream'.away /\ stream'.top # stream.top => used' # used
  <1>1. StreamInit => StreamInv
    <2> SUFFICES ASSUME StreamInit PROVE StreamInv
      OBVIOUS
    <2>1. PICK kind \in Kinds, autoScroll \in BOOLEAN : stream = Constructed(kind, autoScroll)
      BY DEF StreamInit
    <2>2. used \in 0 .. MaxUser
      BY FeedAssumption DEF StreamInit
    <2> QED  BY <2>1, <2>2, ConstructedSound DEF StreamInv
  <1>2. StreamInv /\ [StreamNext]_streamVars => StreamInv' /\ [Quiet]_streamVars /\ [Still]_streamVars
    <2> SUFFICES ASSUME StreamInv, [StreamNext]_streamVars
                 PROVE  StreamInv' /\ [Quiet]_streamVars /\ [Still]_streamVars
      OBVIOUS
    <2>1. CASE StreamNext
      BY <2>1, StreamKeeps DEF StreamKept
    <2>2. CASE UNCHANGED streamVars
      BY <2>2 DEF streamVars, StreamInv
    <2> QED  BY <2>1, <2>2
  <1>3. StreamInv => StreamTypeOK /\ EntriesInOrder
    BY StreamSoundIs
  <1>4. QuietAfterCleanUp <=> [][Quiet]_streamVars
    BY DEF QuietAfterCleanUp
  <1>5. ViewHeld <=> [][Still]_streamVars
    BY DEF ViewHeld
  <1> HIDE DEF Quiet, Still
  <1> QED  BY <1>1, <1>2, <1>3, <1>4, <1>5, PTL DEF StreamSpec, StreamHonest

=============================================================================
