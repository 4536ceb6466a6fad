------------------------------- MODULE MCMachines -----------------------------
(***************************************************************************)
(* A small instance of the parts that keep to themselves: an entry stream, *)
(* a theme controller, a statement on the page, the worktrees of the       *)
(* repository and its release script.  They share no state: a behaviour is *)
(* of one of them, and leaves the others as they began.                    *)
(***************************************************************************)
EXTENDS EntryStream, ThemeController, StatementView, Worktrees, Release

CONSTANT Scenes   \* the parts that are checked

VARIABLE scene

machineVars == <<scene, streamVars, themeVars, sheetVars, worktreeVars, releaseVars>>

MCSchemes == [paper |-> "light", linen |-> "light", ink |-> "dark"]

MCStatementOptions ==
    {[amountFormat |-> format, showClassification |-> shown, colorScheme |-> scheme] :
       format \in {"comma", "dot"}, shown \in BOOLEAN, scheme \in {"light", "system"}}

\* Two branches whose directory is the same one.
MCDirName == [slash |-> "feat-a", dash |-> "feat-a", fix |-> "fix"]

MCPaths == <<"feat-a", "fix", "spare">>

MachinesInit ==
    /\ scene \in Scenes
    /\ StreamInit /\ ThemeInit /\ SheetInit /\ WorktreesInit /\ ReleaseInit
    /\ scene # "stream" => stream = Constructed("reader", TRUE)
    /\ scene # "theme" =>
         control = CreateThemeController(Blank(FALSE), DOMAIN Schemes, "light", FALSE)
    /\ scene # "sheet" =>
         sheet = NewSheet(CHOOSE options \in StatementOptions : TRUE, TRUE)
    /\ scene # "release" => rel.head = CHOOSE source \in Sources : TRUE

StreamScene ==
    /\ scene = "stream" /\ StreamNext
    /\ UNCHANGED <<scene, themeVars, sheetVars, worktreeVars, releaseVars>>

ThemeScene ==
    /\ scene = "theme" /\ ThemeNext
    /\ UNCHANGED <<scene, streamVars, sheetVars, worktreeVars, releaseVars>>

SheetScene ==
    /\ scene = "sheet" /\ SheetNext
    /\ UNCHANGED <<scene, streamVars, themeVars, worktreeVars, releaseVars>>

WorktreesScene ==
    /\ scene = "worktrees" /\ WorktreesNext
    /\ UNCHANGED <<scene, streamVars, themeVars, sheetVars, releaseVars>>

ReleaseScene ==
    /\ scene = "release" /\ ReleaseNext
    /\ UNCHANGED <<scene, streamVars, themeVars, sheetVars, worktreeVars>>

MachinesNext ==
    StreamScene \/ ThemeScene \/ SheetScene \/ WorktreesScene \/ ReleaseScene

\* The fairness is that of StreamSpec.
MachinesSpec ==
    /\ MachinesInit /\ [][MachinesNext]_machineVars
    /\ WF_machineVars(StreamScene /\ RunFrame)
    /\ WF_machineVars(StreamScene /\ SourceAnswers)
=============================================================================
