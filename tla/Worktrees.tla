------------------------------- MODULE Worktrees ------------------------------
(***************************************************************************)
(* scripts/wt.ts: worktrees and the port offset each of them claims in a   *)
(* file of its own.  There is no registry and no lock: several shells run  *)
(* commands at once, a command may be interrupted or fail between any two  *)
(* of its steps, and worktrees come and go by other hands.                 *)
(***************************************************************************)
EXTENDS Integers, SequencesExt, FiniteSets

CONSTANTS
    NoClaim,      \* no env file, or one that does not parse
    Branches,     \* branch names, in no order
    DirName,      \* worktreeDirName: the directory of each branch
    Paths,        \* the directories, in the order `git worktree list` has
    Shells,       \* shells that run a command
    MaxSlot,      \* slots of offsets, the primary's apart
    MaxCommands   \* commands and hands

VARIABLES
    wt,           \* the repository, its worktrees and the servers they run
    shell,        \* what each shell is in the middle of
    commands

worktreeVars == <<wt, shell, commands>>

PortBases == {4600, 4700, 4283, 4383, 9231, 9232}

OffsetStep == 1000

ASSUME WorktreesAssumption ==
    /\ Paths \in Seq(Range(Paths))
    /\ DirName \in [Branches -> Range(Paths)]
    /\ IsInjective(Paths)
    /\ MaxSlot \in 1 .. 56 /\ MaxCommands \in Nat
    /\ NoClaim \notin Int

PortsForOffset(offset) == {base + offset : base \in PortBases}

Offsets == {slot * OffsetStep : slot \in 1 .. MaxSlot}

FreeOffsets(claimed) == Offsets \ (claimed \cup {0})

Lowest(offsets) == CHOOSE offset \in offsets : \A other \in offsets : offset <= other

AllocateNext(claimed) ==          \* one more than there are
    Lowest({slot * OffsetStep : slot \in 1 .. MaxSlot + 1}
             \ {slot * OffsetStep : slot \in 1 .. Cardinality(claimed)})

\* The lowest offset that is free; with every slot claimed it throws.
AllocateOffset(claimed) ==
    IF FreeOffsets(claimed) = {} THEN NoClaim ELSE Lowest(FreeOffsets(claimed))

\* The linked worktrees in git's order.
ListedOf(linked) ==
    LET list[i \in 0 .. Len(Paths)] ==
            IF i = 0 THEN <<>>
            ELSE IF Paths[i] \in linked THEN Append(list[i - 1], Paths[i])
            ELSE list[i - 1]
    IN list[Len(Paths)]

Listed(w) == ListedOf(DOMAIN w.linked)

Claims(w) == {w.linked[path].offset : path \in DOMAIN w.linked} \ {NoClaim}

PlanSyncInOnePass(claims) ==      \* a gap takes what a later worktree claims
    LET plan[i \in 0 .. Len(claims)] ==
            IF i = 0 THEN <<>>
            ELSE Append(plan[i - 1],
                        IF claims[i] # NoClaim /\ claims[i] \notin Range(plan[i - 1])
                        THEN claims[i] ELSE AllocateOffset(Range(plan[i - 1])))
    IN plan[Len(claims)]

\* Every claim but a repeated one is kept; then the gaps are filled.
Holders(claims) ==
    {i \in DOMAIN claims : /\ claims[i] # NoClaim /\ claims[i] > 0
                           /\ \A j \in 1 .. i - 1 : claims[j] # claims[i]}

PlanOne(claims, plan, i) ==
    Append(plan, IF i \in Holders(claims) THEN claims[i]
                 ELSE AllocateOffset({claims[j] : j \in Holders(claims)} \cup Range(plan)))

PlanSyncOffsets(claims) ==
    LET plan[i \in 0 .. Len(claims)] ==
            IF i = 0 THEN <<>> ELSE PlanOne(claims, plan[i - 1], i)
    IN plan[Len(claims)]

-----------------------------------------------------------------------------
(* The repository *)

Checked(w) == {w.linked[path].branch : path \in DOMAIN w.linked}

Added(w, path, branch) ==
    LET added == [branch |-> branch, offset |-> NoClaim, name |-> NoClaim]
    IN [w EXCEPT !.linked = [other \in DOMAIN @ \cup {path} |->
                               IF other = path THEN added ELSE @[other]],
                 !.branches = @ \cup {branch}]

Claimed(w, path, name, offset) ==
    [w EXCEPT !.linked[path] = [branch |-> @.branch, offset |-> offset, name |-> name]]

Removed(w, path) ==
    [w EXCEPT !.linked = [other \in DOMAIN @ \ {path} |-> @[other]]]

\* What listens on a port of the offset is terminated, whoever started it.
KillPorts(w, offset) ==
    [w EXCEPT !.servers =
        {server \in @ : PortsForOffset(server.offset) \cap PortsForOffset(offset) = {}}]

-----------------------------------------------------------------------------
(* The commands, one step at a time *)

Idle == [step |-> "idle"]

\* Two commands that overlap, or a hand that reaches in, disturb each other.
Disturbed(s) == [s EXCEPT !.alone = FALSE]

\* Each command is begun on its own, as far as it knows.
Start(p, command) ==
    /\ commands < MaxCommands
    /\ commands' = commands + 1
    /\ shell[p] = Idle
    /\ LET busy == \E q \in Shells : shell[q] # Idle
       IN /\ shell' = [q \in Shells |->
                         IF q = p THEN [command EXCEPT !.alone = ~busy]
                         ELSE IF shell[q] = Idle THEN Idle ELSE Disturbed(shell[q])]
          /\ wt' = [wt EXCEPT !.raced = @ \/ busy]

Goes(p, w, next) ==
    /\ wt' = w
    /\ shell' = [shell EXCEPT ![p] = next]
    /\ UNCHANGED commands

\* create: the worktrees are read and the names looked at ...
CreateBegun(p) ==
    \E branch \in Branches :
        LET path == DirName[branch] IN
        /\ branch \notin Checked(wt)
        /\ path \notin DOMAIN wt.linked
        /\ path \notin {wt.linked[other].name : other \in DOMAIN wt.linked}
        /\ Start(p, [step |-> "add", branch |-> branch, path |-> path,
                     claimed |-> Claims(wt), alone |-> TRUE])

\* ... git adds the worktree, on the branch there is or a new one, or refuses ...
CreateAdds(p) ==
    LET s == shell[p] IN
    /\ s.step = "add"
    /\ \/ Goes(p, wt, Idle)
       \/ /\ s.path \notin DOMAIN wt.linked /\ s.branch \notin Checked(wt)
          /\ Goes(p, Added(wt, s.path, s.branch), [s EXCEPT !.step = "claim"])

\* ... and the lowest offset free when the worktrees were read is written into
\* it.  With every slot claimed the command throws, its worktree added.
CreateClaims(p) ==
    LET s == shell[p] IN
    /\ s.step = "claim"
    /\ IF AllocateOffset(s.claimed) = NoClaim \/ s.path \notin DOMAIN wt.linked
       THEN Goes(p, wt, Idle)
       ELSE Goes(p, Claimed(wt, s.path, s.path, AllocateOffset(s.claimed)),
                 [s EXCEPT !.step = "install"])

\* Dependencies install, or do not: the worktree and its claim stay.
CreateInstalls(p) == shell[p].step = "install" /\ Goes(p, wt, Idle)

\* remove: the first worktree of that name, claimed or of its directory ...
Named(w, path, name) == w.linked[path].name = name \/ path = name

RemoveBegun(p) ==
    \E name \in Range(Paths), keepBranch \in BOOLEAN, i \in DOMAIN Listed(wt) :
        LET path == Listed(wt)[i] IN
        /\ Named(wt, path, name)
        /\ \A j \in 1 .. i - 1 : ~Named(wt, Listed(wt)[j], name)
        /\ Start(p, [step |-> "kill", path |-> path, branch |-> wt.linked[path].branch,
                     offset |-> wt.linked[path].offset, keepBranch |-> keepBranch,
                     alone |-> TRUE])

RemoveKills(p) ==
    LET s == shell[p] IN
    /\ s.step = "kill"
    /\ Goes(p, IF s.offset = NoClaim THEN wt ELSE KillPorts(wt, s.offset),
            [s EXCEPT !.step = "remove"])

\* ... git removes it, or refuses one with changes in it ...
RemoveRemoves(p) ==
    LET s == shell[p] IN
    /\ s.step = "remove"
    /\ \/ Goes(p, wt, Idle)
       \/ /\ s.path \in DOMAIN wt.linked
          /\ Goes(p, Removed(wt, s.path),
                  IF s.keepBranch THEN Idle ELSE [s EXCEPT !.step = "branch"])

\* ... and its branch, unless it is checked out or not merged.
RemoveBranch(p) ==
    LET s == shell[p] IN
    /\ s.step = "branch"
    /\ \/ Goes(p, wt, Idle)
       \/ /\ s.branch \notin Checked(wt)
          /\ Goes(p, [wt EXCEPT !.branches = @ \ {s.branch}], Idle)

\* sync: the claims are read and planned; too few slots, and nothing is written.
SyncBegun(p) ==
    LET listed == Listed(wt)
        claims == [i \in DOMAIN listed |-> wt.linked[listed[i]].offset]
        plan == PlanSyncOffsets(claims)
    IN /\ NoClaim \notin Range(plan)
       /\ Start(p, [step |-> "write", listed |-> listed, plan |-> plan,
                    names |-> [i \in DOMAIN listed |->
                                 IF wt.linked[listed[i]].name = NoClaim THEN listed[i]
                                 ELSE wt.linked[listed[i]].name],
                    found |-> claims, alone |-> TRUE])

\* One worktree after the other is written; one that is gone stops it.
SyncWrites(p) ==
    LET s == shell[p] IN
    /\ s.step = "write"
    /\ IF s.listed = <<>>
       THEN Goes(p, [wt EXCEPT !.raced = @ /\ ~s.alone], [s EXCEPT !.step = "synced"])
       ELSE IF Head(s.listed) \notin DOMAIN wt.linked THEN Goes(p, wt, Idle)
       ELSE Goes(p, Claimed(wt, Head(s.listed), Head(s.names), Head(s.plan)),
                 [s EXCEPT !.listed = Tail(@), !.names = Tail(@), !.plan = Tail(@)])

SyncEnds(p) == shell[p].step = "synced" /\ Goes(p, wt, Idle)

\* A command is interrupted wherever it is.
Interrupted(p) == shell[p] # Idle /\ Goes(p, wt, Idle)

-----------------------------------------------------------------------------
(* Other hands: a tool that adds a worktree, a file lost or copied along with *)
(* its directory, a server started where a worktree's tasks start it          *)

Hand(w) ==
    /\ commands < MaxCommands
    /\ commands' = commands + 1
    /\ wt' = w
    /\ shell' = [p \in Shells |-> IF shell[p] = Idle THEN Idle ELSE Disturbed(shell[p])]

ToolAdds ==
    \E path \in Range(Paths), branch \in Branches :
        /\ path \notin DOMAIN wt.linked /\ branch \notin Checked(wt)
        /\ Hand(Added(wt, path, branch))

FileLost ==
    \E path \in DOMAIN wt.linked :
        /\ wt.linked[path].offset # NoClaim
        /\ Hand(Claimed(wt, path, NoClaim, NoClaim))

FileCopied ==
    \E from, to \in DOMAIN wt.linked :
        /\ from # to /\ wt.linked[from].offset # NoClaim
        /\ Hand([Claimed(wt, to, wt.linked[from].name, wt.linked[from].offset)
                   EXCEPT !.raced = TRUE])

ServerStarts ==
    \E path \in DOMAIN wt.linked :
        LET offset == IF wt.linked[path].offset = NoClaim THEN 0
                      ELSE wt.linked[path].offset
        IN /\ \A server \in wt.servers :
                PortsForOffset(server.offset) \cap PortsForOffset(offset) = {}
           /\ Hand([wt EXCEPT !.servers = @ \cup {[path |-> path, offset |-> offset]}])

WorktreesInit ==
    /\ wt = [linked |-> <<>>, branches |-> {}, servers |-> {}, raced |-> FALSE]
    /\ shell = [p \in Shells |-> Idle]
    /\ commands = 0

WorktreesNext ==
    \/ \E p \in Shells :
         \/ CreateBegun(p) \/ CreateAdds(p) \/ CreateClaims(p) \/ CreateInstalls(p)
         \/ RemoveBegun(p) \/ RemoveKills(p) \/ RemoveRemoves(p) \/ RemoveBranch(p)
         \/ SyncBegun(p) \/ SyncWrites(p) \/ SyncEnds(p)
         \/ Interrupted(p)
    \/ ToolAdds \/ FileLost \/ FileCopied \/ ServerStarts

WorktreesSpec == WorktreesInit /\ [][WorktreesNext]_worktreeVars

-----------------------------------------------------------------------------
(* Properties *)

\* The worktrees with the file each claims its offset in, the servers, the shells.
WorktreesTypeOK ==
    LET offsets == Offsets \cup {NoClaim}
    IN /\ DOMAIN wt.linked \subseteq Range(Paths)
       /\ \A path \in DOMAIN wt.linked :
            wt.linked[path] \in [branch : Branches, offset : offsets,
                                name : Range(Paths) \cup {NoClaim}]
       /\ wt.branches \subseteq Branches
       /\ wt.servers \subseteq [path : Range(Paths), offset : (offsets \ {NoClaim}) \cup {0}]
       /\ \A p \in Shells : shell[p].step \in {"idle", "add", "claim", "install", "kill",
                                              "remove", "branch", "write", "synced"}
       /\ commands \in 0 .. MaxCommands

Apart(offsets) ==
    \A path, other \in DOMAIN offsets :
        path # other => PortsForOffset(offsets[path]) \cap PortsForOffset(offsets[other]) = {}

\* As long as no two commands overlap and no claim is copied by hand, and again
\* after a sync nobody disturbed, every two worktrees with a claim, and the
\* primary, bind different ports, whatever was interrupted, lost, removed or added
\* by others in between; and a remove takes down no server of another worktree
\* that runs on the claim of its own.
ClaimsApart ==
    [][/\ ~wt'.raced =>
            LET claimed == {path \in DOMAIN wt'.linked : wt'.linked[path].offset # NoClaim}
            IN /\ Apart([path \in claimed |-> wt'.linked[path].offset])
               /\ \A path \in claimed :
                    PortsForOffset(wt'.linked[path].offset) \cap PortBases = {}
       /\ ~wt.raced =>
            \A server \in wt.servers \ wt'.servers :
                \/ \E p \in Shells : shell[p].step = "kill" /\ shell[p].path = server.path
                \/ server.path \notin DOMAIN wt.linked
                \/ server.offset # wt.linked[server.path].offset]_worktreeVars

\* A sync nobody disturbed leaves every worktree with ports of its own, whatever
\* state it found, and has moved no claim but the later one of two that clash.
SyncRepairs ==
    \A p \in Shells :
        shell[p].step = "synced" /\ shell[p].alone =>
            LET offsets == [i \in DOMAIN Listed(wt) |-> wt.linked[Listed(wt)[i]].offset]
                found == shell[p].found
            IN /\ NoClaim \notin Range(offsets)
               /\ Apart(offsets)
               /\ \A i \in DOMAIN found :
                    (found[i] # NoClaim /\ \A j \in 1 .. i - 1 : found[j] # found[i])
                      => offsets[i] = found[i]

\* Ports are apart, and a sync puts them apart again.
ClaimsHonest == [](WorktreesTypeOK /\ SyncRepairs) /\ ClaimsApart

=============================================================================
