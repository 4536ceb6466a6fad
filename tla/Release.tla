-------------------------------- MODULE Release -------------------------------
(***************************************************************************)
(* scripts/publish.ts: one package is built, packed, rewritten, packed     *)
(* again, checked and uploaded; then its version is promoted and tagged.   *)
(* A run is a chain of commands each of which may fail, or be interrupted, *)
(* while the tree it works from is edited, and it is run again from its    *)
(* start.                                                                  *)
(***************************************************************************)
EXTENDS Naturals, FiniteSets, Functions

CONSTANTS
    Versions,     \* versions the manifest may have; the rest of a tree is a body
    Defects,      \* what may be wrong with a source tree
    MaxRuns,      \* runs of the script
    MaxEdits      \* edits of the tree

VARIABLES
    rel           \* the tree, the run under way, the registry, the tags

releaseVars == <<rel>>

\* What is packed from a tree: "scripts" and "devDependencies" are in every
\* source manifest; a defect is a private package depended on or imported, a
\* build file that leaked, an exported file or a doc that is missing, a payload
\* that consumers cannot resolve.
ReleaseOnly == {"scripts", "devDependencies"}

PayloadDefects == {"privateDependency", "privateImport", "tsbuildinfo",
                   "missingExport", "missingDoc"}

ConsumerDefects == {"publintError", "attwFailure"}

ASSUME DefectsAssumption == Defects \subseteq PayloadDefects \cup ConsumerDefects

ASSUME ReleaseBoundsAssumption == MaxRuns \in Nat /\ MaxEdits \in Nat

Sources == [version : Versions, body : {"old", "new"}, has : {ReleaseOnly \cup d : d \in
                {d \in SUBSET Defects : Cardinality(d) <= 1}}]

\* devDependencies may be all that names a private package: they are dropped,
\* and the manifest is looked at after.
RewritePublishManifest(source) == [source EXCEPT !.has = @ \ ReleaseOnly]

NoRun == [step |-> "idle"]

\* A registry and a repository keep what they have under a name.
Kept(f, name, value) ==
    [other \in DOMAIN f \cup {name} |-> IF other \in DOMAIN f THEN f[other] ELSE value]

ParseArgs ==
    [dryRun : BOOLEAN, promoteLatest : BOOLEAN, tagRelease : BOOLEAN, allowDirty : BOOLEAN]

-----------------------------------------------------------------------------
(* The pipeline *)

Continues(next) == rel' = [rel EXCEPT !.run = next]

Fails == Continues(NoRun)

Started ==
    /\ rel.run = NoRun
    /\ rel.runs < MaxRuns
    /\ \E flags \in ParseArgs :
         rel' = [rel EXCEPT !.runs = @ + 1,
                            !.run = [step |-> "preflight", flags |-> flags, still |-> TRUE]]

At(step) == rel.run.step = step

\* A clean tree, unless --dirty; then the version pin, and the build.
Preflight ==
    /\ At("preflight")
    /\ rel.run.flags.allowDirty \/ rel.tree = rel.head
    /\ Continues([rel.run EXCEPT !.step = "pack", !.still = rel.tree = rel.head])

\* The tree is packed as it is by now, and the unpacked manifest rewritten.
PackTarball ==
    /\ At("pack")
    /\ Continues([step |-> "assert", flags |-> rel.run.flags, still |-> rel.run.still,
                  artifact |-> RewritePublishManifest(rel.tree)])

AssertPublishPayload(artifact) == artifact.has \cap PayloadDefects = {}

AssertConsumerCorrectness(artifact) == artifact.has \cap ConsumerDefects = {}

AssertPayload ==
    /\ At("assert")
    /\ IF AssertPublishPayload(rel.run.artifact)
       THEN Continues([rel.run EXCEPT !.step = "repack"]) ELSE Fails

Lacking(artifact, lost) == [artifact EXCEPT !.has = @ \cup lost]

\* Packing the payload again leaves out what its manifest does not list.
Repack ==
    /\ At("repack")
    /\ \E lost \in SUBSET ({"missingExport", "missingDoc"} \cap Defects) :
         Continues([rel.run EXCEPT !.step = "verify", !.artifact = Lacking(@, lost)])

VerifiedOnce(artifact) ==         \* the payload was looked at before it was packed again
    AssertConsumerCorrectness(artifact)

Verified(artifact) ==
    AssertPublishPayload(artifact) /\ AssertConsumerCorrectness(artifact)

Verify ==
    /\ At("verify")
    /\ IF Verified(rel.run.artifact)
       THEN Continues([rel.run EXCEPT !.step = "publish"]) ELSE Fails

DryRunPublish == At("publish") /\ rel.run.flags.dryRun /\ Continues(NoRun)

\* The registry takes a version once.  The answer that it did may be lost.
Uploaded(run) ==
    [rel EXCEPT !.registry = Kept(@, run.artifact.version,
                                   [has |-> run.artifact.has, body |-> run.artifact.body])]

PublishUnheeded ==                \* the exit status of the upload is not looked at
    /\ At("publish") /\ ~rel.run.flags.dryRun
    /\ \E next \in {NoRun, [rel.run EXCEPT !.step = "promote"]} :
         rel' = [(IF rel.run.artifact.version \in DOMAIN rel.registry THEN rel
                  ELSE Uploaded(rel.run)) EXCEPT !.run = next]

PublishTarball ==
    /\ At("publish") /\ ~rel.run.flags.dryRun
    /\ rel.run.artifact.version \notin DOMAIN rel.registry
    /\ \E next \in {NoRun, [rel.run EXCEPT !.step = "promote"]} :
         rel' = [Uploaded(rel.run) EXCEPT !.run = next]

PromoteLatest ==
    /\ At("promote")
    /\ rel' = [rel EXCEPT !.run.step = "tag",
                          !.latest = IF rel.run.flags.promoteLatest
                                     THEN {rel.run.artifact.version} ELSE @]

\* The tag names the commit that is checked out by now; git makes a name once.
TagRelease ==
    /\ At("tag")
    /\ IF ~rel.run.flags.tagRelease THEN Continues(NoRun)
       ELSE /\ rel.run.artifact.version \notin DOMAIN rel.tags
            /\ rel' = [rel EXCEPT !.run.step = "push",
                                  !.tags = Kept(@, rel.run.artifact.version,
                                            [commit |-> rel.head, still |-> rel.run.still])]

Pushed(version) == [rel EXCEPT !.pushed = Kept(@, version, rel.tags[version])]

Push ==
    /\ At("push")
    /\ rel' = [Pushed(rel.run.artifact.version) EXCEPT !.run = NoRun]

\* Any of the commands fails, or the run is interrupted.
Fail == rel.run # NoRun /\ Fails

-----------------------------------------------------------------------------
(* The tree *)

Edited(r) == IF r.run = NoRun THEN r ELSE [r EXCEPT !.run.still = FALSE]

Edit ==
    /\ rel.edits < MaxEdits
    /\ \E source \in Sources :
         rel' = [Edited(rel) EXCEPT !.edits = @ + 1, !.tree = source]

Commit ==
    /\ rel.tree # rel.head
    /\ rel' = [Edited(rel) EXCEPT !.head = rel.tree]

ReleaseInit ==
    \E source \in Sources :
        rel = [tree |-> source, head |-> source, run |-> NoRun, runs |-> 0, edits |-> 0,
               registry |-> <<>>, latest |-> {}, tags |-> <<>>, pushed |-> <<>>]

ReleaseNext ==
    \/ Started \/ Preflight \/ PackTarball \/ AssertPayload \/ Repack \/ Verify
    \/ DryRunPublish \/ PublishTarball \/ PromoteLatest \/ TagRelease \/ Push \/ Fail
    \/ Edit \/ Commit

ReleaseSpec == ReleaseInit /\ [][ReleaseNext]_releaseVars

-----------------------------------------------------------------------------
(* Properties *)

\* The tree, the run and what is outside of the repository.
ReleaseTypeOK ==
    LET commits == [commit : Sources, still : BOOLEAN]
    IN /\ {rel.tree, rel.head} \subseteq Sources
       /\ rel.run.step \in {"idle", "preflight", "pack", "assert", "repack", "verify",
                            "publish", "promote", "tag", "push"}
       /\ rel.run # NoRun => rel.run.flags \in ParseArgs
       /\ DOMAIN rel.registry \cup rel.latest \subseteq Versions
       /\ Range(rel.tags) \subseteq commits /\ DOMAIN rel.tags \subseteq Versions
       /\ DOMAIN rel.pushed \subseteq DOMAIN rel.tags
       /\ rel.runs \in 0 .. MaxRuns /\ rel.edits \in 0 .. MaxEdits

\* Nothing is ever in the registry that a check would have refused, or that
\* still has what only a source manifest has: what ships is what was verified,
\* however runs failed and the tree changed.
ShippedVerified ==
    \A version \in DOMAIN rel.registry :
        rel.registry[version].has
            \cap (ReleaseOnly \cup PayloadDefects \cup ConsumerDefects) = {}

\* "latest" and every pushed tag name a version the registry has; and the tag is
\* on the commit the version was built from, if the run found the tree clean and
\* nobody touched it until the tag was made, whichever runs failed before it.
TagsName ==
    /\ rel.latest \subseteq DOMAIN rel.registry
    /\ \A version \in DOMAIN rel.pushed :
         LET tag == rel.pushed[version] IN
         /\ version \in DOMAIN rel.registry
         /\ tag.still => /\ tag.commit.version = version
                         /\ tag.commit.body = rel.registry[version].body

\* The registry, and the names given to what it has.
ReleaseSound == ReleaseTypeOK /\ ShippedVerified /\ TagsName

=============================================================================
