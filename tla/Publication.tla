----------------------------- MODULE Publication -----------------------------
(***************************************************************************)
(* From a pick to the live site.  promote (ui_servo/control/promote.py)    *)
(* gates the picked fragment and writes it into the repository; a deploy   *)
(* (.github/workflows/deploy.yml) exports the site of one commit, which    *)
(* loads the fragment again (site/src/fragments/promoted.rs), and uploads  *)
(* it; ui-servo-activate makes the upload a release and the live one, and  *)
(* is the administrator's rollback tool too.                               *)
(*                                                                         *)
(* The walk of the gate touches nothing that is shared, so nothing else    *)
(* moves while a fragment is walked, and the first pick has been taken up. *)
(* A release is named by its commit and known by the commit it was built   *)
(* from.  Git, rsync and the CI runner are external.                       *)
(***************************************************************************)
EXTENDS FragmentGate

CONSTANTS Offered,      \* Offered[k]: what the k-th pick may be
          Commits,      \* bound: commits
          MaxDeploys,   \* bound: deploys begun
          MaxRollbacks, \* bound: rollbacks begun
          KEEP,         \* releases kept on disk
          Calm          \* a rollback waits for the deploys, and they for it

ASSUME PublicationAssumption ==
    /\ 1 \in DOMAIN Offered
    /\ {Commits, MaxDeploys, MaxRollbacks, KEEP} \subseteq Nat /\ KEEP > 0
    /\ Calm \in BOOLEAN
ASSUME OfferedAssumption == \A k \in DOMAIN Offered : Offered[k] \subseteq Seq(Token)

Sha == 1..Commits
Pick == DOMAIN Offered
None == 0
Torn == -1
Actor == {"ci", "admin"}

VARIABLES
    promoting,  \* where promote is
    picks,      \* picks taken up
    gated,      \* picks the gate accepted (history)
    file,       \* the promoted file: None, a pick, or Torn
    commits,    \* commits[s]: the promoted file in commit s
    deploys, rollbacks,
    upload,     \* what the runner holds: the commit it built, or None
    incoming,   \* incoming: what is staged; built = None is an empty directory
    incomingIs, \* the directory incoming exists
    releases,   \* releases[s]: [built, whole, stamp], built = None for none
    tmp,        \* current.tmp
    current,    \* current
    script      \* script[a]: where a's ui-servo-activate is, and its sha

site == <<promoting, picks, gated, file, commits, deploys, rollbacks, upload, incoming,
          incomingIs, releases, tmp, current, script>>
vars == <<gate, site>>

Empty == [built |-> None, whole |-> FALSE, stamp |-> 0]

Walking == promoting = "walking"

Init ==
    /\ \E f \in Offered[1] : GateInit(f)
    /\ promoting = "walking"
    /\ picks = 1
    /\ gated = {}
    /\ file = None
    /\ commits = <<>>
    /\ deploys = 0
    /\ rollbacks = 0
    /\ upload = None
    /\ incoming = Empty
    /\ incomingIs = TRUE
    /\ releases = [s \in Sha |-> Empty]
    /\ tmp = None
    /\ current = None
    /\ script = [a \in Actor |-> [pc |-> "idle", sha |-> None]]

-----------------------------------------------------------------------------
(* promote.py                                                              *)

BeginPromotion ==
    /\ promoting = "idle"
    /\ picks + 1 \in Pick
    /\ Feed(Offered[picks + 1])
    /\ picks' = picks + 1
    /\ promoting' = "walking"
    /\ UNCHANGED <<gated, file, commits, deploys, rollbacks, upload, incoming, incomingIs,
                   releases, tmp, current, script>>

Walk ==
    /\ Walking
    /\ GateNext
    /\ UNCHANGED site

(* result.accepted, and no span id is left in the stripped markup.         *)
Promotable ==
    /\ verdict = "accepted"
    /\ \A token \in Range(fragment) : token.kind = "text" => ~token.quotes

(* promote refuses, or opens the file it replaces; the fragment is done    *)
(* with either way.                                                        *)
DecidePromotion ==
    /\ Walking
    /\ verdict # "none"
    /\ gated' = IF verdict = "accepted" THEN gated \cup {picks} ELSE gated
    /\ IF Promotable
         THEN promoting' = "writing" /\ file' = Torn
         ELSE promoting' = "idle" /\ UNCHANGED file
    /\ Feed({<<>>})
    /\ UNCHANGED <<picks, commits, deploys, rollbacks, upload, incoming, incomingIs,
                   releases, tmp, current, script>>

(* write_text ends, or the process dies inside it.                         *)
WriteFile ==
    /\ promoting = "writing"
    /\ promoting' = "idle"
    /\ file' \in {picks, Torn}
    /\ UNCHANGED <<gate, picks, gated, commits, deploys, rollbacks, upload, incoming,
                   incomingIs, releases, tmp, current, script>>

Commit ==
    /\ ~Walking
    /\ Len(commits) < Commits
    /\ commits' = Append(commits, file)
    /\ UNCHANGED <<gate, promoting, picks, gated, file, deploys, rollbacks, upload, incoming,
                   incomingIs, releases, tmp, current, script>>

-----------------------------------------------------------------------------
(* deploy.yml; the runs are queued, one at a time                          *)

Idle(a) == script[a].pc = "idle"

(* Mutated: the digest is not compared when the fragment is loaded.        *)
LoadsUnchecked(content) == TRUE

(* verify_promotions: none, or one that hashes to what it records.         *)
Loads(content) == content # Torn

(* The export of any commit, an older one for a rollback; a build fails    *)
(* when the promoted file does not load.                                   *)
Build ==
    /\ ~Walking
    /\ upload = None /\ Idle("ci")
    /\ Calm => Idle("admin")
    /\ deploys < MaxDeploys
    /\ \E s \in DOMAIN commits :
          /\ Loads(commits[s])
          /\ upload' = s
    /\ deploys' = deploys + 1
    /\ UNCHANGED <<gate, promoting, picks, gated, file, commits, rollbacks, incoming,
                   incomingIs, releases, tmp, current, script>>

(* rsync -az --delete: incoming is neither the old nor the new upload.     *)
BeginUpload ==
    /\ ~Walking
    /\ upload # None /\ Idle("ci")
    /\ ~(incoming.built = upload /\ incoming.stamp = deploys)
    /\ incoming' = [built |-> upload, whole |-> FALSE, stamp |-> deploys]
    /\ incomingIs' = TRUE
    /\ UNCHANGED <<gate, promoting, picks, gated, file, commits, deploys, rollbacks, upload,
                   releases, tmp, current, script>>

EndUpload ==
    /\ ~Walking
    /\ upload # None /\ Idle("ci")
    /\ incoming.built = upload /\ incoming.stamp = deploys /\ ~incoming.whole
    /\ incoming' = [incoming EXCEPT !.whole = TRUE]
    /\ script' = [script EXCEPT !["ci"] = [pc |-> "test", sha |-> upload]]
    /\ UNCHANGED <<gate, promoting, picks, gated, file, commits, deploys, rollbacks, upload,
                   incomingIs, releases, tmp, current>>

(* The job fails before it asks for the activation.                        *)
CutUpload ==
    /\ ~Walking
    /\ upload # None /\ Idle("ci")
    /\ upload' = None
    /\ UNCHANGED <<gate, promoting, picks, gated, file, commits, deploys, rollbacks, incoming,
                   incomingIs, releases, tmp, current, script>>

(* deploy/README.md, "Roll back".                                          *)
RollBack ==
    /\ ~Walking
    /\ Idle("admin")
    /\ rollbacks < MaxRollbacks
    /\ Calm => upload = None /\ incoming = Empty
    /\ rollbacks' = rollbacks + 1
    /\ \E s \in Sha :
          /\ releases[s] # Empty
          /\ script' = [script EXCEPT !["admin"] = [pc |-> "test", sha |-> s]]
    /\ UNCHANGED <<gate, promoting, picks, gated, file, commits, deploys, upload, incoming,
                   incomingIs, releases, tmp, current>>

-----------------------------------------------------------------------------
(* ui-servo-activate                                                       *)

At(a, where) == ~Walking /\ script[a].pc = where

(* The CI job ends with the script it asked for.                           *)
GoTo(a, where) ==
    /\ script' = [script EXCEPT ![a].pc = where]
    /\ upload' = IF a = "ci" /\ where = "idle" THEN None ELSE upload
    /\ UNCHANGED <<gate, promoting, picks, gated, file, commits, deploys, rollbacks>>

(* Anything staged becomes this release; with nothing staged it is a       *)
(* rollback, if the release is there.                                      *)
TestIncoming(a) ==
    /\ At(a, "test")
    /\ GoTo(a, CASE incoming # Empty -> "rm"
                 [] incoming = Empty /\ releases[script[a].sha] # Empty -> "ln"
                 [] OTHER -> "idle")
    /\ UNCHANGED <<incoming, incomingIs, releases, tmp, current>>

RemoveRelease(a) ==
    /\ At(a, "rm")
    /\ releases' = [releases EXCEPT ![script[a].sha] = Empty]
    /\ GoTo(a, "mv")
    /\ UNCHANGED <<incoming, incomingIs, tmp, current>>

(* mv fails and set -e ends the script when incoming was taken meanwhile;  *)
(* a release that came back meanwhile only gets it as a subdirectory.      *)
MoveIncoming(a) ==
    /\ At(a, "mv")
    /\ IF incomingIs
         THEN /\ releases' = [releases EXCEPT ![script[a].sha] = IF @ = Empty THEN incoming ELSE @]
              /\ incoming' = Empty
              /\ incomingIs' = FALSE
              /\ GoTo(a, "mkdir")
         ELSE GoTo(a, "idle") /\ UNCHANGED <<incoming, incomingIs, releases>>
    /\ UNCHANGED <<tmp, current>>

MakeIncoming(a) ==
    /\ At(a, "mkdir")
    /\ incomingIs' = TRUE
    /\ GoTo(a, "ln")
    /\ UNCHANGED <<incoming, releases, tmp, current>>

LinkTmp(a) ==
    /\ At(a, "ln")
    /\ tmp' = script[a].sha
    /\ GoTo(a, "rename")
    /\ UNCHANGED <<incoming, incomingIs, releases, current>>

RenameTmp(a) ==
    /\ At(a, "rename")
    /\ IF tmp # None THEN current' = tmp /\ tmp' = None /\ GoTo(a, "prune")
                     ELSE GoTo(a, "idle") /\ UNCHANGED <<tmp, current>>
    /\ UNCHANGED <<incoming, incomingIs, releases>>

(* Mutated: ls -1dtr.                                                      *)
Oldest ==
    {s \in Sha : Cardinality({t \in Sha : /\ releases[t] # Empty
                                          /\ releases[t].stamp < releases[s].stamp}) < KEEP}

(* ls -1dt: by the time of the build, which rsync and mv preserve.         *)
Newest == {s \in Sha : Cardinality({t \in Sha : releases[t].stamp > releases[s].stamp}) < KEEP}

Prune(a) ==
    /\ At(a, "prune")
    /\ releases' = [s \in Sha |-> IF s \in Newest THEN releases[s] ELSE Empty]
    /\ GoTo(a, "idle")
    /\ UNCHANGED <<incoming, incomingIs, tmp, current>>

Activate(a) ==
    \/ TestIncoming(a) \/ RemoveRelease(a) \/ MoveIncoming(a) \/ MakeIncoming(a)
    \/ LinkTmp(a) \/ RenameTmp(a) \/ Prune(a)

Next ==
    \/ BeginPromotion \/ Walk \/ DecidePromotion \/ WriteFile \/ Commit
    \/ Build \/ BeginUpload \/ EndUpload \/ CutUpload \/ RollBack
    \/ \E a \in Actor : Activate(a)

Spec == Init /\ [][Next]_vars

-----------------------------------------------------------------------------
(* Properties                                                              *)

Content == Pick \cup {None, Torn}

Release == [built : {None} \cup Sha, whole : BOOLEAN, stamp : 0..MaxDeploys]

Command == {"idle", "test", "rm", "mv", "mkdir", "ln", "rename", "prune"}

(* Every variable has the shape the code gives it.                         *)
SiteTypeOK ==
    /\ promoting \in {"idle", "walking", "writing"}
    /\ picks \in Pick
    /\ gated \subseteq Pick
    /\ file \in Content
    /\ commits \in Seq(Content)
    /\ Len(commits) <= Commits
    /\ deploys \in 0..MaxDeploys
    /\ rollbacks \in 0..MaxRollbacks
    /\ {upload, tmp, current} \subseteq {None} \cup DOMAIN commits
    /\ incoming \in Release
    /\ incomingIs \in BOOLEAN
    /\ releases \in [Sha -> Release]
    /\ script \in [Actor -> [pc : Command, sha : {None} \cup DOMAIN commits]]

TypeOK == GateTypeOK /\ SiteTypeOK

(* What a visitor is served of a pick went through the gate: every release *)
(* on disk was built from a commit whose promoted file is a whole file     *)
(* that promote wrote for a pick the gate accepted (promote, load).        *)
ServedWasGated ==
    \A s \in Sha : releases[s].built # None =>
                      commits[releases[s].built] \in gated \cup {None}

(* Once a release is live there is one, it is complete, and pruning never  *)
(* takes it, except while an activation of that very commit has taken it   *)
(* out to put the new upload in (ui-servo-activate).                       *)
LiveIsComplete ==
    current # None =>
       \/ releases[current].whole
       \/ \E a \in Actor : script[a] = [pc |-> "mv", sha |-> current]

(* A release holds what was built from the commit that names it: "It is    *)
(* also the rollback tool -- pass an older sha that is still on disk and   *)
(* it re-points the symlink without a rebuild".                            *)
ReleaseIsItsCommit == \A s \in Sha : releases[s].built \in {None, s}
=============================================================================
