----------------------------- MODULE StorageUsage -----------------------------
(***************************************************************************)
(* What a user's files add up to, and the counter that is charged for them *)
(* (upload/complete, attachment-direct.ts, storage-limits.ts,              *)
(* storage-repository.ts, reap-orphaned-files.ts, orphan-detector.ts).     *)
(*                                                                         *)
(* Storage is addressed by content: the first upload of a content inserts  *)
(* its row and is charged, later ones link to it.  A row nobody links to   *)
(* is reaped and its owner credited.  Row and counter are written in       *)
(* separate statements, so a reconcile (a cron, and one an administrator   *)
(* asks for) compares the two and moves the counter by the difference.     *)
(*                                                                         *)
(* There is no clock: a row is fresh while it is within the cooldown, and  *)
(* the charge of an upload, or the reads of a reconcile, do not outlast    *)
(* it.  Blobs, slots and quotas are left out.                              *)
(***************************************************************************)
EXTENDS Integers, FiniteSets, Functions

CONSTANTS
    Users,
    Contents,
    SizeOf,      \* the size of a content
    Uploads,     \* completions of uploads, each with a page of its own
    UploaderOf,
    ContentOf,
    Knows,       \* uploads whose user had a reference to the content at presign
    Reapers,     \* runs of reapOrphanedFiles: the cron's and the delete routes'
    AskedFor,    \* the contents a run is asked for
    Admins,      \* reconciles an administrator asks for, one each
    WhoOf,       \* the user it is asked for
    Cron,        \* the scheduled reconcile
    Tolerance,   \* STORAGE_DRIFT_TOLERANCE_BYTES
    MaxFaults,   \* bound: failed statements and dead processes
    None

ASSUME UsageAssumption ==
    /\ IsFiniteSet(Contents) /\ SizeOf \in [Contents -> Nat \ {0}]
    /\ UploaderOf \in [Uploads -> Users] /\ ContentOf \in [Uploads -> Contents]
    /\ Knows \subseteq Uploads /\ AskedFor \in [Reapers -> SUBSET Contents]
    /\ WhoOf \in [Admins -> Users]
    /\ Cron \notin Admins /\ None \notin Users \cup Admins \cup {Cron}
    /\ Tolerance \in Nat /\ MaxFaults \in Nat

VARIABLES
    file,     \* the rows of files: owner (createdBy), freshness, pages that link to it
    upload,   \* where the completion of an upload is
    used,     \* users.storageUsedBytes
    reaper,   \* the reaps: <<content, owner>> of rows found, then deleted and not credited
    recon,    \* the reconciles: what they have read, and the corrections to make
    lock,     \* the advisory lock of the reconciles
    suspect,  \* history: users whose counter one of the races below has met
    faults

vars == <<file, upload, used, reaper, recon, lock, suspect, faults>>

NoFile == [owner |-> None, fresh |-> FALSE, pages |-> {}]
NoReap == [pc |-> "idle", rows |-> {}]
NoRecon == [pc |-> "idle", read |-> 0, torn |-> FALSE, delta |-> [u \in Users |-> 0]]

Init ==
    /\ file = [c \in Contents |-> NoFile]
    /\ upload = [p \in Uploads |-> "idle"]
    /\ used = [u \in Users |-> 0]
    /\ reaper = [r \in Reapers |-> NoReap]
    /\ recon = [k \in Admins \cup {Cron} |-> NoRecon]
    /\ lock = None
    /\ suspect = {}
    /\ faults = 0

Fault == faults < MaxFaults /\ faults' = faults + 1

\* The bytes of the contents in S.
Total(S) == SumFunctionOnSet(SizeOf, S)
Files(u) == {c \in Contents : file[c].owner = u}
Derived(u) == Total(Files(u))
Charging(c) == {p \in Uploads : upload[p] = "charge" /\ ContentOf[p] = c}

\* Inserted by u, and not charged yet.
Uncharged(u) == {c \in Contents : \E p \in Charging(c) : UploaderOf[p] = u}

\* Deleted by reaper r, not credited yet, and to be credited to u.
Uncredited(r, u) ==
    {c \in Contents : reaper[r].pc = "credit" /\ <<c, u>> \in reaper[r].rows}

\* GREATEST(0, storageUsedBytes + delta)
Moved(u, delta) ==
    [used EXCEPT ![u] = IF @ + delta < 0 THEN 0 ELSE @ + delta]

(***************************************************************************)
(* Uploads                                                                 *)
(***************************************************************************)
Charged(inserted) == inserted

\* One transaction claims the row of the content, or links to the one there is,
\* if the caller may.
Complete(p) ==
    LET c == ContentOf[p]
        u == UploaderOf[p]
        inserted == file[c].owner = None
    IN  /\ upload[p] = "idle"
        /\ IF inserted THEN file' = [file EXCEPT ![c] = [owner |-> u, fresh |-> TRUE, pages |-> {p}]]
           ELSE IF file[c].owner = u \/ p \in Knows THEN file' = [file EXCEPT ![c].pages = @ \cup {p}]
           ELSE UNCHANGED file
        /\ upload' = [upload EXCEPT ![p] =
              IF p \in file'[c].pages /\ Charged(inserted) THEN "charge" ELSE "done"]
        /\ UNCHANGED <<used, reaper, recon, lock, suspect, faults>>

\* The charge is best-effort bookkeeping after the commit.
Charge(p) ==
    /\ upload[p] = "charge"
    /\ upload' = [upload EXCEPT ![p] = "done"]
    /\ \/ /\ used' = Moved(UploaderOf[p], SizeOf[ContentOf[p]])
          /\ UNCHANGED <<suspect, faults>>
       \/ /\ Fault
          /\ suspect' = suspect \cup {UploaderOf[p]}
          /\ UNCHANGED used
    /\ UNCHANGED <<file, reaper, recon, lock>>

\* The page of an upload is deleted for good.
DeletePage(p) ==
    /\ p \in file[ContentOf[p]].pages
    /\ file' = [file EXCEPT ![ContentOf[p]].pages = @ \ {p}]
    /\ UNCHANGED <<upload, used, reaper, recon, lock, suspect, faults>>

\* The cooldown of a row ends.
Age(c) ==
    /\ file[c].fresh /\ Charging(c) = {}
    /\ \A a \in Admins : recon[a].pc \notin {"rows", "last"}
    /\ file' = [file EXCEPT ![c].fresh = FALSE]
    /\ UNCHANGED <<upload, used, reaper, recon, lock, suspect, faults>>

(***************************************************************************)
(* The reaper                                                              *)
(***************************************************************************)
Orphans == {c \in Contents : file[c].owner # None /\ file[c].pages = {}}

\* The orphans among the files it was asked for, whose blobs it could delete.
FindOrphans(r) ==
    /\ reaper[r].pc = "idle"
    /\ \E T \in (SUBSET (Orphans \cap AskedFor[r])) \ {{}} :
          reaper' = [reaper EXCEPT ![r] =
              [pc |-> "delete", rows |-> {<<c, file[c].owner>> : c \in T}]]
    /\ UNCHANGED <<file, upload, used, recon, lock, suspect, faults>>

EndReap(r) == reaper' = [reaper EXCEPT ![r] = NoReap]

\* The rows are deleted if nothing links to them now.  The credit goes to the
\* owner found before: the row may be another one's by now.  A row whose charge
\* is still to come is deleted like any other.
DeleteRows(r) ==
    /\ reaper[r].pc = "delete"
    /\ LET deleted == {row \in reaper[r].rows : row[1] \in Orphans}
           gone == {row[1] : row \in deleted}
       IN  /\ file' = [c \in Contents |-> IF c \in gone THEN NoFile ELSE file[c]]
           /\ IF gone = {} THEN EndReap(r)
              ELSE reaper' = [reaper EXCEPT ![r] = [pc |-> "credit", rows |-> deleted]]
           /\ recon' = [k \in Admins \cup {Cron} |->
                 IF recon[k].pc \in {"rows", "last"} /\ \E c \in gone : file[c].owner = WhoOf[k]
                 THEN [recon[k] EXCEPT !.torn = TRUE] ELSE recon[k]]
           /\ suspect' = suspect \cup UNION {{file[row[1]].owner, row[2]} : row \in {x \in deleted :
                 Charging(x[1]) # {} \/ file[x[1]].owner # x[2]}}
    /\ UNCHANGED <<upload, used, lock, faults>>

Credited(r, row) ==
    IF reaper[r].rows = {row} THEN EndReap(r)
    ELSE reaper' = [reaper EXCEPT ![r].rows = @ \ {row}]

\* One statement per row; one that fails is logged and forgotten.
Credit(r) ==
    /\ reaper[r].pc = "credit"
    /\ \E row \in reaper[r].rows :
          /\ Credited(r, row)
          /\ \/ /\ used' = Moved(row[2], - SizeOf[row[1]])
                /\ UNCHANGED <<suspect, faults>>
             \/ /\ Fault
                /\ suspect' = suspect \cup {row[2]}
                /\ UNCHANGED used
    /\ UNCHANGED <<file, upload, recon, lock>>

(***************************************************************************)
(* The reconciles, one at a time                                           *)
(***************************************************************************)
Drift(u) == Derived(u) - used[u]
Flagged(delta) == delta > Tolerance \/ delta < - Tolerance

\* Mutant of Settled: a user's last upload is not waited for.
SettledAtOnce(u) == TRUE

\* None of the user's rows is within the cooldown.
Settled(u) == \A c \in Files(u) : ~ file[c].fresh

\* Mutant of Candidates: users without files are lost in the join.
CandidatesWithFiles == {u \in Users : Flagged(Drift(u)) /\ Settled(u) /\ Files(u) # {}}

Candidates == {u \in Users : Flagged(Drift(u)) /\ Settled(u)}

\* A credit that is still to come makes the counter look too high.
Reaping(u) == \E r \in Reapers : Uncredited(r, u) # {}

\* Mutant of Unlocked: the advisory lock is not asked for.
UnlockedAlways == TRUE

Unlocked == lock = None

\* The cron reads counters and rows of all users in one statement.
CronScan ==
    /\ Unlocked /\ Candidates # {}
    /\ lock' = Cron
    /\ recon' = [recon EXCEPT ![Cron] = [NoRecon EXCEPT
          !.pc = "correct", !.delta = [u \in Users |-> IF u \in Candidates THEN Drift(u) ELSE 0]]]
    /\ suspect' = suspect \cup {u \in Candidates : Reaping(u)}
    /\ UNCHANGED <<file, upload, used, reaper, faults>>

\* An administrator's reconcile reads the counter, the rows and the newest row
\* in three.
AdminRead(a) ==
    /\ recon[a].pc = "idle" /\ Unlocked
    /\ lock' = a
    /\ recon' = [recon EXCEPT ![a] = [NoRecon EXCEPT
          !.pc = "rows", !.read = used[WhoOf[a]], !.torn = Reaping(WhoOf[a])]]
    /\ UNCHANGED <<file, upload, used, reaper, suspect, faults>>

AdminRows(a) ==
    /\ recon[a].pc = "rows"
    /\ recon' = [recon EXCEPT ![a].pc = "last", ![a].read = Derived(WhoOf[a]) - @]
    /\ UNCHANGED <<file, upload, used, reaper, lock, suspect, faults>>

EndRecon(k) ==
    /\ recon' = [recon EXCEPT ![k] = IF k = Cron THEN NoRecon ELSE [NoRecon EXCEPT !.pc = "done"]]
    /\ lock' = None

AdminLast(a) ==
    /\ recon[a].pc = "last"
    /\ IF Settled(WhoOf[a]) /\ Flagged(recon[a].read)
       THEN /\ recon' = [recon EXCEPT ![a] = [NoRecon EXCEPT
                  !.pc = "correct", !.delta[WhoOf[a]] = recon[a].read]]
            /\ suspect' = IF recon[a].torn THEN suspect \cup {WhoOf[a]} ELSE suspect
            /\ UNCHANGED lock
       ELSE EndRecon(a) /\ UNCHANGED suspect
    /\ UNCHANGED <<file, upload, used, reaper, faults>>

\* The difference is added, whatever the counter is by now; a user whose
\* transaction fails is left for the next run.
Correct(k, u) ==
    /\ recon[k].pc = "correct" /\ recon[k].delta[u] # 0
    /\ IF \A v \in Users \ {u} : recon[k].delta[v] = 0 THEN EndRecon(k)
       ELSE recon' = [recon EXCEPT ![k].delta[u] = 0] /\ UNCHANGED lock
    /\ \/ used' = Moved(u, recon[k].delta[u]) /\ UNCHANGED faults
       \/ Fault /\ UNCHANGED used
    /\ UNCHANGED <<file, upload, reaper, suspect>>

(***************************************************************************)
(* Specification                                                           *)
(***************************************************************************)
Reap(r) == DeleteRows(r) \/ Credit(r)

Reconcile(k) ==
    \/ k \in Admins /\ (AdminRows(k) \/ AdminLast(k))
    \/ \E u \in Users : Correct(k, u)

Next ==
    \/ \E p \in Uploads : Complete(p) \/ Charge(p) \/ DeletePage(p)
    \/ \E c \in Contents : Age(c)
    \/ \E r \in Reapers : FindOrphans(r) \/ Reap(r)
    \/ CronScan
    \/ \E a \in Admins : AdminRead(a)
    \/ \E k \in Admins \cup {Cron} : Reconcile(k)

Spec == Init /\ [][Next]_vars

\* What has begun goes on, cooldowns pass and the cron comes round: the system
\* does not stop while there is any such step to take.
Progress ==
    \/ \E p \in Uploads : Charge(p)
    \/ \E c \in Contents : Age(c)
    \/ \E r \in Reapers : Reap(r)
    \/ CronScan
    \/ \E k \in Admins \cup {Cron} : Reconcile(k)

FairSpec == Spec /\ WF_vars(Progress)

(***************************************************************************)
(* Properties                                                              *)
(***************************************************************************)
\* Types; a row has an owner or nothing at all; and whoever corrects holds the
\* lock, and is alone.
TypeOK ==
    /\ file \in [Contents -> [owner : Users \cup {None}, fresh : BOOLEAN, pages : SUBSET Uploads]]
    /\ \A c \in Contents : file[c].owner = None => file[c] = NoFile
    /\ upload \in [Uploads -> {"idle", "charge", "done"}]
    /\ used \in [Users -> Nat]
    /\ reaper \in [Reapers -> [pc : {"idle", "delete", "credit"}, rows : SUBSET (Contents \X Users)]]
    /\ \A r \in Reapers : reaper[r].rows = {} <=> reaper[r].pc = "idle"
    /\ recon \in [Admins \cup {Cron} ->
          [pc : {"idle", "rows", "last", "correct", "done"},
           read : Int, torn : BOOLEAN, delta : [Users -> Int]]]
    /\ \A k \in Admins \cup {Cron} : recon[k].pc \in {"rows", "last", "correct"} <=> lock = k
    /\ lock \in Admins \cup {Cron, None}
    /\ suspect \subseteq Users
    /\ faults \in 0..MaxFaults

\* The counter of a user is what the rows say, give or take charges and credits
\* that are on their way, whatever uploads of one content, reaps and reconciles
\* do to each other, unless one of four things has happened to the user: a
\* charge or credit failed; a row was reaped before it was charged; a reap
\* deleted a row that had changed hands since it was found; a reconcile took a
\* reap that was half done for drift.
Accurate ==
    \A u \in Users \ suspect :
        used[u] + Total(Uncharged(u)) =
            Derived(u) + SumFunctionOnSet([r \in Reapers |-> Total(Uncredited(r, u))], Reapers)

\* And whatever has happened, the counter comes back to what the rows say
\* ("self-healing", storage-repository.ts:57).
EventuallyAccurate == <>[](\A u \in Users : ~ Flagged(Drift(u)))
=============================================================================
