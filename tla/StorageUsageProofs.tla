-------------------------- MODULE StorageUsageProofs --------------------------
(***************************************************************************)
(* Theorems about StorageUsage, for every value of its constants.          *)
(***************************************************************************)
EXTENDS StorageUsage, SumTheorems, TLAPS

Recons == Admins \cup {Cron}
FileType == [owner : Users \cup {None}, fresh : BOOLEAN, pages : SUBSET Uploads]
ReapType == [pc : {"idle", "delete", "credit"}, rows : SUBSET (Contents \X Users)]
ReconType ==
    [pc : {"idle", "rows", "last", "correct", "done"},
     read : Int, torn : BOOLEAN, delta : [Users -> Int]]
Busy == {"rows", "last", "correct"}

\* A row has an owner or nothing at all, a reap has rows or is idle.
RowOK(f) == f \in FileType /\ (f.owner = None => f = NoFile)
ReapOK(r) == r \in ReapType /\ (r.rows = {} <=> r.pc = "idle")

FilesOK == file \in [Contents -> FileType] /\ \A c \in Contents : RowOK(file[c])
ReapersOK == reaper \in [Reapers -> ReapType] /\ \A r \in Reapers : ReapOK(reaper[r])
ReconsOK ==
    /\ recon \in [Recons -> ReconType] /\ lock \in Recons \cup {None}
    /\ \A k \in Recons : recon[k].pc \in Busy <=> lock = k
RestOK ==
    /\ upload \in [Uploads -> {"idle", "charge", "done"}] /\ used \in [Users -> Nat]
    /\ suspect \subseteq Users /\ faults \in 0..MaxFaults

LEMMA Parts == TypeOK <=> FilesOK /\ ReapersOK /\ ReconsOK /\ RestOK
  BY DEF TypeOK, FilesOK, ReapersOK, ReconsOK, RestOK, RowOK, ReapOK, FileType, ReapType,
         ReconType, Recons, Busy

(***************************************************************************)
(* Bytes                                                                   *)
(***************************************************************************)
LEMMA TotalType ==
    ASSUME NEW S \in SUBSET Contents
    PROVE  Total(S) \in Nat
  <1>1. IsFiniteSet(S)
    BY UsageAssumption, FS_Subset
  <1>2. \A c \in S : SizeOf[c] \in Nat
    BY UsageAssumption
  <1>3. SumFunctionOnSet(SizeOf, S) \in Nat
    BY <1>1, <1>2, SumNat
  <1>. QED
    BY <1>3 DEF Total

\* What the rows of a user add up to, and what the counter lacks.
LEMMA DriftType ==
    ASSUME RestOK, NEW u \in Users
    PROVE  Derived(u) \in Nat /\ Drift(u) \in Int
  <1>1. Files(u) \in SUBSET Contents
    BY DEF Files
  <1>2. Derived(u) \in Nat
    BY <1>1, TotalType DEF Derived
  <1>. QED
    BY <1>2 DEF Drift, RestOK

LEMMA MovedType ==
    ASSUME RestOK, NEW u \in Users, NEW delta \in Int
    PROVE  Moved(u, delta) \in [Users -> Nat]
  BY DEF RestOK, Moved

LEMMA FaultType == RestOK /\ Fault => faults' \in 0..MaxFaults
  BY UsageAssumption DEF RestOK, Fault

(***************************************************************************)
(* The steps                                                               *)
(***************************************************************************)
\* Uploads, pages and cooldowns.
LEMMA FileStep ==
    ASSUME TypeOK,
           \/ \E p \in Uploads : Complete(p) \/ Charge(p) \/ DeletePage(p)
           \/ \E c \in Contents : Age(c)
    PROVE  TypeOK'
  <1>0. FilesOK /\ ReapersOK /\ ReconsOK /\ RestOK
    BY Parts
  <1>1. UNCHANGED reaper => ReapersOK'
    BY <1>0 DEF ReapersOK
  <1>2. UNCHANGED <<recon, lock>> => ReconsOK'
    BY <1>0 DEF ReconsOK
  <1>3. ASSUME NEW c \in Contents, NEW f, RowOK(f), file' = [file EXCEPT ![c] = f]
        PROVE  FilesOK'
    BY <1>0, <1>3 DEF FilesOK, RowOK
  <1>4. ASSUME NEW p \in Uploads, Complete(p) PROVE FilesOK' /\ RestOK'
    <2>1. ContentOf[p] \in Contents /\ UploaderOf[p] \in Users /\ UploaderOf[p] # None
      BY UsageAssumption
    <2>2. RowOK(file[ContentOf[p]])
      BY <1>0, <2>1 DEF FilesOK
    <2>3. FilesOK'
      <3>1. CASE file' = [file EXCEPT ![ContentOf[p]] =
                            [owner |-> UploaderOf[p], fresh |-> TRUE, pages |-> {p}]]
        <4>1. RowOK([owner |-> UploaderOf[p], fresh |-> TRUE, pages |-> {p}])
          BY <2>1 DEF RowOK, FileType
        <4>. QED
          BY <1>3, <2>1, <3>1, <4>1
      <3>2. CASE file[ContentOf[p]].owner # None
                 /\ file' = [file EXCEPT ![ContentOf[p]].pages = @ \cup {p}]
        <4>1. PICK f : f = [file[ContentOf[p]] EXCEPT !.pages = @ \cup {p}]
          OBVIOUS
        <4>2. RowOK(f)
          BY <2>2, <3>2, <4>1 DEF RowOK, FileType
        <4>3. file' = [file EXCEPT ![ContentOf[p]] = f]
          BY <1>0, <3>2, <4>1 DEF FilesOK
        <4>. QED
          BY <1>3, <2>1, <4>2, <4>3
      <3>3. CASE UNCHANGED file
        BY <1>0, <3>3 DEF FilesOK
      <3>. QED
        BY <1>4, <3>1, <3>2, <3>3 DEF Complete
    <2>. QED
      BY <1>0, <1>4, <2>3 DEF Complete, RestOK
  <1>5. ASSUME NEW p \in Uploads, Charge(p) PROVE RestOK'
    <2>1. UploaderOf[p] \in Users /\ SizeOf[ContentOf[p]] \in Int
      BY UsageAssumption
    <2>2. Moved(UploaderOf[p], SizeOf[ContentOf[p]]) \in [Users -> Nat]
      BY <1>0, <2>1, MovedType
    <2>. QED
      BY <1>0, <1>5, <2>1, <2>2, FaultType DEF Charge, RestOK
  <1>6. ASSUME NEW p \in Uploads, DeletePage(p) PROVE FilesOK'
    <2>1. ContentOf[p] \in Contents
      BY UsageAssumption
    <2>2. PICK f : f = [file[ContentOf[p]] EXCEPT !.pages = @ \ {p}]
      OBVIOUS
    <2>3. file[ContentOf[p]].owner # None
      BY <1>0, <1>6, <2>1 DEF DeletePage, FilesOK, RowOK, NoFile
    <2>4. RowOK(f)
      BY <1>0, <2>1, <2>2, <2>3 DEF FilesOK, RowOK, FileType
    <2>5. file' = [file EXCEPT ![ContentOf[p]] = f]
      BY <1>0, <1>6, <2>2 DEF DeletePage, FilesOK
    <2>. QED
      BY <1>3, <2>1, <2>4, <2>5
  <1>7. ASSUME NEW c \in Contents, Age(c) PROVE FilesOK'
    <2>1. PICK f : f = [file[c] EXCEPT !.fresh = FALSE]
      OBVIOUS
    <2>2. file[c].owner # None
      BY <1>0, <1>7 DEF Age, FilesOK, RowOK, NoFile
    <2>3. RowOK(f)
      BY <1>0, <2>1, <2>2 DEF FilesOK, RowOK, FileType
    <2>4. file' = [file EXCEPT ![c] = f]
      BY <1>0, <1>7, <2>1 DEF Age, FilesOK
    <2>. QED
      BY <1>3, <2>3, <2>4
  <1>8. UNCHANGED file => FilesOK'
    BY <1>0 DEF FilesOK
  <1>9. UNCHANGED <<upload, used, suspect, faults>> => RestOK'
    BY <1>0 DEF RestOK
  <1>10. TypeOK' <=> FilesOK' /\ ReapersOK' /\ ReconsOK' /\ RestOK'
    BY Parts, PTL
  <1>. QED
    BY <1>1, <1>2, <1>4, <1>5, <1>6, <1>7, <1>8, <1>9, <1>10
       DEF Complete, Charge, DeletePage, Age

\* A step of one reap.
LEMMA ReaperTyped ==
    ASSUME ReapersOK, NEW r \in Reapers, NEW x, ReapOK(x), reaper' = [reaper EXCEPT ![r] = x]
    PROVE  ReapersOK'
  BY DEF ReapersOK, ReapOK

LEMMA EndReapTyped == ASSUME ReapersOK, NEW r \in Reapers, EndReap(r) PROVE ReapersOK'
  <1>1. ReapOK(NoReap)
    BY DEF NoReap, ReapOK, ReapType
  <1>. QED
    BY <1>1, ReaperTyped DEF EndReap

LEMMA FindStep == ASSUME TypeOK, NEW r \in Reapers, FindOrphans(r) PROVE TypeOK'
  <1>0. FilesOK /\ ReapersOK /\ ReconsOK /\ RestOK
    BY Parts
  <1>1. PICK T \in (SUBSET (Orphans \cap AskedFor[r])) \ {{}} :
           reaper' = [reaper EXCEPT ![r] =
              [pc |-> "delete", rows |-> {<<c, file[c].owner>> : c \in T}]]
    BY DEF FindOrphans
  <1>2. \A c \in T : c \in Contents /\ file[c].owner \in Users
    BY <1>0 DEF Orphans, FilesOK, FileType
  <1>3. PICK R : R = {<<c, file[c].owner>> : c \in T}
    OBVIOUS
  <1>4. R \in SUBSET (Contents \X Users) /\ R # {}
    <2>0. T # {}
      BY <1>1
    <2>1. PICK c : c \in T
      BY <2>0
    <2>2. <<c, file[c].owner>> \in R
      BY <1>3, <2>1
    <2>3. \A x \in R : x \in Contents \X Users
      BY <1>2, <1>3
    <2>. QED
      BY <2>2, <2>3
  <1>5. ReapOK([pc |-> "delete", rows |-> R])
    BY <1>4 DEF ReapOK, ReapType
  <1>6. ReapersOK'
    BY <1>0, <1>1, <1>3, <1>5, ReaperTyped
  <1>7. FilesOK' /\ ReconsOK' /\ RestOK'
    BY <1>0 DEF FindOrphans, FilesOK, ReconsOK, RestOK
  <1>. QED
    BY <1>6, <1>7, Parts, PTL

LEMMA DeleteStep == ASSUME TypeOK, NEW r \in Reapers, DeleteRows(r) PROVE TypeOK'
  <1>. DEFINE deleted == {row \in reaper[r].rows : row[1] \in Orphans}
              gone == {row[1] : row \in deleted}
              met == UNION {{file[row[1]].owner, row[2]} : row \in {x \in deleted :
                        Charging(x[1]) # {} \/ file[x[1]].owner # x[2]}}
  <1>0. FilesOK /\ ReapersOK /\ ReconsOK /\ RestOK
    BY Parts
  <1>1. deleted \in SUBSET (Contents \X Users)
    BY <1>0 DEF ReapersOK, ReapType
  <1>2. gone = {} <=> deleted = {}
    OBVIOUS
  <1>3. \A row \in deleted : row[2] \in Users /\ file[row[1]].owner \in Users
    BY <1>0, <1>1 DEF Orphans, FilesOK, FileType
  <1>4. met \subseteq Users
    BY <1>3
  <1>5. FilesOK'
    <2>1. RowOK(NoFile)
      BY UsageAssumption DEF RowOK, NoFile, FileType
    <2>2. file' = [c \in Contents |-> IF c \in gone THEN NoFile ELSE file[c]]
      BY DEF DeleteRows
    <2>. HIDE DEF gone
    <2>. QED
      BY <1>0, <2>1, <2>2 DEF FilesOK, RowOK
  <1>6. ReapersOK'
    <2>1. CASE gone = {} /\ EndReap(r)
      BY <1>0, <2>1, EndReapTyped
    <2>2. CASE gone # {} /\ reaper' = [reaper EXCEPT ![r] = [pc |-> "credit", rows |-> deleted]]
      <3>1. deleted # {}
        BY <1>2, <2>2
      <3>. HIDE DEF deleted
      <3>2. ReapOK([pc |-> "credit", rows |-> deleted])
        BY <1>1, <3>1 DEF ReapOK, ReapType
      <3>. QED
        BY <1>0, <2>2, <3>2, ReaperTyped
    <2>. QED
      BY <2>1, <2>2 DEF DeleteRows
  <1>7. ReconsOK'
    <2>1. \A k \in Recons : /\ [recon[k] EXCEPT !.torn = TRUE] \in ReconType
                            /\ [recon[k] EXCEPT !.torn = TRUE].pc = recon[k].pc
      BY <1>0 DEF ReconsOK, ReconType
    <2>2. \A k \in Recons : recon'[k] = recon[k] \/ recon'[k] = [recon[k] EXCEPT !.torn = TRUE]
      BY DEF DeleteRows, Recons
    <2>3. recon' = [k \in Recons |-> recon'[k]] /\ lock' = lock
      BY DEF DeleteRows, Recons
    <2>4. recon' \in [Recons -> ReconType]
      BY <1>0, <2>1, <2>2, <2>3 DEF ReconsOK
    <2>. QED
      BY <1>0, <2>1, <2>2, <2>3, <2>4 DEF ReconsOK
  <1>8. RestOK'
    <2>1. suspect' = suspect \cup met
      BY DEF DeleteRows
    <2>. HIDE DEF met
    <2>. QED
      BY <1>0, <1>4, <2>1 DEF DeleteRows, RestOK
  <1>. QED
    BY <1>5, <1>6, <1>7, <1>8, Parts, PTL

LEMMA CreditStep == ASSUME TypeOK, NEW r \in Reapers, Credit(r) PROVE TypeOK'
  <1>0. FilesOK /\ ReapersOK /\ ReconsOK /\ RestOK
    BY Parts
  <1>1. PICK row \in reaper[r].rows :
          /\ Credited(r, row)
          /\ \/ used' = Moved(row[2], - SizeOf[row[1]]) /\ UNCHANGED <<suspect, faults>>
             \/ Fault /\ suspect' = suspect \cup {row[2]} /\ UNCHANGED used
    BY DEF Credit
  <1>2. reaper[r] \in ReapType /\ ReapOK(reaper[r]) /\ reaper[r].pc = "credit"
    BY <1>0 DEF ReapersOK, Credit
  <1>3. row[1] \in Contents /\ row[2] \in Users
    BY <1>1, <1>2 DEF ReapType
  <1>4. - SizeOf[row[1]] \in Int
    BY <1>3, UsageAssumption
  <1>5. ReapersOK'
    <2>1. CASE EndReap(r)
      BY <1>0, <2>1, EndReapTyped
    <2>2. CASE reaper[r].rows # {row} /\ reaper' = [reaper EXCEPT ![r].rows = @ \ {row}]
      <3>1. PICK x : x = [reaper[r] EXCEPT !.rows = @ \ {row}]
        OBVIOUS
      <3>2. ReapOK(x)
        BY <1>1, <1>2, <2>2, <3>1 DEF ReapOK, ReapType
      <3>3. reaper' = [reaper EXCEPT ![r] = x]
        BY <1>0, <2>2, <3>1 DEF ReapersOK
      <3>. QED
        BY <1>0, <3>2, <3>3, ReaperTyped
    <2>. QED
      BY <1>1, <2>1, <2>2 DEF Credited
  <1>6. RestOK'
    <2>1. Moved(row[2], - SizeOf[row[1]]) \in [Users -> Nat]
      BY <1>0, <1>3, <1>4, MovedType
    <2>2. used' \in [Users -> Nat] /\ suspect' \subseteq Users /\ faults' \in 0..MaxFaults
      BY <1>0, <1>1, <1>3, <2>1, FaultType DEF RestOK
    <2>. QED
      BY <1>0, <2>2 DEF Credit, RestOK
  <1>7. FilesOK' /\ ReconsOK'
    BY <1>0 DEF Credit, FilesOK, ReconsOK
  <1>. QED
    BY <1>5, <1>6, <1>7, Parts, PTL

(***************************************************************************)
(* The reconciles: whoever has read and not corrected yet holds the lock   *)
(***************************************************************************)
LEMMA NoReconType ==
    /\ NoRecon \in ReconType /\ NoRecon.pc = "idle"
    /\ [NoRecon EXCEPT !.pc = "done"] \in ReconType
    /\ [NoRecon EXCEPT !.pc = "done"].pc = "done"
    /\ \A f \in [Users -> Int] :
          LET x == [NoRecon EXCEPT !.pc = "correct", !.delta = f]
          IN  x \in ReconType /\ x.pc = "correct"
    /\ \A n \in Int, b \in BOOLEAN :
          LET x == [NoRecon EXCEPT !.pc = "rows", !.read = n, !.torn = b]
          IN  x \in ReconType /\ x.pc = "rows"
  <1>1. NoRecon \in ReconType
    BY DEF NoRecon, ReconType
  <1>2. NoRecon.pc = "idle"
    BY DEF NoRecon
  <1>. QED
    BY <1>1, <1>2 DEF ReconType

\* A step of one reconcile: it takes the lock, keeps it, or gives it back.
LEMMA ReconTyped ==
    ASSUME ReconsOK, NEW k \in Recons, NEW x \in ReconType, recon' = [recon EXCEPT ![k] = x],
           \/ lock = None /\ lock' = k /\ x.pc \in Busy
           \/ lock = k /\ lock' = k /\ x.pc \in Busy
           \/ lock = k /\ lock' = None /\ x.pc \notin Busy
    PROVE  ReconsOK'
  <1>1. None \notin Recons
    BY UsageAssumption DEF Recons
  <1>2. recon'[k] = x /\ \A j \in Recons \ {k} : recon'[j] = recon[j]
    BY DEF ReconsOK
  <1>3. recon' \in [Recons -> ReconType]
    BY DEF ReconsOK
  <1>4. \A j \in Recons : recon'[j].pc \in Busy <=> lock' = j
    BY <1>1, <1>2 DEF ReconsOK
  <1>. QED
    BY <1>3, <1>4 DEF ReconsOK

LEMMA EndReconTyped ==
    ASSUME ReconsOK, NEW k \in Recons, lock = k, EndRecon(k)
    PROVE  ReconsOK'
  <1>1. PICK x : x = IF k = Cron THEN NoRecon ELSE [NoRecon EXCEPT !.pc = "done"]
    OBVIOUS
  <1>2. x \in ReconType /\ x.pc \notin Busy
    BY <1>1, NoReconType DEF Busy
  <1>3. recon' = [recon EXCEPT ![k] = x] /\ lock' = None
    BY <1>1 DEF EndRecon
  <1>. QED
    BY <1>2, <1>3, ReconTyped

LEMMA CronStep == ASSUME TypeOK, CronScan PROVE TypeOK'
  <1>0. FilesOK /\ ReapersOK /\ ReconsOK /\ RestOK
    BY Parts
  <1>1. PICK f : f = [u \in Users |-> IF u \in Candidates THEN Drift(u) ELSE 0]
    OBVIOUS
  <1>2. f \in [Users -> Int]
    BY <1>0, <1>1, DriftType
  <1>3. PICK x : x = [NoRecon EXCEPT !.pc = "correct", !.delta = f]
    OBVIOUS
  <1>4. x \in ReconType /\ x.pc \in Busy
    BY <1>2, <1>3, NoReconType DEF Busy
  <1>5. recon' = [recon EXCEPT ![Cron] = x] /\ lock = None /\ lock' = Cron
    BY <1>1, <1>3 DEF CronScan, Unlocked
  <1>6. ReconsOK'
    BY <1>0, <1>4, <1>5, ReconTyped DEF Recons
  <1>7. FilesOK' /\ ReapersOK' /\ RestOK'
    BY <1>0 DEF CronScan, FilesOK, ReapersOK, RestOK, Candidates
  <1>. QED
    BY <1>6, <1>7, Parts, PTL

LEMMA AdminStep ==
    ASSUME TypeOK, NEW a \in Admins, AdminRead(a) \/ AdminRows(a) \/ AdminLast(a)
    PROVE  TypeOK'
  <1>0. FilesOK /\ ReapersOK /\ ReconsOK /\ RestOK /\ recon[a] \in ReconType
        /\ (recon[a].pc \in Busy <=> lock = a) /\ a \in Recons /\ a # Cron
        /\ WhoOf[a] \in Users
    BY Parts, UsageAssumption DEF ReconsOK, Recons
  <1>1. CASE AdminRead(a)
    <2>1. PICK x : x = [NoRecon EXCEPT !.pc = "rows", !.read = used[WhoOf[a]],
                                       !.torn = Reaping(WhoOf[a])]
      OBVIOUS
    <2>2. used[WhoOf[a]] \in Int /\ Reaping(WhoOf[a]) \in BOOLEAN
      <3>1. used[WhoOf[a]] \in Int
        BY <1>0 DEF RestOK
      <3>2. Reaping(WhoOf[a]) \in BOOLEAN
        BY DEF Reaping
      <3>. QED
        BY <3>1, <3>2
    <2>3. x \in ReconType /\ x.pc \in Busy
      BY <2>1, <2>2, NoReconType DEF Busy
    <2>4. recon' = [recon EXCEPT ![a] = x] /\ lock = None /\ lock' = a
      BY <1>1, <2>1 DEF AdminRead, Unlocked
    <2>5. ReconsOK'
      BY <1>0, <2>3, <2>4, ReconTyped
    <2>6. FilesOK' /\ ReapersOK' /\ RestOK'
      BY <1>0, <1>1 DEF AdminRead, FilesOK, ReapersOK, RestOK
    <2>. QED
      BY <2>5, <2>6, Parts, PTL
  <1>2. CASE AdminRows(a)
    <2>1. PICK n : n = Derived(WhoOf[a]) - recon[a].read
      OBVIOUS
    <2>2. n \in Int
      BY <1>0, <2>1, DriftType DEF ReconType
    <2>3. PICK x : x = [recon[a] EXCEPT !.pc = "last", !.read = n]
      OBVIOUS
    <2>4. x \in ReconType /\ x.pc \in Busy
      BY <1>0, <2>2, <2>3 DEF ReconType, Busy
    <2>5. recon' = [recon EXCEPT ![a] = x] /\ lock = a /\ lock' = a
      BY <1>0, <1>2, <2>1, <2>3 DEF AdminRows, Busy, ReconsOK
    <2>6. ReconsOK'
      BY <1>0, <2>4, <2>5, ReconTyped
    <2>7. FilesOK' /\ ReapersOK' /\ RestOK'
      BY <1>0, <1>2 DEF AdminRows, FilesOK, ReapersOK, RestOK
    <2>. QED
      BY <2>6, <2>7, Parts, PTL
  <1>3. CASE AdminLast(a)
    <2>1. lock = a
      BY <1>0, <1>3 DEF AdminLast, Busy
    <2>2. ASSUME EndRecon(a) PROVE ReconsOK'
      BY <1>0, <2>1, <2>2, EndReconTyped
    <2>3. ASSUME recon' = [recon EXCEPT ![a] = [NoRecon EXCEPT
                    !.pc = "correct", !.delta[WhoOf[a]] = recon[a].read]],
                 UNCHANGED lock
          PROVE  ReconsOK'
      <3>1. PICK f : f = [NoRecon.delta EXCEPT ![WhoOf[a]] = recon[a].read]
        OBVIOUS
      <3>2. f \in [Users -> Int]
        BY <1>0, <3>1, NoReconType DEF ReconType
      <3>3. PICK x : x = [NoRecon EXCEPT !.pc = "correct", !.delta = f]
        OBVIOUS
      <3>4. x \in ReconType /\ x.pc \in Busy
        BY <3>2, <3>3, NoReconType DEF Busy
      <3>5. x = [NoRecon EXCEPT !.pc = "correct", !.delta[WhoOf[a]] = recon[a].read]
        BY <3>1, <3>3, NoReconType DEF ReconType
      <3>. QED
        BY <1>0, <2>1, <2>3, <3>4, <3>5, ReconTyped
    <2>4. ReconsOK'
      BY <1>3, <2>2, <2>3 DEF AdminLast
    <2>5. FilesOK' /\ ReapersOK' /\ RestOK'
      BY <1>0, <1>3 DEF AdminLast, FilesOK, ReapersOK, RestOK
    <2>. QED
      BY <2>4, <2>5, Parts, PTL
  <1>. QED
    BY <1>1, <1>2, <1>3

LEMMA CorrectStep ==
    ASSUME TypeOK, NEW k \in Recons, NEW u \in Users, Correct(k, u)
    PROVE  TypeOK'
  <1>0. FilesOK /\ ReapersOK /\ ReconsOK /\ RestOK /\ recon[k] \in ReconType
    BY Parts DEF ReconsOK
  <1>1. lock = k /\ recon[k].pc = "correct"
    BY <1>0 DEF Correct, ReconsOK, Busy
  <1>2. ReconsOK'
    <2>1. CASE EndRecon(k)
      BY <1>0, <1>1, <2>1, EndReconTyped
    <2>2. CASE recon' = [recon EXCEPT ![k].delta[u] = 0] /\ UNCHANGED lock
      <3>1. PICK f : f = [recon[k].delta EXCEPT ![u] = 0]
        OBVIOUS
      <3>2. f \in [Users -> Int]
        BY <1>0, <3>1 DEF ReconType
      <3>3. PICK x : x = [recon[k] EXCEPT !.delta = f]
        OBVIOUS
      <3>4. x \in ReconType /\ x.pc \in Busy
        BY <1>0, <1>1, <3>2, <3>3 DEF ReconType, Busy
      <3>5. recon' = [recon EXCEPT ![k] = x]
        BY <1>0, <2>2, <3>1, <3>3 DEF ReconsOK, ReconType
      <3>. QED
        BY <1>0, <1>1, <2>2, <3>4, <3>5, ReconTyped
    <2>. QED
      BY <2>1, <2>2 DEF Correct
  <1>3. RestOK'
    <2>1. recon[k].delta[u] \in Int
      BY <1>0 DEF ReconType
    <2>2. Moved(u, recon[k].delta[u]) \in [Users -> Nat]
      BY <1>0, <2>1, MovedType
    <2>. QED
      BY <1>0, <2>2, FaultType DEF Correct, RestOK
  <1>4. FilesOK' /\ ReapersOK'
    BY <1>0 DEF Correct, FilesOK, ReapersOK
  <1>. QED
    BY <1>2, <1>3, <1>4, Parts, PTL

LEMMA InitTypes == Init => TypeOK
  <1>. SUFFICES ASSUME Init PROVE TypeOK
    OBVIOUS
  <1>1. RowOK(NoFile)
    BY UsageAssumption DEF RowOK, NoFile, FileType
  <1>2. FilesOK
    BY <1>1 DEF Init, FilesOK, RowOK
  <1>3. ReapOK(NoReap)
    BY DEF NoReap, ReapOK, ReapType
  <1>4. ReapersOK
    BY <1>3 DEF Init, ReapersOK, ReapOK
  <1>5. ReconsOK
    BY NoReconType, UsageAssumption DEF Init, ReconsOK, Recons, Busy
  <1>6. RestOK
    BY UsageAssumption DEF Init, RestOK
  <1>. QED
    BY <1>2, <1>4, <1>5, <1>6, Parts

LEMMA StepTypes == TypeOK /\ [Next]_vars => TypeOK'
  <1>. SUFFICES ASSUME TypeOK, [Next]_vars PROVE TypeOK'
    OBVIOUS
  <1>1. ASSUME NEW r \in Reapers, FindOrphans(r) \/ Reap(r) PROVE TypeOK'
    BY <1>1, FindStep, DeleteStep, CreditStep DEF Reap
  <1>2. ASSUME NEW k \in Admins \cup {Cron}, Reconcile(k) PROVE TypeOK'
    BY <1>2, AdminStep, CorrectStep DEF Reconcile, Recons
  <1>3. CASE UNCHANGED vars
    <2>1. FilesOK /\ ReapersOK /\ ReconsOK /\ RestOK
      BY Parts
    <2>2. FilesOK' /\ ReapersOK' /\ ReconsOK' /\ RestOK'
      BY <1>3, <2>1 DEF vars, FilesOK, ReapersOK, ReconsOK, RestOK
    <2>. QED
      BY <2>2, Parts, PTL
  <1>. QED
    BY <1>1, <1>2, <1>3, FileStep, CronStep, AdminStep DEF Next

\* The counters are never negative whatever corrections, charges and credits race
\* (the clamp at zero), a files row has an owner, and of the cron's reconcile and
\* the administrators' at most one is between its reading and its last
\* correction: it holds the lock, which one that ends gives back.
THEOREM TypeCorrect == Spec => []TypeOK
  BY InitTypes, StepTypes, PTL DEF Spec

(***************************************************************************)
(* The counters are accurate                                               *)
(***************************************************************************)
\* Sums of contents: another one, a part and the rest, one reap that changes.
LEMMA TotalAdd ==
    ASSUME NEW S \in SUBSET Contents, NEW c \in Contents, c \notin S
    PROVE  Total(S \cup {c}) = SizeOf[c] + Total(S)
  <1>1. IsFiniteSet(S)
    BY UsageAssumption, FS_Subset
  <1>2. \A d \in S : SizeOf[d] \in Int
    BY UsageAssumption
  <1>3. SizeOf[c] \in Int
    BY UsageAssumption
  <1>4. SumFunctionOnSet(SizeOf, S \cup {c}) = SizeOf[c] + SumFunctionOnSet(SizeOf, S)
    BY <1>1, <1>2, <1>3, SumAdd
  <1>. QED
    BY <1>4 DEF Total

LEMMA TotalSplit ==
    ASSUME NEW S \in SUBSET Contents, NEW D \in SUBSET S
    PROVE  Total(S) = Total(D) + Total(S \ D)
  <1>1. IsFiniteSet(S)
    BY UsageAssumption, FS_Subset
  <1>2. \A d \in S : SizeOf[d] \in Int
    BY UsageAssumption
  <1>3. SumFunctionOnSet(SizeOf, S)
            = SumFunctionOnSet(SizeOf, D) + SumFunctionOnSet(SizeOf, S \ D)
    BY <1>1, <1>2, SumSplit
  <1>. QED
    BY <1>3 DEF Total

LEMMA TotalPart ==
    ASSUME NEW S \in SUBSET Contents, NEW D \in SUBSET S
    PROVE  Total(D) <= Total(S)
  <1>1. IsFiniteSet(S)
    BY UsageAssumption, FS_Subset
  <1>2. \A d \in S : SizeOf[d] \in Nat
    BY UsageAssumption
  <1>3. SumFunctionOnSet(SizeOf, D) <= SumFunctionOnSet(SizeOf, S)
    BY <1>1, <1>2, SumPart
  <1>. QED
    BY <1>3 DEF Total

LEMMA TotalEmpty == Total({}) = 0
  BY SumEmpty DEF Total

\* What each reap has still to credit to a user, and what all of them have.
Uncredits(u) == [r \in Reapers |-> Total(Uncredited(r, u))]
Owed(u) == SumFunctionOnSet(Uncredits(u), Reapers)

\* The books of a user.
Balanced(u) == used[u] + Total(Uncharged(u)) = Derived(u) + Owed(u)

AllBalanced == \A u \in Users \ suspect : Balanced(u)

LEMMA AccurateIsBalanced == Accurate <=> AllBalanced
  BY DEF Accurate, AllBalanced, Balanced, Owed, Uncredits

LEMMA BytesNat ==
    ASSUME IsFiniteSet(Reapers), RestOK, NEW u \in Users
    PROVE  /\ used[u] \in Nat /\ Total(Uncharged(u)) \in Nat /\ Derived(u) \in Nat
           /\ Owed(u) \in Nat
           /\ \A r \in Reapers : /\ Total(Uncredited(r, u)) \in Nat
                                 /\ Total(Uncredited(r, u)) <= Owed(u)
  <1>1. used[u] \in Nat
    BY DEF RestOK
  <1>2. Total(Uncharged(u)) \in Nat
    BY TotalType DEF Uncharged
  <1>3. \A r \in Reapers : Total(Uncredited(r, u)) \in Nat
    BY TotalType DEF Uncredited
  <1>4. PICK f : f = Uncredits(u)
    OBVIOUS
  <1>5. \A r \in Reapers : f[r] = Total(Uncredited(r, u)) /\ f[r] \in Nat
    BY <1>3, <1>4 DEF Uncredits
  <1>6. SumFunctionOnSet(f, Reapers) \in Nat
    BY <1>5, SumNat
  <1>7. ASSUME NEW r \in Reapers PROVE f[r] <= SumFunctionOnSet(f, Reapers)
    <2>1. PICK R : R = Reapers \ {r}
      OBVIOUS
    <2>2. SumFunctionOnSet(f, Reapers) = f[r] + SumFunctionOnSet(f, R)
      <3>1. \A x \in Reapers : f[x] \in Int
        BY <1>5
      <3>. QED
        BY <2>1, <3>1, SumRemove
    <2>3. SumFunctionOnSet(f, R) \in Nat
      <3>1. IsFiniteSet(R) /\ \A x \in R : f[x] \in Nat
        BY <1>5, <2>1, FS_Subset
      <3>. QED
        BY <3>1, SumNat
    <2>. QED
      BY <1>5, <2>2, <2>3
  <1>8. Derived(u) \in Nat
    BY DriftType
  <1>. QED
    BY <1>1, <1>2, <1>3, <1>4, <1>5, <1>6, <1>7, <1>8 DEF Owed

\* A reap that goes on changes what is owed by what it changes itself.
LEMMA OwedMoves ==
    ASSUME IsFiniteSet(Reapers), RestOK, NEW u \in Users, NEW r \in Reapers,
           \A s \in Reapers \ {r} : Uncredited(s, u)' = Uncredited(s, u)
    PROVE  Owed(u)' = (Owed(u) - Total(Uncredited(r, u))) + Total(Uncredited(r, u)')
  <1>1. PICK f : f = Uncredits(u)
    OBVIOUS
  <1>2. PICK g : g = Uncredits(u)'
    OBVIOUS
  <1>3. PICK a \in Int : a = Total(Uncredited(r, u))
    BY BytesNat
  <1>4. PICK b \in Int : b = Total(Uncredited(r, u)')
    <2>1. Uncredited(r, u)' \in SUBSET Contents
      BY DEF Uncredited
    <2>2. Total(Uncredited(r, u)') \in Nat
      BY <2>1, TotalType
    <2>. QED
      BY <2>2
  <1>5. f[r] = a /\ g[r] = b
    BY <1>1, <1>2, <1>3, <1>4 DEF Uncredits
  <1>6. \A s \in Reapers \ {r} : g[s] = f[s]
    BY <1>1, <1>2 DEF Uncredits
  <1>7. \A s \in Reapers : f[s] \in Int
    <2>1. \A s \in Reapers : f[s] = Total(Uncredited(s, u))
      BY <1>1 DEF Uncredits
    <2>2. \A s \in Reapers : Total(Uncredited(s, u)) \in Nat
      BY BytesNat
    <2>. QED
      BY <2>1, <2>2
  <1>8. SumFunctionOnSet(g, Reapers) = (SumFunctionOnSet(f, Reapers) - a) + b
    BY <1>5, <1>6, <1>7, SumMove
  <1>. QED
    BY <1>1, <1>2, <1>3, <1>4, <1>8 DEF Owed

\* A step that changes nothing of a user's keeps the books balanced.
Untouched(u) ==
    /\ used'[u] = used[u] /\ Files(u)' = Files(u) /\ Uncharged(u)' = Uncharged(u)
    /\ \A r \in Reapers : Uncredited(r, u)' = Uncredited(r, u)

LEMMA UntouchedBalanced ==
    ASSUME NEW u \in Users, Untouched(u), Balanced(u)
    PROVE  Balanced(u)'
  <1>1. Derived(u)' = Derived(u)
    BY DEF Untouched, Derived
  <1>2. Uncredits(u)' = Uncredits(u)
    BY DEF Untouched, Uncredits
  <1>3. Owed(u)' = Owed(u)
    BY <1>2 DEF Owed
  <1>4. Total(Uncharged(u))' = Total(Uncharged(u))
    BY DEF Untouched
  <1>. QED
    BY <1>1, <1>3, <1>4 DEF Balanced, Untouched
\* An upload that is still to be charged for has inserted the row of its
\* content, and the row is fresh; and no two charge the same user for the same
\* content, or the user is suspect.
ChargeInv ==
    /\ \A p \in Uploads : upload[p] = "charge" /\ UploaderOf[p] \notin suspect =>
          file[ContentOf[p]].owner = UploaderOf[p] /\ file[ContentOf[p]].fresh
    /\ \A p, q \in Uploads :
          /\ upload[p] = "charge" /\ upload[q] = "charge" /\ p # q
          /\ ContentOf[p] = ContentOf[q] /\ UploaderOf[p] = UploaderOf[q]
          => UploaderOf[p] \in suspect

\* Only the counters of suspects are corrected.
DeltaInv == \A k \in Recons, u \in Users : recon[k].delta[u] # 0 => u \in suspect

\* An administrator's reconcile of a user who is no suspect: unless a reap met
\* it, or an upload made the user unsettled, it has read the counter as it still
\* is, and no difference to the rows.
ReadOK(a) ==
    LET u == WhoOf[a]
    IN  /\ recon[a].pc \in {"rows", "last"} /\ ~ recon[a].torn
        /\ u \notin suspect /\ Settled(u)
        => /\ ~ Reaping(u)
           /\ recon[a].pc = "rows" => recon[a].read = used[u]
           /\ recon[a].pc = "last" => recon[a].read = 0

BooksInv == Accurate /\ ChargeInv /\ DeltaInv /\ \A a \in Admins : ReadOK(a)

\* Nothing is still to be charged to a settled user who is no suspect: the books
\* are the counter and the rows.
LEMMA SettledUser ==
    ASSUME TypeOK, BooksInv, NEW u \in Users, u \notin suspect, Settled(u), ~ Reaping(u),
           IsFiniteSet(Reapers)
    PROVE  used[u] = Derived(u) /\ Drift(u) = 0
  <1>0. RestOK
    BY Parts
  <1>1. Uncharged(u) = {}
    <2>1. ASSUME NEW c \in Uncharged(u) PROVE FALSE
      <3>1. PICK p \in Uploads : upload[p] = "charge" /\ ContentOf[p] = c /\ UploaderOf[p] = u
        BY <2>1 DEF Uncharged, Charging
      <3>2. c \in Files(u) /\ file[c].fresh
        BY <2>1, <3>1 DEF BooksInv, ChargeInv, Files, Uncharged
      <3>. QED
        BY <3>2 DEF Settled
    <2>. QED
      BY <2>1
  <1>2. \A r \in Reapers : Uncredits(u)[r] = 0
    BY TotalEmpty DEF Uncredits, Reaping
  <1>3. Owed(u) = 0
    <2>1. PICK f : f = Uncredits(u)
      OBVIOUS
    <2>2. PICK z : z = [r \in Reapers |-> 0]
      OBVIOUS
    <2>3. f = z
      BY <1>2, <2>1, <2>2 DEF Uncredits
    <2>4. SumFunctionOnSet(z, Reapers) = 0
      BY <2>2, SumOfZeros
    <2>. QED
      BY <2>1, <2>3, <2>4 DEF Owed
  <1>4. Total(Uncharged(u)) = 0
    BY <1>1, TotalEmpty
  <1>5. used[u] + 0 = Derived(u) + 0
    BY <1>3, <1>4, AccurateIsBalanced DEF BooksInv, AllBalanced, Balanced
  <1>6. used[u] \in Nat /\ Derived(u) \in Nat
    BY <1>0, BytesNat
  <1>. QED
    BY <1>5, <1>6 DEF Drift

\* A step of the uploads that begins no charge and leaves the rows of the
\* others as they are keeps ChargeInv ...
LEMMA ChargeKept ==
    ASSUME ChargeInv, suspect \subseteq suspect',
           \A p \in Uploads : upload'[p] = "charge" => upload[p] = "charge",
           \A p \in Uploads : upload'[p] = "charge" /\ UploaderOf[p] \notin suspect' =>
              /\ file'[ContentOf[p]].owner = file[ContentOf[p]].owner
              /\ file'[ContentOf[p]].fresh = file[ContentOf[p]].fresh
    PROVE  ChargeInv'
  BY DEF ChargeInv

\* ... a step that leaves the corrections alone keeps DeltaInv ...
LEMMA DeltaKept ==
    ASSUME DeltaInv, suspect \subseteq suspect',
           \A k \in Recons : recon'[k].delta = recon[k].delta
    PROVE  DeltaInv'
  BY DEF DeltaInv

\* ... and a reading stays good through a step that unsettles its user, or
\* changes nothing of that user's.
LEMMA ReadKept ==
    ASSUME NEW a \in Admins, ReadOK(a), suspect \subseteq suspect',
           recon'[a].pc = recon[a].pc /\ recon'[a].read = recon[a].read,
           ~ recon'[a].torn => ~ recon[a].torn,
           recon[a].pc \in {"rows", "last"} /\ ~ recon'[a].torn /\ WhoOf[a] \notin suspect'
               /\ Settled(WhoOf[a])' =>
               /\ Settled(WhoOf[a])
               /\ ~ Reaping(WhoOf[a]) =>
                     ~ Reaping(WhoOf[a])' /\ used'[WhoOf[a]] = used[WhoOf[a]]
    PROVE  ReadOK(a)'
  BY DEF ReadOK
\* What is still to be charged to a user, and reaped but not credited, follows
\* from where the uploads and the reaps are.
LEMMA SameUncharged ==
    ASSUME NEW u, \A q \in Uploads : upload'[q] = "charge" <=> upload[q] = "charge"
    PROVE  Uncharged(u)' = Uncharged(u)
  BY DEF Uncharged, Charging

LEMMA SameFiles ==
    ASSUME NEW u, \A c \in Contents : file'[c].owner = file[c].owner
    PROVE  Files(u)' = Files(u)
  BY DEF Files

LEMMA SameReaps ==
    ASSUME NEW u, UNCHANGED reaper
    PROVE  /\ \A r \in Reapers : Uncredited(r, u)' = Uncredited(r, u)
           /\ Reaping(u)' = Reaping(u)
  BY DEF Uncredited, Reaping

(***************************************************************************)
(* The steps keep the books                                                *)
(***************************************************************************)
\* An upload links to a row, or is turned away ...
LEMMA LinkBooks ==
    ASSUME TypeOK, BooksInv, NEW p \in Uploads,
           upload[p] = "idle", upload' = [upload EXCEPT ![p] = "done"],
           \A c \in Contents : /\ file'[c].owner = file[c].owner
                               /\ file'[c].fresh = file[c].fresh,
           UNCHANGED <<used, reaper, recon, lock, suspect, faults>>
    PROVE  BooksInv'
  <1>0. RestOK
    BY Parts
  <1>1. \A q \in Uploads : upload'[q] = "charge" <=> upload[q] = "charge"
    BY <1>0 DEF RestOK
  <1>2. \A u \in Users : Untouched(u)
    BY <1>1, SameUncharged, SameFiles, SameReaps DEF Untouched
  <1>3. Accurate'
    <2>1. \A u \in Users \ suspect : Balanced(u)
      BY AccurateIsBalanced DEF BooksInv, AllBalanced
    <2>2. AllBalanced'
      BY <1>2, <2>1, UntouchedBalanced DEF AllBalanced
    <2>. QED
      BY <2>2, AccurateIsBalanced, PTL
  <1>4. ChargeInv'
    <2>1. \A q \in Uploads : ContentOf[q] \in Contents
      BY UsageAssumption
    <2>. QED
      BY <1>1, <2>1, ChargeKept DEF BooksInv
  <1>5. DeltaInv'
    BY DeltaKept DEF BooksInv
  <1>6. ASSUME NEW a \in Admins PROVE ReadOK(a)'
    <2>1. Settled(WhoOf[a])' => Settled(WhoOf[a])
      BY DEF Settled, Files
    <2>2. Reaping(WhoOf[a])' = Reaping(WhoOf[a])
      BY SameReaps
    <2>. QED
      BY <2>1, <2>2, ReadKept DEF BooksInv
  <1>. QED
    BY <1>3, <1>4, <1>5, <1>6 DEF BooksInv

\* ... or inserts one, which the books of its owner show on both sides ...
LEMMA InsertBooks ==
    ASSUME TypeOK, BooksInv, NEW p \in Uploads, IsFiniteSet(Reapers),
           upload[p] = "idle", upload' = [upload EXCEPT ![p] = "charge"],
           file[ContentOf[p]].owner = None,
           file' = [file EXCEPT ![ContentOf[p]] =
                       [owner |-> UploaderOf[p], fresh |-> TRUE, pages |-> {p}]],
           UNCHANGED <<used, reaper, recon, lock, suspect, faults>>
    PROVE  BooksInv'
  <1>0. RestOK /\ FilesOK
    BY Parts
  <1>1. PICK c \in Contents : c = ContentOf[p]
    BY UsageAssumption
  <1>2. PICK v \in Users : v = UploaderOf[p]
    BY UsageAssumption
  <1>3. /\ file'[c].owner = v /\ file'[c].fresh
        /\ \A d \in Contents \ {c} : file'[d] = file[d]
    BY <1>0, <1>1, <1>2 DEF FilesOK
  <1>4. /\ upload'[p] = "charge"
        /\ \A q \in Uploads \ {p} : upload'[q] = upload[q]
    BY <1>0 DEF RestOK
  <1>5. file[c].owner = None /\ None \notin Users
    BY <1>1, UsageAssumption
  <1>6. \A q \in Uploads : upload[q] = "charge" /\ ContentOf[q] = c => UploaderOf[q] \in suspect
    BY <1>5, UsageAssumption DEF BooksInv, ChargeInv
  <1>7. ASSUME NEW u \in Users \ suspect, Balanced(u) PROVE Balanced(u)'
    <2>1. CASE u # v
      <3>1. Files(u)' = Files(u)
        BY <1>3, <1>5, <2>1 DEF Files
      <3>2. Uncharged(u)' = Uncharged(u)
        BY <1>2, <1>4, <2>1 DEF Uncharged, Charging
      <3>3. Untouched(u)
        BY <3>1, <3>2, SameReaps DEF Untouched
      <3>. QED
        BY <1>7, <3>3, UntouchedBalanced
    <2>2. CASE u = v
      <3>1. PICK S \in SUBSET Contents : S = Files(u)
        BY DEF Files
      <3>2. PICK T \in SUBSET Contents : T = Uncharged(u)
        BY DEF Uncharged
      <3>3. c \notin S /\ Files(u)' = S \cup {c}
        BY <1>3, <1>5, <2>2, <3>1 DEF Files
      <3>4. c \notin T
        BY <1>6, <1>7, <3>2 DEF Uncharged, Charging
      <3>5. Uncharged(u)' = T \cup {c}
        <4>1. \A d \in Contents \ {c} : d \in Uncharged(u)' <=> d \in T
          BY <1>1, <1>4, <3>2 DEF Uncharged, Charging
        <4>2. c \in Uncharged(u)'
          BY <1>1, <1>2, <1>4, <2>2 DEF Uncharged, Charging
        <4>3. Uncharged(u)' \in SUBSET Contents
          BY DEF Uncharged
        <4>. QED
          BY <4>1, <4>2, <4>3
      <3>6. Total(S \cup {c}) = SizeOf[c] + Total(S)
        BY <3>3, TotalAdd
      <3>7. Total(T \cup {c}) = SizeOf[c] + Total(T)
        BY <3>4, TotalAdd
      <3>8. used'[u] = used[u] /\ Owed(u)' = Owed(u)
        BY DEF Owed, Uncredits, Uncredited
      <3>9. PICK n \in Nat : n = SizeOf[c]
        BY UsageAssumption
      <3>10. PICK x \in Nat : x = used[u]
        BY <1>0, BytesNat
      <3>11. PICK y \in Nat : y = Total(T)
        BY <3>2, TotalType
      <3>12. PICK z \in Nat : z = Total(S)
        BY <3>1, TotalType
      <3>13. PICK w \in Nat : w = Owed(u)
        BY <1>0, BytesNat
      <3>14. x + y = z + w
        BY <1>7, <3>1, <3>2, <3>10, <3>11, <3>12, <3>13 DEF Balanced, Derived
      <3>15. used'[u] = x /\ Owed(u)' = w
        BY <3>8, <3>10, <3>13
      <3>16. Total(Uncharged(u))' = n + y
        BY <3>5, <3>7, <3>9, <3>11
      <3>17. Derived(u)' = n + z
        BY <3>3, <3>6, <3>9, <3>12 DEF Derived
      <3>18. x + (n + y) = (n + z) + w
        BY <3>14
      <3>. QED
        BY <3>15, <3>16, <3>17, <3>18 DEF Balanced
    <2>. QED
      BY <2>1, <2>2
  <1>8. Accurate'
    <2>1. \A u \in Users \ suspect : Balanced(u)
      BY AccurateIsBalanced DEF BooksInv, AllBalanced
    <2>2. AllBalanced'
      BY <1>7, <2>1 DEF AllBalanced
    <2>. QED
      BY <2>2, AccurateIsBalanced, PTL
  <1>9. ChargeInv'
    <2>1. ASSUME NEW q \in Uploads, upload'[q] = "charge", UploaderOf[q] \notin suspect
          PROVE  file'[ContentOf[q]].owner = UploaderOf[q] /\ file'[ContentOf[q]].fresh
      <3>1. CASE q = p
        BY <1>1, <1>2, <1>3, <3>1
      <3>2. CASE q # p
        <4>1. upload[q] = "charge"
          BY <1>4, <2>1, <3>2
        <4>2. ContentOf[q] # c
          BY <1>6, <2>1, <4>1
        <4>3. file'[ContentOf[q]] = file[ContentOf[q]]
          BY <1>3, <4>2, UsageAssumption
        <4>. QED
          BY <2>1, <4>1, <4>3 DEF BooksInv, ChargeInv
      <3>. QED
        BY <3>1, <3>2
    <2>2. ASSUME NEW q \in Uploads, NEW s \in Uploads, upload'[q] = "charge",
                 upload'[s] = "charge", q # s, ContentOf[q] = ContentOf[s],
                 UploaderOf[q] = UploaderOf[s]
          PROVE  UploaderOf[q] \in suspect
      <3>1. CASE q = p
        BY <1>1, <1>4, <1>6, <2>2, <3>1
      <3>2. CASE s = p
        BY <1>1, <1>4, <1>6, <2>2, <3>2
      <3>3. CASE q # p /\ s # p
        BY <1>4, <2>2, <3>3 DEF BooksInv, ChargeInv
      <3>. QED
        BY <3>1, <3>2, <3>3
    <2>. QED
      BY <2>1, <2>2 DEF ChargeInv
  <1>10. DeltaInv'
    BY DeltaKept DEF BooksInv
  <1>11. ASSUME NEW a \in Admins PROVE ReadOK(a)'
    <2>1. PICK w : w = WhoOf[a]
      OBVIOUS
    <2>2. Settled(w)' => Settled(w)
      <3>1. ASSUME NEW d \in Files(w), file[d].fresh, w \in Users
            PROVE  d \in Files(w)' /\ file'[d].fresh
        BY <1>3, <1>5, <3>1 DEF Files
      <3>2. w \in Users
        BY <2>1, UsageAssumption
      <3>. QED
        BY <3>1, <3>2 DEF Settled
    <2>3. Reaping(w)' = Reaping(w)
      BY SameReaps
    <2>. QED
      BY <2>1, <2>2, <2>3, ReadKept DEF BooksInv
  <1>. QED
    BY <1>8, <1>9, <1>10, <1>11 DEF BooksInv

\* ... so a completion keeps the books.
LEMMA CompleteBooks ==
    ASSUME TypeOK, BooksInv, NEW p \in Uploads, IsFiniteSet(Reapers), Complete(p)
    PROVE  BooksInv'
  <1>0. RestOK /\ FilesOK
    BY Parts
  <1>1. PICK c \in Contents : c = ContentOf[p]
    BY UsageAssumption
  <1>2. CASE file[c].owner = None
    <2>1. file' = [file EXCEPT ![c] = [owner |-> UploaderOf[p], fresh |-> TRUE, pages |-> {p}]]
      BY <1>1, <1>2 DEF Complete
    <2>2. p \in file'[c].pages
      BY <1>0, <2>1 DEF FilesOK
    <2>3. upload' = [upload EXCEPT ![p] = "charge"]
      BY <1>1, <1>2, <2>2 DEF Complete, Charged
    <2>. QED
      BY <1>1, <1>2, <2>1, <2>3, InsertBooks DEF Complete
  <1>3. CASE file[c].owner # None
    <2>1. upload' = [upload EXCEPT ![p] = "done"]
      BY <1>1, <1>3 DEF Complete, Charged
    <2>2. file' = [file EXCEPT ![c].pages = @ \cup {p}] \/ UNCHANGED file
      BY <1>1, <1>3 DEF Complete
    <2>3. \A d \in Contents : /\ file'[d].owner = file[d].owner
                              /\ file'[d].fresh = file[d].fresh
      BY <1>0, <2>2 DEF FilesOK, FileType
    <2>. QED
      BY <2>1, <2>3, LinkBooks DEF Complete
  <1>. QED
    BY <1>2, <1>3
\* A step that touches no user but the suspects keeps the counters accurate.
LEMMA UntouchedAccurate ==
    ASSUME Accurate, suspect \subseteq suspect', \A u \in Users \ suspect' : Untouched(u)
    PROVE  Accurate'
  <1>1. \A u \in Users \ suspect : Balanced(u)
    BY AccurateIsBalanced DEF AllBalanced
  <1>2. AllBalanced'
    BY <1>1, UntouchedBalanced DEF AllBalanced
  <1>. QED
    BY <1>2, AccurateIsBalanced, PTL

\* What a charge that fails was for is not told from what is.
LEMMA ChargeEnds ==
    ASSUME TypeOK, NEW p \in Uploads, Charge(p)
    PROVE  /\ upload[p] = "charge" /\ upload'[p] = "done"
           /\ \A q \in Uploads \ {p} : upload'[q] = upload[q]
           /\ suspect \subseteq suspect' /\ UNCHANGED <<file, reaper, recon, lock>>
  <1>0. RestOK
    BY Parts
  <1>. QED
    BY <1>0 DEF Charge, RestOK

\* A charge moves the size of the content from what is to be charged to the
\* counter of its user, or makes the user a suspect.
LEMMA ChargeBalances ==
    ASSUME TypeOK, BooksInv, NEW p \in Uploads, IsFiniteSet(Reapers), Charge(p),
           NEW u \in Users \ suspect', Balanced(u)
    PROVE  Balanced(u)'
  <1>0. RestOK
    BY Parts
  <1>1. PICK c \in Contents : c = ContentOf[p]
    BY UsageAssumption
  <1>2. PICK v \in Users : v = UploaderOf[p]
    BY UsageAssumption
  <1>3. /\ upload[p] = "charge" /\ upload'[p] = "done"
        /\ \A q \in Uploads \ {p} : upload'[q] = upload[q]
        /\ suspect \subseteq suspect' /\ UNCHANGED <<file, reaper, recon, lock>>
    BY ChargeEnds
  <1>4. u \notin suspect
    BY <1>3
  <1>5. Files(u)' = Files(u)
    BY <1>3, SameFiles
  <1>6. CASE u # v
    <2>1. used'[u] = used[u]
      BY <1>0, <1>2, <1>6 DEF Charge, Moved, RestOK
    <2>2. Uncharged(u)' = Uncharged(u)
      BY <1>2, <1>3, <1>6 DEF Uncharged, Charging
    <2>3. Untouched(u)
      BY <1>3, <1>5, <2>1, <2>2, SameReaps DEF Untouched
    <2>. QED
      BY <2>3, UntouchedBalanced
  <1>7. CASE u = v
    <2>1. PICK T \in SUBSET Contents : T = Uncharged(u)
      BY DEF Uncharged
    <2>2. c \in T
      BY <1>1, <1>2, <1>3, <1>7, <2>1 DEF Uncharged, Charging
    <2>3. Uncharged(u)' = T \ {c}
      <3>1. \A q \in Uploads \ {p} :
               upload[q] = "charge" /\ UploaderOf[q] = u => ContentOf[q] # c
        BY <1>1, <1>2, <1>3, <1>4, <1>7 DEF BooksInv, ChargeInv
      <3>2. \A d \in Contents \ {c} : d \in Uncharged(u)' <=> d \in T
        BY <1>1, <1>3, <2>1 DEF Uncharged, Charging
      <3>3. c \notin Uncharged(u)'
        BY <1>3, <3>1 DEF Uncharged, Charging
      <3>4. Uncharged(u)' \in SUBSET Contents
        BY DEF Uncharged
      <3>. QED
        BY <3>2, <3>3, <3>4
    <2>4. Total(T) = SizeOf[c] + Total(T \ {c})
      <3>1. PICK R : R = T \ {c}
        OBVIOUS
      <3>2. R \in SUBSET Contents /\ c \notin R /\ R \cup {c} = T
        BY <2>2, <3>1
      <3>3. Total(R \cup {c}) = SizeOf[c] + Total(R)
        BY <3>2, TotalAdd
      <3>. QED
        BY <3>1, <3>2, <3>3
    <2>5. PICK n \in Nat : n = SizeOf[c]
      BY UsageAssumption
    <2>6. PICK x \in Nat : x = used[u]
      BY <1>0, BytesNat
    <2>7. PICK y \in Nat : y = Total(T \ {c})
      BY TotalType
    <2>8. PICK z \in Nat : z = Derived(u)
      BY <1>0, BytesNat
    <2>9. PICK w \in Nat : w = Owed(u)
      BY <1>0, BytesNat
    <2>10. x + (n + y) = z + w
      BY <1>7, <2>1, <2>4, <2>5, <2>6, <2>7, <2>8, <2>9 DEF Balanced
    <2>11. used'[u] = x + n
      <3>1. used' = Moved(u, n)
        BY <1>1, <1>2, <1>7, <2>5 DEF Charge
      <3>. QED
        BY <1>0, <2>6, <3>1 DEF Moved, RestOK
    <2>12. Derived(u)' = z
      BY <1>5, <2>8 DEF Derived
    <2>13. Owed(u)' = w
      BY <1>3, <2>9 DEF Owed, Uncredits, Uncredited
    <2>14. (x + n) + y = z + w
      BY <2>10
    <2>15. Total(Uncharged(u))' = y
      BY <2>3, <2>7
    <2>. QED
      BY <2>11, <2>12, <2>13, <2>14, <2>15 DEF Balanced
  <1>. QED
    BY <1>6, <1>7

LEMMA ChargeBooks ==
    ASSUME TypeOK, BooksInv, NEW p \in Uploads, IsFiniteSet(Reapers), Charge(p)
    PROVE  BooksInv'
  <1>0. RestOK
    BY Parts
  <1>1. /\ upload[p] = "charge" /\ upload'[p] = "done"
        /\ \A q \in Uploads \ {p} : upload'[q] = upload[q]
        /\ suspect \subseteq suspect' /\ UNCHANGED <<file, reaper, recon, lock>>
    BY ChargeEnds
  <1>2. Accurate'
    <2>1. \A u \in Users \ suspect : Balanced(u)
      BY AccurateIsBalanced DEF BooksInv, AllBalanced
    <2>2. \A u \in Users \ suspect' : Balanced(u)'
      BY <1>1, <2>1, ChargeBalances
    <2>3. AllBalanced'
      BY <2>2 DEF AllBalanced
    <2>. QED
      BY <2>3, AccurateIsBalanced, PTL
  <1>3. ChargeInv'
    BY <1>1, ChargeKept DEF BooksInv
  <1>4. DeltaInv'
    BY <1>1, DeltaKept DEF BooksInv
  <1>5. ASSUME NEW a \in Admins PROVE ReadOK(a)'
    <2>1. PICK w \in Users : w = WhoOf[a]
      BY UsageAssumption
    <2>2. Settled(w)' = Settled(w) /\ Reaping(w)' = Reaping(w)
      BY <1>1, SameReaps DEF Settled, Files
    <2>3. ASSUME Settled(w), w \notin suspect' PROVE used'[w] = used[w]
      <3>1. w # UploaderOf[p]
        <4>1. ASSUME w = UploaderOf[p] PROVE FALSE
          <5>1. file[ContentOf[p]].owner = w /\ file[ContentOf[p]].fresh
            BY <1>1, <2>3, <4>1 DEF BooksInv, ChargeInv
          <5>2. ContentOf[p] \in Files(w)
            BY <5>1, UsageAssumption DEF Files
          <5>. QED
            BY <2>3, <5>1, <5>2 DEF Settled
        <4>. QED
          BY <4>1
      <3>. QED
        BY <1>0, <3>1, UsageAssumption DEF Charge, Moved, RestOK
    <2>. QED
      BY <1>1, <2>1, <2>2, <2>3, ReadKept DEF BooksInv
  <1>. QED
    BY <1>2, <1>3, <1>4, <1>5 DEF BooksInv

\* A page that goes, and a cooldown that ends, change neither owners nor what is
\* under way.
LEMMA PageBooks ==
    ASSUME TypeOK, BooksInv, NEW p \in Uploads, DeletePage(p)
    PROVE  BooksInv'
  <1>0. RestOK /\ FilesOK
    BY Parts
  <1>1. UNCHANGED <<upload, used, reaper, recon, lock, suspect, faults>>
    BY DEF DeletePage
  <1>2. \A c \in Contents : /\ file'[c].owner = file[c].owner
                            /\ file'[c].fresh = file[c].fresh
    BY <1>0 DEF DeletePage, FilesOK, FileType
  <1>3. \A u \in Users : Untouched(u)
    BY <1>1, <1>2, SameUncharged, SameFiles, SameReaps DEF Untouched
  <1>4. Accurate'
    BY <1>1, <1>3, UntouchedAccurate DEF BooksInv
  <1>5. ChargeInv'
    BY <1>1, <1>2, ChargeKept, UsageAssumption DEF BooksInv
  <1>6. DeltaInv'
    BY <1>1, DeltaKept DEF BooksInv
  <1>7. ASSUME NEW a \in Admins PROVE ReadOK(a)'
    <2>1. Settled(WhoOf[a])' => Settled(WhoOf[a])
      BY <1>2 DEF Settled, Files
    <2>2. Reaping(WhoOf[a])' = Reaping(WhoOf[a])
      BY <1>1, SameReaps
    <2>. QED
      BY <1>1, <2>1, <2>2, ReadKept DEF BooksInv
  <1>. QED
    BY <1>4, <1>5, <1>6, <1>7 DEF BooksInv

LEMMA AgeBooks ==
    ASSUME TypeOK, BooksInv, NEW c \in Contents, Age(c)
    PROVE  BooksInv'
  <1>0. RestOK /\ FilesOK
    BY Parts
  <1>1. UNCHANGED <<upload, used, reaper, recon, lock, suspect, faults>>
    BY DEF Age
  <1>2. /\ \A d \in Contents : file'[d].owner = file[d].owner
        /\ \A d \in Contents \ {c} : file'[d] = file[d]
    BY <1>0 DEF Age, FilesOK, FileType
  <1>3. \A u \in Users : Untouched(u)
    BY <1>1, <1>2, SameUncharged, SameFiles, SameReaps DEF Untouched
  <1>4. Accurate'
    BY <1>1, <1>3, UntouchedAccurate DEF BooksInv
  <1>5. ChargeInv'
    <2>1. \A q \in Uploads : upload[q] = "charge" => ContentOf[q] # c /\ ContentOf[q] \in Contents
      BY UsageAssumption DEF Age, Charging
    <2>. QED
      BY <1>1, <1>2, <2>1, ChargeKept DEF BooksInv
  <1>6. DeltaInv'
    BY <1>1, DeltaKept DEF BooksInv
  <1>7. ASSUME NEW a \in Admins PROVE ReadOK(a)'
    <2>1. recon'[a].pc \notin {"rows", "last"}
      BY <1>1 DEF Age
    <2>. QED
      BY <2>1 DEF ReadOK
  <1>. QED
    BY <1>4, <1>5, <1>6, <1>7 DEF BooksInv
\* Orphans that are found are not deleted yet.
LEMMA FindBooks ==
    ASSUME TypeOK, BooksInv, NEW r \in Reapers, FindOrphans(r)
    PROVE  BooksInv'
  <1>0. ReapersOK
    BY Parts
  <1>1. UNCHANGED <<file, upload, used, recon, lock, suspect, faults>>
    BY DEF FindOrphans
  <1>2. /\ reaper[r].pc = "idle" /\ reaper'[r].pc = "delete"
        /\ \A s \in Reapers \ {r} : reaper'[s] = reaper[s]
    BY <1>0 DEF FindOrphans, ReapersOK
  <1>3. \A u \in Users, s \in Reapers : Uncredited(s, u)' = Uncredited(s, u)
    <2>1. SUFFICES ASSUME NEW u \in Users, NEW s \in Reapers
                   PROVE  Uncredited(s, u)' = Uncredited(s, u)
      OBVIOUS
    <2>2. CASE s = r
      <3>1. Uncredited(s, u) = {} /\ Uncredited(s, u)' = {}
        BY <1>2, <2>2 DEF Uncredited
      <3>. QED
        BY <3>1
    <2>3. CASE s # r
      BY <1>2, <2>3 DEF Uncredited
    <2>. QED
      BY <2>2, <2>3
  <1>4. \A u \in Users : Untouched(u)
    BY <1>1, <1>3, SameUncharged, SameFiles DEF Untouched
  <1>5. Accurate'
    BY <1>1, <1>4, UntouchedAccurate DEF BooksInv
  <1>6. ChargeInv'
    BY <1>1, ChargeKept DEF BooksInv
  <1>7. DeltaInv'
    BY <1>1, DeltaKept DEF BooksInv
  <1>8. ASSUME NEW a \in Admins PROVE ReadOK(a)'
    <2>1. Settled(WhoOf[a])' = Settled(WhoOf[a])
      BY <1>1 DEF Settled, Files
    <2>2. ~ Reaping(WhoOf[a]) => ~ Reaping(WhoOf[a])'
      BY <1>3, UsageAssumption DEF Reaping
    <2>. QED
      BY <1>1, <2>1, <2>2, ReadKept DEF BooksInv
  <1>. QED
    BY <1>5, <1>6, <1>7, <1>8 DEF BooksInv

\* A deletion, as a user sees it whom it does not make a suspect: the rows that
\* go are those to be credited to that user, no upload is still to be charged
\* for them, and every reading of that user's is torn.
Reaped(r, u) == {c \in Contents : <<c, u>> \in reaper[r].rows /\ c \in Orphans}

LEMMA DeletionSeen ==
    ASSUME TypeOK, NEW r \in Reapers, DeleteRows(r), NEW u \in Users \ suspect'
    PROVE  /\ Reaped(r, u) \in SUBSET Files(u)
           /\ Files(u)' = Files(u) \ Reaped(r, u)
           /\ Uncredited(r, u) = {} /\ Uncredited(r, u)' = Reaped(r, u)
           /\ \A c \in Reaped(r, u) : Charging(c) = {}
           /\ \A c \in Files(u)' : file'[c] = file[c]
  <1>0. FilesOK /\ ReapersOK /\ u \in Users
    BY Parts
  <1>1. PICK D : D = {row \in reaper[r].rows : row[1] \in Orphans}
    OBVIOUS
  <1>2. PICK G : G = {row[1] : row \in D}
    OBVIOUS
  <1>3. /\ reaper[r].pc = "delete"
        /\ file' = [c \in Contents |-> IF c \in G THEN NoFile ELSE file[c]]
        /\ IF G = {} THEN EndReap(r)
           ELSE reaper' = [reaper EXCEPT ![r] = [pc |-> "credit", rows |-> D]]
        /\ suspect' = suspect \cup UNION {{file[row[1]].owner, row[2]} : row \in {x \in D :
                          Charging(x[1]) # {} \/ file[x[1]].owner # x[2]}}
    BY <1>1, <1>2 DEF DeleteRows
  <1>4. \A row \in D : row \in Contents \X Users
    BY <1>0, <1>1 DEF ReapersOK, ReapType
  <1>5. ASSUME NEW row \in D, row[2] = u \/ file[row[1]].owner = u
        PROVE  row[2] = u /\ file[row[1]].owner = u /\ Charging(row[1]) = {}
    BY <1>3, <1>5
  <1>6. \A c \in Contents : <<c, u>> \in D <=> c \in Reaped(r, u)
    BY <1>1 DEF Reaped
  <1>7. \A c \in Reaped(r, u) : c \in Contents /\ file[c].owner = u /\ Charging(c) = {} /\ c \in G
    <2>1. SUFFICES ASSUME NEW c \in Reaped(r, u)
                   PROVE  c \in Contents /\ file[c].owner = u /\ Charging(c) = {} /\ c \in G
      OBVIOUS
    <2>2. c \in Contents
      BY DEF Reaped
    <2>3. PICK row \in D : row = <<c, u>>
      BY <1>6, <2>2
    <2>4. row[1] = c /\ row[2] = u
      BY <2>3
    <2>. QED
      BY <1>2, <1>5, <2>2, <2>4
  <1>8. \A c \in G : file[c].owner = u => c \in Reaped(r, u)
    <2>1. SUFFICES ASSUME NEW c \in G, file[c].owner = u PROVE c \in Reaped(r, u)
      OBVIOUS
    <2>2. PICK row \in D : row[1] = c
      BY <1>2
    <2>3. row[2] = u
      BY <1>5, <2>1, <2>2
    <2>4. row = <<c, u>> /\ c \in Contents
      BY <1>4, <2>2, <2>3
    <2>. QED
      BY <1>6, <2>4
  <1>9. u # None
    BY <1>0, UsageAssumption
  <1>10. \A c \in Contents : file'[c].owner = u <=> file[c].owner = u /\ c \notin G
    BY <1>3, <1>9 DEF NoFile
  <1>11. Files(u)' = Files(u) \ Reaped(r, u)
    <2>1. \A c \in Contents : c \in Files(u)' <=> c \in Files(u) /\ c \notin Reaped(r, u)
      BY <1>7, <1>8, <1>10 DEF Files
    <2>2. Files(u)' \in SUBSET Contents /\ Files(u) \in SUBSET Contents
      BY DEF Files
    <2>. QED
      BY <2>1, <2>2
  <1>12. Uncredited(r, u) = {}
    BY <1>3 DEF Uncredited
  <1>13. Uncredited(r, u)' = Reaped(r, u)
    <2>1. CASE G = {}
      <3>1. reaper'[r] = NoReap
        BY <1>0, <1>3, <2>1 DEF EndReap, ReapersOK
      <3>2. Uncredited(r, u)' = {}
        BY <3>1 DEF Uncredited, NoReap
      <3>3. Reaped(r, u) = {}
        BY <1>7, <2>1
      <3>. QED
        BY <3>2, <3>3
    <2>2. CASE G # {}
      <3>1. reaper'[r] = [pc |-> "credit", rows |-> D]
        BY <1>0, <1>3, <2>2 DEF ReapersOK
      <3>2. Uncredited(r, u)' = {c \in Contents : <<c, u>> \in D}
        BY <3>1 DEF Uncredited
      <3>3. Reaped(r, u) \in SUBSET Contents
        BY DEF Reaped
      <3>. QED
        BY <1>6, <3>2, <3>3
    <2>. QED
      BY <2>1, <2>2
  <1>14. \A c \in Files(u)' : file'[c] = file[c]
    BY <1>3, <1>9 DEF Files, NoFile
  <1>. QED
    BY <1>7, <1>11, <1>12, <1>13, <1>14 DEF Files

LEMMA DeletionRest ==
    ASSUME TypeOK, NEW r \in Reapers, DeleteRows(r)
    PROVE  /\ UNCHANGED <<upload, used, lock, faults>> /\ suspect \subseteq suspect'
           /\ \A s \in Reapers \ {r} : reaper'[s] = reaper[s]
           /\ \A k \in Recons : /\ recon'[k].pc = recon[k].pc
                                /\ recon'[k].read = recon[k].read
                                /\ recon'[k].delta = recon[k].delta
                                /\ ~ recon'[k].torn => ~ recon[k].torn
  <1>0. ReapersOK /\ ReconsOK
    BY Parts
  <1>1. UNCHANGED <<upload, used, lock, faults>> /\ suspect \subseteq suspect'
    BY DEF DeleteRows
  <1>2. \A s \in Reapers \ {r} : reaper'[s] = reaper[s]
    BY <1>0 DEF DeleteRows, EndReap, ReapersOK
  <1>3. \A k \in Recons : recon'[k] = recon[k] \/ recon'[k] = [recon[k] EXCEPT !.torn = TRUE]
    BY DEF DeleteRows, Recons
  <1>4. \A k \in Recons : recon[k] \in ReconType
    BY <1>0 DEF ReconsOK
  <1>5. ASSUME NEW k \in Recons
        PROVE  /\ recon'[k].pc = recon[k].pc /\ recon'[k].read = recon[k].read
               /\ recon'[k].delta = recon[k].delta
               /\ ~ recon'[k].torn => ~ recon[k].torn
    BY <1>3, <1>4 DEF ReconType
  <1>. QED
    BY <1>1, <1>2, <1>5

\* A row that is gone while a reading of its owner's is under way tears it.
LEMMA DeletionTears ==
    ASSUME TypeOK, NEW r \in Reapers, DeleteRows(r), NEW a \in Admins,
           WhoOf[a] \notin suspect', recon[a].pc \in {"rows", "last"}, ~ recon'[a].torn
    PROVE  Reaped(r, WhoOf[a]) = {}
  <1>1. PICK u \in Users : u = WhoOf[a]
    BY UsageAssumption
  <1>2. PICK G : G = {row[1] : row \in {row \in reaper[r].rows : row[1] \in Orphans}}
    OBVIOUS
  <1>3. ~ \E c \in G : file[c].owner = u
    <2>1. recon' = [k \in Admins \cup {Cron} |->
               IF recon[k].pc \in {"rows", "last"} /\ \E c \in G : file[c].owner = WhoOf[k]
               THEN [recon[k] EXCEPT !.torn = TRUE] ELSE recon[k]]
      BY <1>2 DEF DeleteRows
    <2>3. recon[a] \in ReconType
      BY Parts DEF ReconsOK, Recons
    <2>4. ASSUME NEW c \in G, file[c].owner = u PROVE FALSE
      <3>1. recon'[a] = [recon[a] EXCEPT !.torn = TRUE]
        BY <1>1, <2>1, <2>4
      <3>. QED
        BY <2>3, <3>1 DEF ReconType
    <2>. QED
      BY <2>4
  <1>4. ASSUME NEW c \in Reaped(r, u) PROVE FALSE
    <2>1. <<c, u>> \in reaper[r].rows /\ c \in Orphans
      BY DEF Reaped
    <2>2. PICK row \in reaper[r].rows : row = <<c, u>>
      BY <2>1
    <2>3. c \in G
      BY <1>2, <2>1, <2>2
    <2>4. file[c].owner = u
      BY <1>1, DeletionSeen DEF Files
    <2>. QED
      BY <1>3, <2>3, <2>4
  <1>. QED
    BY <1>1, <1>4
\* A deletion moves the sizes of the rows from what the user has to what is owed.
LEMMA DeletionBalances ==
    ASSUME TypeOK, NEW r \in Reapers, IsFiniteSet(Reapers), DeleteRows(r),
           NEW u \in Users \ suspect', Balanced(u)
    PROVE  Balanced(u)'
  <1>0. RestOK /\ u \in Users
    BY Parts
  <1>1. PICK S \in SUBSET Contents : S = Files(u)
    BY DEF Files
  <1>2. PICK G \in SUBSET S : G = Reaped(r, u)
    BY <1>1, DeletionSeen
  <1>3. /\ Files(u)' = S \ G /\ Uncredited(r, u) = {} /\ Uncredited(r, u)' = G
    BY <1>1, <1>2, DeletionSeen
  <1>4. /\ UNCHANGED <<upload, used>>
        /\ \A s \in Reapers \ {r} : reaper'[s] = reaper[s]
    BY DeletionRest
  <1>5. Uncharged(u)' = Uncharged(u)
    BY <1>4, SameUncharged
  <1>6. \A s \in Reapers \ {r} : Uncredited(s, u)' = Uncredited(s, u)
    BY <1>4 DEF Uncredited
  <1>7. Total(Uncredited(r, u)) = 0
    BY <1>3, TotalEmpty
  <1>8. Owed(u)' = (Owed(u) - Total(Uncredited(r, u))) + Total(Uncredited(r, u)')
    BY <1>0, <1>6, OwedMoves
  <1>9. Total(S) = Total(G) + Total(S \ G)
    BY TotalSplit
  <1>10. PICK x \in Nat : x = used[u]
    BY <1>0, BytesNat
  <1>11. PICK y \in Nat : y = Total(Uncharged(u))
    BY <1>0, BytesNat
  <1>12. PICK g \in Nat : g = Total(G)
    BY TotalType
  <1>13. PICK z \in Nat : z = Total(S \ G)
    BY TotalType
  <1>14. PICK w \in Nat : w = Owed(u)
    BY <1>0, BytesNat
  <1>15. Derived(u) = g + z
    BY <1>1, <1>9, <1>12, <1>13 DEF Derived
  <1>16. x + y = (g + z) + w
    BY <1>10, <1>11, <1>14, <1>15 DEF Balanced
  <1>17. Derived(u)' = z
    BY <1>3, <1>13 DEF Derived
  <1>18. Owed(u)' = (w - 0) + g
    BY <1>3, <1>7, <1>8, <1>12, <1>14
  <1>19. used'[u] = x
    BY <1>4, <1>10
  <1>20. Total(Uncharged(u))' = y
    BY <1>5, <1>11
  <1>21. x + y = z + ((w - 0) + g)
    BY <1>16
  <1>. QED
    BY <1>17, <1>18, <1>19, <1>20, <1>21 DEF Balanced

LEMMA DeleteBooks ==
    ASSUME TypeOK, BooksInv, NEW r \in Reapers, IsFiniteSet(Reapers), DeleteRows(r)
    PROVE  BooksInv'
  <1>0. FilesOK /\ ReapersOK
    BY Parts
  <1>1. /\ UNCHANGED <<upload, used, lock, faults>> /\ suspect \subseteq suspect'
        /\ \A s \in Reapers \ {r} : reaper'[s] = reaper[s]
        /\ \A k \in Recons : /\ recon'[k].pc = recon[k].pc
                             /\ recon'[k].read = recon[k].read
                             /\ recon'[k].delta = recon[k].delta
                             /\ ~ recon'[k].torn => ~ recon[k].torn
    BY DeletionRest
  <1>2. Accurate'
    <2>1. \A u \in Users \ suspect : Balanced(u)
      BY AccurateIsBalanced DEF BooksInv, AllBalanced
    <2>2. \A u \in Users \ suspect' : Balanced(u)'
      BY <1>1, <2>1, DeletionBalances
    <2>3. AllBalanced'
      BY <2>2 DEF AllBalanced
    <2>. QED
      BY <2>3, AccurateIsBalanced, PTL
  <1>3. ChargeInv'
    <2>1. ASSUME NEW p \in Uploads, upload'[p] = "charge", UploaderOf[p] \notin suspect'
          PROVE  file'[ContentOf[p]] = file[ContentOf[p]]
      <3>1. PICK u \in Users \ suspect' : u = UploaderOf[p]
        BY <2>1, UsageAssumption
      <3>2. PICK c \in Contents : c = ContentOf[p]
        BY UsageAssumption
      <3>3. upload[p] = "charge" /\ u \notin suspect
        BY <1>1, <2>1, <3>1
      <3>4. c \in Files(u)
        BY <3>1, <3>2, <3>3 DEF BooksInv, ChargeInv, Files
      <3>5. p \in Charging(c)
        BY <3>2, <3>3 DEF Charging
      <3>6. c \notin Reaped(r, u)
        BY <3>5, DeletionSeen
      <3>7. c \in Files(u)'
        BY <3>4, <3>6, DeletionSeen
      <3>8. file'[c] = file[c]
        BY <3>7, DeletionSeen
      <3>. QED
        BY <3>2, <3>8
    <2>. QED
      BY <1>1, <2>1, ChargeKept DEF BooksInv
  <1>4. DeltaInv'
    BY <1>1, DeltaKept DEF BooksInv
  <1>5. ASSUME NEW a \in Admins PROVE ReadOK(a)'
    <2>1. PICK u \in Users : u = WhoOf[a]
      BY UsageAssumption
    <2>2. a \in Recons
      BY DEF Recons
    <2>3. ASSUME u \notin suspect', recon[a].pc \in {"rows", "last"}, ~ recon'[a].torn
          PROVE  /\ Settled(u)' => Settled(u)
                 /\ ~ Reaping(u) => ~ Reaping(u)'
      <3>1. Reaped(r, u) = {}
        BY <2>1, <2>3, DeletionTears
      <3>2. Files(u)' = Files(u) /\ Uncredited(r, u)' = {}
            /\ \A c \in Files(u)' : file'[c] = file[c]
        BY <2>3, <3>1, DeletionSeen
      <3>3. Settled(u)' => Settled(u)
        BY <3>2 DEF Settled
      <3>4. \A s \in Reapers \ {r} : Uncredited(s, u)' = Uncredited(s, u)
        BY <1>1 DEF Uncredited
      <3>5. ~ Reaping(u) => ~ Reaping(u)'
        BY <3>2, <3>4 DEF Reaping
      <3>. QED
        BY <3>3, <3>5
    <2>. QED
      BY <1>1, <2>1, <2>2, <2>3, ReadKept DEF BooksInv
  <1>. QED
    BY <1>2, <1>3, <1>4, <1>5 DEF BooksInv

\* A credit, as the reaps see it.
Lowered(u, c) == Moved(u, - SizeOf[c])

LEMMA CreditDoes ==
    ASSUME TypeOK, NEW r \in Reapers, Credit(r)
    PROVE  /\ UNCHANGED <<file, upload, recon, lock>> /\ suspect \subseteq suspect'
           /\ \A s \in Reapers \ {r} : reaper'[s] = reaper[s]
           /\ \E c \in Contents, v \in Users :
                 /\ c \in Uncredited(r, v)
                 /\ Uncredited(r, v)' = Uncredited(r, v) \ {c}
                 /\ \A u \in Users \ {v} : Uncredited(r, u)' = Uncredited(r, u)
                 /\ used' = Lowered(v, c) \/ (v \in suspect' /\ used' = used)
  <1>0. ReapersOK
    BY Parts
  <1>1. PICK row \in reaper[r].rows :
          /\ Credited(r, row)
          /\ \/ used' = Lowered(row[2], row[1]) /\ UNCHANGED <<suspect, faults>>
             \/ Fault /\ suspect' = suspect \cup {row[2]} /\ UNCHANGED used
    BY DEF Credit, Lowered
  <1>2. PICK R \in SUBSET (Contents \X Users) : R = reaper[r].rows
    BY <1>0 DEF ReapersOK, ReapType
  <1>3. PICK c \in Contents, v \in Users : row = <<c, v>>
    BY <1>1, <1>2
  <1>4. reaper[r].pc = "credit"
    BY DEF Credit
  <1>5. \A u \in Users : Uncredited(r, u) = {d \in Contents : <<d, u>> \in R}
    BY <1>2, <1>4 DEF Uncredited
  <1>6. \A u \in Users : Uncredited(r, u)' = {d \in Contents : <<d, u>> \in R \ {row}}
    <2>1. CASE R = {row}
      <3>1. reaper'[r] = NoReap
        BY <1>0, <1>1, <1>2, <2>1 DEF Credited, EndReap, ReapersOK
      <3>2. \A u \in Users : Uncredited(r, u)' = {}
        BY <3>1 DEF Uncredited, NoReap
      <3>. QED
        BY <2>1, <3>2
    <2>2. CASE R # {row}
      <3>1. PICK x : x = [reaper[r] EXCEPT !.rows = R \ {row}]
        OBVIOUS
      <3>2. reaper' = [reaper EXCEPT ![r] = x]
        BY <1>0, <1>1, <1>2, <2>2, <3>1 DEF Credited, ReapersOK
      <3>3. reaper'[r] = x
        BY <1>0, <3>2 DEF ReapersOK
      <3>4. x.pc = "credit" /\ x.rows = R \ {row}
        BY <1>0, <1>4, <3>1 DEF ReapersOK, ReapType
      <3>. QED
        BY <3>3, <3>4 DEF Uncredited
    <2>. QED
      BY <2>1, <2>2
  <1>7. c \in Uncredited(r, v) /\ Uncredited(r, v)' = Uncredited(r, v) \ {c}
    <2>1. <<c, v>> \in R
      BY <1>1, <1>2, <1>3
    <2>2. \A d \in Contents : <<d, v>> = row <=> d = c
      BY <1>3
    <2>3. {d \in Contents : <<d, v>> \in R \ {row}} = {d \in Contents : <<d, v>> \in R} \ {c}
      BY <2>2
    <2>. QED
      BY <1>5, <1>6, <2>1, <2>3
  <1>8. \A u \in Users \ {v} : Uncredited(r, u)' = Uncredited(r, u)
    <2>1. \A u \in Users \ {v}, d \in Contents : <<d, u>> # row
      BY <1>3
    <2>2. \A u \in Users \ {v}, d \in Contents : <<d, u>> \in R \ {row} <=> <<d, u>> \in R
      BY <2>1
    <2>3. \A u \in Users \ {v} : {d \in Contents : <<d, u>> \in R \ {row}}
                                 = {d \in Contents : <<d, u>> \in R}
      BY <2>2
    <2>. QED
      BY <1>5, <1>6, <2>3
  <1>9. used' = Lowered(v, c) \/ (v \in suspect' /\ used' = used)
    <2>1. row[1] = c /\ row[2] = v
      BY <1>3
    <2>2. CASE used' = Lowered(row[2], row[1])
      BY <2>1, <2>2
    <2>3. CASE suspect' = suspect \cup {row[2]} /\ UNCHANGED used
      BY <2>1, <2>3
    <2>. QED
      BY <1>1, <2>2, <2>3
  <1>10. UNCHANGED <<file, upload, recon, lock>> /\ suspect \subseteq suspect'
    BY DEF Credit
  <1>11. \A s \in Reapers \ {r} : reaper'[s] = reaper[s]
    BY <1>0, <1>1 DEF Credited, EndReap, ReapersOK
  <1>. QED
    BY <1>7, <1>8, <1>9, <1>10, <1>11

\* It takes from the counter what is no longer owed: the counter has it, since
\* all that is still to be charged for has its rows.
LEMMA CreditBalances ==
    ASSUME TypeOK, BooksInv, NEW r \in Reapers, IsFiniteSet(Reapers), Credit(r),
           NEW u \in Users \ suspect', Balanced(u)
    PROVE  Balanced(u)'
  <1>0. RestOK /\ u \in Users
    BY Parts
  <1>1. /\ UNCHANGED <<file, upload>> /\ suspect \subseteq suspect'
        /\ \A s \in Reapers \ {r} : reaper'[s] = reaper[s]
    BY CreditDoes
  <1>2. PICK c \in Contents, v \in Users :
          /\ c \in Uncredited(r, v)
          /\ Uncredited(r, v)' = Uncredited(r, v) \ {c}
          /\ \A w \in Users \ {v} : Uncredited(r, w)' = Uncredited(r, w)
          /\ used' = Lowered(v, c) \/ (v \in suspect' /\ used' = used)
    BY CreditDoes
  <1>3. Files(u)' = Files(u) /\ Uncharged(u)' = Uncharged(u)
    BY <1>1, SameFiles, SameUncharged
  <1>4. \A s \in Reapers \ {r} : Uncredited(s, u)' = Uncredited(s, u)
    BY <1>1 DEF Uncredited
  <1>5. CASE u # v
    <2>1. used'[u] = used[u]
      BY <1>0, <1>2, <1>5 DEF Lowered, Moved, RestOK
    <2>2. \A s \in Reapers : Uncredited(s, u)' = Uncredited(s, u)
      BY <1>2, <1>4, <1>5
    <2>. QED
      BY <1>3, <2>1, <2>2, UntouchedBalanced DEF Untouched
  <1>6. CASE u = v
    <2>1. PICK S \in SUBSET Contents : S = Uncredited(r, u)
      BY DEF Uncredited
    <2>2. c \in S /\ Uncredited(r, u)' = S \ {c}
      BY <1>2, <1>6, <2>1
    <2>3. Total(S) = SizeOf[c] + Total(S \ {c})
      <3>1. PICK R : R = S \ {c}
        OBVIOUS
      <3>2. R \in SUBSET Contents /\ c \notin R /\ R \cup {c} = S
        BY <2>2, <3>1
      <3>3. Total(R \cup {c}) = SizeOf[c] + Total(R)
        BY <3>2, TotalAdd
      <3>. QED
        BY <3>1, <3>2, <3>3
    <2>4. Uncharged(u) \subseteq Files(u)
      BY <1>1 DEF BooksInv, ChargeInv, Uncharged, Charging, Files
    <2>5. Total(Uncharged(u)) <= Derived(u)
      BY <2>4, TotalPart DEF Derived, Files
    <2>6. Total(S) <= Owed(u)
      BY <1>0, <2>1, BytesNat
    <2>7. Owed(u)' = (Owed(u) - Total(S)) + Total(S \ {c})
      <3>1. Owed(u)' = (Owed(u) - Total(Uncredited(r, u))) + Total(Uncredited(r, u)')
        BY <1>0, <1>4, OwedMoves
      <3>. QED
        BY <2>1, <2>2, <3>1
    <2>8. PICK n \in Nat : n = SizeOf[c]
      BY UsageAssumption
    <2>9. PICK x \in Nat : x = used[u]
      BY <1>0, BytesNat
    <2>10. PICK y \in Nat : y = Total(Uncharged(u))
      BY <1>0, BytesNat
    <2>11. PICK z \in Nat : z = Derived(u)
      BY <1>0, BytesNat
    <2>12. PICK w \in Nat : w = Owed(u)
      BY <1>0, BytesNat
    <2>13. PICK t \in Nat : t = Total(S \ {c})
      BY TotalType
    <2>14. x + y = z + w
      BY <2>9, <2>10, <2>11, <2>12 DEF Balanced
    <2>15. n + t <= w /\ y <= z
      BY <2>3, <2>5, <2>6, <2>8, <2>10, <2>11, <2>12, <2>13
    <2>16. Owed(u)' = (w - (n + t)) + t
      BY <2>3, <2>7, <2>8, <2>12, <2>13
    <2>17. x + (- n) >= 0
      BY <2>14, <2>15
    <2>18. used'[u] = x + (- n)
      <3>1. used' = Moved(u, - n)
        BY <1>2, <1>6, <2>8 DEF Lowered
      <3>2. used'[u] = IF x + (- n) < 0 THEN 0 ELSE x + (- n)
        BY <1>0, <2>9, <3>1 DEF Moved, RestOK
      <3>. QED
        BY <2>17, <3>2
    <2>19. Derived(u)' = z
      BY <1>3, <2>11 DEF Derived
    <2>20. Total(Uncharged(u))' = y
      BY <1>3, <2>10
    <2>21. (x + (- n)) + y = z + ((w - (n + t)) + t)
      BY <2>14
    <2>. QED
      BY <2>16, <2>18, <2>19, <2>20, <2>21 DEF Balanced
  <1>. QED
    BY <1>5, <1>6

LEMMA CreditBooks ==
    ASSUME TypeOK, BooksInv, NEW r \in Reapers, IsFiniteSet(Reapers), Credit(r)
    PROVE  BooksInv'
  <1>0. RestOK
    BY Parts
  <1>1. /\ UNCHANGED <<file, upload, recon, lock>> /\ suspect \subseteq suspect'
        /\ \A s \in Reapers \ {r} : reaper'[s] = reaper[s]
    BY CreditDoes
  <1>2. Accurate'
    <2>1. \A u \in Users \ suspect : Balanced(u)
      BY AccurateIsBalanced DEF BooksInv, AllBalanced
    <2>2. \A u \in Users \ suspect' : Balanced(u)'
      BY <1>1, <2>1, CreditBalances
    <2>3. AllBalanced'
      BY <2>2 DEF AllBalanced
    <2>. QED
      BY <2>3, AccurateIsBalanced, PTL
  <1>3. ChargeInv'
    BY <1>1, ChargeKept DEF BooksInv
  <1>4. DeltaInv'
    BY <1>1, DeltaKept DEF BooksInv
  <1>5. ASSUME NEW a \in Admins PROVE ReadOK(a)'
    <2>1. PICK u \in Users : u = WhoOf[a]
      BY UsageAssumption
    <2>2. PICK c \in Contents, v \in Users :
            /\ c \in Uncredited(r, v)
            /\ \A w \in Users \ {v} : Uncredited(r, w)' = Uncredited(r, w)
            /\ used' = Lowered(v, c) \/ (v \in suspect' /\ used' = used)
      BY CreditDoes
    <2>3. ASSUME ~ Reaping(u) PROVE ~ Reaping(u)' /\ used'[u] = used[u]
      <3>1. u # v
        BY <2>2, <2>3 DEF Reaping
      <3>2. used'[u] = used[u]
        BY <1>0, <2>1, <2>2, <3>1 DEF Lowered, Moved, RestOK
      <3>3. Uncredited(r, u)' = Uncredited(r, u)
        BY <2>1, <2>2, <3>1
      <3>4. \A s \in Reapers \ {r} : Uncredited(s, u)' = Uncredited(s, u)
        BY <1>1 DEF Uncredited
      <3>. QED
        BY <2>3, <3>2, <3>3, <3>4 DEF Reaping
    <2>4. Settled(u)' = Settled(u)
      BY <1>1 DEF Settled, Files
    <2>. QED
      BY <1>1, <2>1, <2>3, <2>4, ReadKept DEF BooksInv
  <1>. QED
    BY <1>2, <1>3, <1>4, <1>5 DEF BooksInv
\* The reconciles leave rows, uploads and reaps alone.
LEMMA ReconBooks ==
    ASSUME TypeOK, BooksInv, UNCHANGED <<file, upload, reaper>>, suspect \subseteq suspect',
           \A u \in Users \ suspect' : used'[u] = used[u]
    PROVE  /\ Accurate' /\ ChargeInv'
           /\ \A u \in Users : Settled(u)' = Settled(u) /\ Reaping(u)' = Reaping(u)
  <1>1. \A u \in Users \ suspect' : Untouched(u)
    BY SameUncharged, SameFiles, SameReaps DEF Untouched
  <1>2. Accurate'
    BY <1>1, UntouchedAccurate DEF BooksInv
  <1>3. ChargeInv'
    BY ChargeKept DEF BooksInv
  <1>4. \A u \in Users : Settled(u)' = Settled(u) /\ Reaping(u)' = Reaping(u)
    BY SameReaps DEF Settled, Files
  <1>. QED
    BY <1>2, <1>3, <1>4

\* Whoever takes the lock, or holds it, finds no other reconcile under way.
LEMMA OthersRest ==
    ASSUME TypeOK, NEW k \in Recons, lock = None \/ lock = k
    PROVE  \A j \in Recons \ {k} : recon[j].pc \notin Busy
  <1>1. None \notin Recons
    BY UsageAssumption DEF Recons
  <1>. QED
    BY <1>1, Parts DEF ReconsOK

\* The cron corrects no settled user but the suspects.
LEMMA CronBooks ==
    ASSUME TypeOK, BooksInv, IsFiniteSet(Reapers), CronScan
    PROVE  BooksInv'
  <1>0. ReconsOK /\ RestOK
    BY Parts
  <1>1. /\ UNCHANGED <<file, upload, used, reaper>> /\ suspect \subseteq suspect'
        /\ lock = None
    BY DEF CronScan, Unlocked
  <1>2. Accurate' /\ ChargeInv'
    BY <1>1, ReconBooks
  <1>3. PICK f : f = [u \in Users |-> IF u \in Candidates THEN Drift(u) ELSE 0]
    OBVIOUS
  <1>4. recon'[Cron].delta = f /\ recon'[Cron].pc = "correct"
        /\ \A k \in Recons \ {Cron} : recon'[k] = recon[k]
    <2>1. recon' = [recon EXCEPT ![Cron] = [NoRecon EXCEPT !.pc = "correct", !.delta = f]]
      BY <1>3 DEF CronScan
    <2>. QED
      BY <1>0, <2>1, NoReconType DEF ReconsOK, Recons, ReconType
  <1>5. ASSUME NEW u \in Users, f[u] # 0 PROVE u \in suspect'
    <2>1. u \in Candidates
      BY <1>3, <1>5
    <2>2. Flagged(Drift(u)) /\ Settled(u)
      BY <2>1 DEF Candidates
    <2>3. Drift(u) # 0
      BY <2>2, UsageAssumption DEF Flagged
    <2>4. u \in suspect \/ Reaping(u)
      BY <2>2, <2>3, SettledUser
    <2>. QED
      BY <2>1, <2>4 DEF CronScan
  <1>6. DeltaInv'
    BY <1>1, <1>4, <1>5 DEF BooksInv, DeltaInv
  <1>7. ASSUME NEW a \in Admins PROVE ReadOK(a)'
    <2>1. a \in Recons \ {Cron}
      BY UsageAssumption DEF Recons
    <2>2. recon'[a].pc \notin Busy
      BY <1>0, <1>1, <1>4, <2>1, OthersRest DEF Recons
    <2>. QED
      BY <2>2 DEF ReadOK, Busy
  <1>. QED
    BY <1>2, <1>6, <1>7 DEF BooksInv

\* An administrator reads the counter ...
LEMMA ReadBooks ==
    ASSUME TypeOK, BooksInv, NEW a \in Admins, AdminRead(a)
    PROVE  BooksInv'
  <1>0. ReconsOK /\ a \in Recons
    BY Parts DEF Recons
  <1>1. UNCHANGED <<file, upload, used, reaper, suspect>> /\ lock = None
    BY DEF AdminRead, Unlocked
  <1>2. /\ Accurate' /\ ChargeInv'
        /\ \A u \in Users : Settled(u)' = Settled(u) /\ Reaping(u)' = Reaping(u)
    BY <1>1, ReconBooks
  <1>3. /\ recon'[a].pc = "rows" /\ recon'[a].read = used[WhoOf[a]]
        /\ recon'[a].torn = Reaping(WhoOf[a])
        /\ recon'[a].delta = NoRecon.delta
        /\ \A k \in Recons \ {a} : recon'[k] = recon[k]
    BY <1>0 DEF AdminRead, ReconsOK, NoRecon
  <1>4. DeltaInv'
    <2>1. \A u \in Users : NoRecon.delta[u] = 0
      BY DEF NoRecon
    <2>. QED
      BY <1>1, <1>3, <2>1 DEF BooksInv, DeltaInv
  <1>5. ASSUME NEW b \in Admins PROVE ReadOK(b)'
    <2>1. CASE b = a
      <3>1. WhoOf[a] \in Users
        BY UsageAssumption
      <3>. QED
        BY <1>1, <1>2, <1>3, <2>1, <3>1 DEF ReadOK
    <2>2. CASE b # a
      <3>1. recon'[b].pc \notin Busy
        BY <1>0, <1>1, <1>3, <2>2, OthersRest DEF Recons
      <3>. QED
        BY <3>1 DEF ReadOK, Busy
    <2>. QED
      BY <2>1, <2>2
  <1>. QED
    BY <1>2, <1>4, <1>5 DEF BooksInv

\* ... then the rows: of a settled user, no difference ...
LEMMA RowsBooks ==
    ASSUME TypeOK, BooksInv, IsFiniteSet(Reapers), NEW a \in Admins, AdminRows(a)
    PROVE  BooksInv'
  <1>0. ReconsOK /\ RestOK /\ a \in Recons /\ recon[a] \in ReconType
    BY Parts DEF Recons, ReconsOK
  <1>1. UNCHANGED <<file, upload, used, reaper, suspect>> /\ recon[a].pc = "rows"
    BY DEF AdminRows
  <1>2. /\ Accurate' /\ ChargeInv'
        /\ \A u \in Users : Settled(u)' = Settled(u) /\ Reaping(u)' = Reaping(u)
    BY <1>1, ReconBooks
  <1>3. PICK u \in Users : u = WhoOf[a]
    BY UsageAssumption
  <1>4. PICK n : n = Derived(u) - recon[a].read
    OBVIOUS
  <1>5. PICK x : x = [recon[a] EXCEPT !.pc = "last", !.read = n]
    OBVIOUS
  <1>6. recon' = [recon EXCEPT ![a] = x]
    BY <1>0, <1>3, <1>4, <1>5 DEF AdminRows, ReconsOK
  <1>7. recon'[a] = x /\ \A k \in Recons \ {a} : recon'[k] = recon[k]
    BY <1>0, <1>6 DEF ReconsOK
  <1>8. x.pc = "last" /\ x.read = n /\ x.torn = recon[a].torn /\ x.delta = recon[a].delta
    BY <1>0, <1>5 DEF ReconType
  <1>9. DeltaInv'
    <2>1. \A k \in Recons : recon'[k].delta = recon[k].delta
      BY <1>7, <1>8
    <2>. QED
      BY <1>1, <2>1, DeltaKept DEF BooksInv
  <1>10. ASSUME NEW b \in Admins PROVE ReadOK(b)'
    <2>1. CASE b # a
      <3>1. recon'[b] = recon[b] /\ WhoOf[b] \in Users
        BY <1>7, <2>1, UsageAssumption DEF Recons
      <3>. QED
        BY <1>1, <1>2, <3>1, ReadKept DEF BooksInv
    <2>2. CASE b = a
      <3>1. ASSUME ~ recon[a].torn, u \notin suspect, Settled(u)
            PROVE  ~ Reaping(u) /\ n = 0
        <4>1. ~ Reaping(u) /\ recon[a].read = used[u]
          BY <1>1, <1>3, <3>1 DEF BooksInv, ReadOK
        <4>2. used[u] = Derived(u) /\ used[u] \in Nat
          BY <1>0, <3>1, <4>1, SettledUser, BytesNat
        <4>. QED
          BY <1>4, <4>1, <4>2
      <3>. QED
        BY <1>1, <1>2, <1>3, <1>7, <1>8, <2>2, <3>1 DEF ReadOK
    <2>. QED
      BY <2>1, <2>2
  <1>. QED
    BY <1>2, <1>9, <1>10 DEF BooksInv

\* ... and decides: a correction of a user who is no suspect is not needed.
LEMMA LastBooks ==
    ASSUME TypeOK, BooksInv, NEW a \in Admins, AdminLast(a)
    PROVE  BooksInv'
  <1>0. ReconsOK /\ RestOK /\ a \in Recons /\ recon[a] \in ReconType
    BY Parts DEF Recons, ReconsOK
  <1>1. /\ UNCHANGED <<file, upload, used, reaper>> /\ suspect \subseteq suspect'
        /\ recon[a].pc = "last"
    BY DEF AdminLast
  <1>2. /\ Accurate' /\ ChargeInv'
        /\ \A u \in Users : Settled(u)' = Settled(u) /\ Reaping(u)' = Reaping(u)
    BY <1>1, ReconBooks
  <1>3. PICK u \in Users : u = WhoOf[a]
    BY UsageAssumption
  <1>4. PICK x : recon' = [recon EXCEPT ![a] = x] /\ x.pc \notin {"rows", "last"}
                 /\ \A v \in Users : x.delta[v] # 0 => v \in suspect'
    <2>1. CASE Settled(u) /\ Flagged(recon[a].read)
      <3>1. PICK g : g = [NoRecon.delta EXCEPT ![u] = recon[a].read]
        OBVIOUS
      <3>2. PICK y : y = [NoRecon EXCEPT !.pc = "correct", !.delta = g]
        OBVIOUS
      <3>3. y = [NoRecon EXCEPT !.pc = "correct", !.delta[u] = recon[a].read]
        BY <3>1, <3>2, NoReconType DEF ReconType
      <3>4. recon' = [recon EXCEPT ![a] = y]
        BY <1>3, <2>1, <3>3 DEF AdminLast
      <3>5. y.pc = "correct" /\ y.delta = g
        BY <3>2, NoReconType DEF ReconType
      <3>6. \A v \in Users \ {u} : g[v] = 0
        BY <3>1 DEF NoRecon
      <3>7. suspect' = IF recon[a].torn THEN suspect \cup {u} ELSE suspect
        BY <1>3, <2>1 DEF AdminLast
      <3>8. recon[a].read # 0
        BY <2>1, UsageAssumption DEF Flagged
      <3>9. u \in suspect'
        BY <1>1, <1>3, <2>1, <3>7, <3>8 DEF BooksInv, ReadOK
      <3>. QED
        BY <3>4, <3>5, <3>6, <3>9
    <2>2. CASE ~ (Settled(u) /\ Flagged(recon[a].read))
      <3>1. PICK y : y = IF a = Cron THEN NoRecon ELSE [NoRecon EXCEPT !.pc = "done"]
        OBVIOUS
      <3>2. recon' = [recon EXCEPT ![a] = y]
        BY <1>3, <2>2, <3>1 DEF AdminLast, EndRecon
      <3>3. y.pc \notin {"rows", "last"} /\ y.delta = NoRecon.delta
        BY <3>1 DEF NoRecon
      <3>4. \A v \in Users : NoRecon.delta[v] = 0
        BY DEF NoRecon
      <3>. QED
        BY <3>2, <3>3, <3>4
    <2>. QED
      BY <2>1, <2>2
  <1>5. recon'[a] = x /\ \A k \in Recons \ {a} : recon'[k] = recon[k]
    BY <1>0, <1>4 DEF ReconsOK
  <1>6. DeltaInv'
    BY <1>1, <1>4, <1>5 DEF BooksInv, DeltaInv
  <1>7. ASSUME NEW b \in Admins PROVE ReadOK(b)'
    <2>1. CASE b = a
      BY <1>4, <1>5, <2>1 DEF ReadOK
    <2>2. CASE b # a
      <3>1. recon'[b] = recon[b] /\ WhoOf[b] \in Users
        BY <1>5, <2>2, UsageAssumption DEF Recons
      <3>. QED
        BY <1>1, <1>2, <3>1, ReadKept DEF BooksInv
    <2>. QED
      BY <2>1, <2>2
  <1>. QED
    BY <1>2, <1>6, <1>7 DEF BooksInv

\* A correction moves the counter of a suspect.
LEMMA CorrectBooks ==
    ASSUME TypeOK, BooksInv, NEW k \in Recons, NEW v \in Users, Correct(k, v)
    PROVE  BooksInv'
  <1>0. ReconsOK /\ RestOK /\ recon[k] \in ReconType
    BY Parts DEF ReconsOK
  <1>1. /\ UNCHANGED <<file, upload, reaper, suspect>>
        /\ recon[k].pc = "correct" /\ recon[k].delta[v] # 0
        /\ used' = Moved(v, recon[k].delta[v]) \/ used' = used
    BY DEF Correct
  <1>2. v \in suspect
    BY <1>1 DEF BooksInv, DeltaInv
  <1>3. \A u \in Users \ suspect' : used'[u] = used[u]
    BY <1>0, <1>1, <1>2 DEF Moved, RestOK
  <1>4. /\ Accurate' /\ ChargeInv'
        /\ \A u \in Users : Settled(u)' = Settled(u) /\ Reaping(u)' = Reaping(u)
    BY <1>1, <1>3, ReconBooks
  <1>5. PICK x : recon' = [recon EXCEPT ![k] = x] /\ x.pc \notin {"rows", "last"}
                 /\ \A u \in Users : x.delta[u] # 0 => recon[k].delta[u] # 0
    <2>1. CASE EndRecon(k)
      <3>1. PICK y : y = IF k = Cron THEN NoRecon ELSE [NoRecon EXCEPT !.pc = "done"]
        OBVIOUS
      <3>2. recon' = [recon EXCEPT ![k] = y]
        BY <2>1, <3>1 DEF EndRecon
      <3>3. y.pc \notin {"rows", "last"} /\ y.delta = NoRecon.delta
        BY <3>1 DEF NoRecon
      <3>4. \A u \in Users : NoRecon.delta[u] = 0
        BY DEF NoRecon
      <3>. QED
        BY <3>2, <3>3, <3>4
    <2>2. CASE recon' = [recon EXCEPT ![k].delta[v] = 0]
      <3>1. PICK f : f = [recon[k].delta EXCEPT ![v] = 0]
        OBVIOUS
      <3>2. PICK y : y = [recon[k] EXCEPT !.delta = f]
        OBVIOUS
      <3>3. recon' = [recon EXCEPT ![k] = y]
        BY <1>0, <2>2, <3>1, <3>2 DEF ReconsOK, ReconType
      <3>4. y.pc = "correct" /\ y.delta = f
        BY <1>0, <1>1, <3>2 DEF ReconType
      <3>5. \A u \in Users : f[u] # 0 => recon[k].delta[u] # 0
        BY <1>0, <3>1 DEF ReconType
      <3>. QED
        BY <3>3, <3>4, <3>5
    <2>. QED
      BY <2>1, <2>2 DEF Correct
  <1>6. recon'[k] = x /\ \A j \in Recons \ {k} : recon'[j] = recon[j]
    BY <1>0, <1>5 DEF ReconsOK
  <1>7. DeltaInv'
    BY <1>1, <1>5, <1>6 DEF BooksInv, DeltaInv
  <1>8. lock = k
    BY <1>0, <1>1 DEF ReconsOK, Busy
  <1>9. ASSUME NEW b \in Admins PROVE ReadOK(b)'
    <2>1. CASE b = k
      BY <1>5, <1>6, <2>1 DEF ReadOK
    <2>2. CASE b # k
      <3>1. recon'[b] = recon[b] /\ recon[b].pc \notin Busy
        BY <1>6, <1>8, <2>2, OthersRest DEF Recons
      <3>. QED
        BY <3>1 DEF ReadOK, Busy
    <2>. QED
      BY <2>1, <2>2
  <1>. QED
    BY <1>4, <1>7, <1>9 DEF BooksInv

(***************************************************************************)
(* The theorem                                                             *)
(***************************************************************************)
LEMMA InitBooks == IsFiniteSet(Reapers) /\ Init => BooksInv
  <1>. SUFFICES ASSUME IsFiniteSet(Reapers), Init PROVE BooksInv
    OBVIOUS
  <1>1. \A u \in Users : Files(u) = {} /\ Uncharged(u) = {}
    BY UsageAssumption DEF Init, NoFile, Files, Uncharged, Charging
  <1>2. \A u \in Users, r \in Reapers : Uncredited(r, u) = {}
    BY DEF Init, NoReap, Uncredited
  <1>3. \A u \in Users : Balanced(u)
    <2>1. SUFFICES ASSUME NEW u \in Users PROVE Balanced(u)
      OBVIOUS
    <2>2. PICK f : f = Uncredits(u)
      OBVIOUS
    <2>3. \A r \in Reapers : f[r] = 0
      BY <1>2, <2>2, TotalEmpty DEF Uncredits
    <2>4. Owed(u) = 0
      BY <2>2, <2>3, SumOfZeros DEF Owed
    <2>5. Total(Uncharged(u)) = 0 /\ Derived(u) = 0
      BY <1>1, TotalEmpty DEF Derived
    <2>6. used[u] = 0
      BY DEF Init
    <2>. QED
      BY <2>4, <2>5, <2>6 DEF Balanced
  <1>4. Accurate
    BY <1>3, AccurateIsBalanced DEF AllBalanced
  <1>5. ChargeInv
    BY DEF Init, ChargeInv
  <1>6. DeltaInv
    BY DEF Init, NoRecon, DeltaInv, Recons
  <1>7. \A a \in Admins : ReadOK(a)
    BY DEF Init, NoRecon, ReadOK
  <1>. QED
    BY <1>4, <1>5, <1>6, <1>7 DEF BooksInv

LEMMA StillBooks ==
    ASSUME TypeOK, BooksInv, UNCHANGED vars
    PROVE  BooksInv'
  <1>1. UNCHANGED <<file, upload, used, reaper, recon, lock, suspect, faults>>
    BY DEF vars
  <1>2. /\ Accurate' /\ ChargeInv'
        /\ \A u \in Users : Settled(u)' = Settled(u) /\ Reaping(u)' = Reaping(u)
    BY <1>1, ReconBooks
  <1>3. DeltaInv'
    BY <1>1, DeltaKept DEF BooksInv
  <1>4. ASSUME NEW a \in Admins PROVE ReadOK(a)'
    BY <1>1, <1>2, UsageAssumption, ReadKept DEF BooksInv
  <1>. QED
    BY <1>2, <1>3, <1>4 DEF BooksInv

LEMMA StepBooks ==
    ASSUME IsFiniteSet(Reapers)
    PROVE  TypeOK /\ BooksInv /\ [Next]_vars => BooksInv'
  <1>. SUFFICES ASSUME TypeOK, BooksInv, [Next]_vars PROVE BooksInv'
    OBVIOUS
  <1>1. ASSUME NEW p \in Uploads, Complete(p) \/ Charge(p) \/ DeletePage(p) PROVE BooksInv'
    BY <1>1, CompleteBooks, ChargeBooks, PageBooks
  <1>2. ASSUME NEW r \in Reapers, FindOrphans(r) \/ Reap(r) PROVE BooksInv'
    BY <1>2, FindBooks, DeleteBooks, CreditBooks DEF Reap
  <1>3. ASSUME NEW k \in Admins \cup {Cron}, Reconcile(k) PROVE BooksInv'
    BY <1>3, RowsBooks, LastBooks, CorrectBooks DEF Reconcile, Recons
  <1>4. ASSUME NEW a \in Admins, AdminRead(a) PROVE BooksInv'
    BY <1>4, ReadBooks
  <1>5. ASSUME NEW c \in Contents, Age(c) PROVE BooksInv'
    BY <1>5, AgeBooks
  <1>. QED
    BY <1>1, <1>2, <1>3, <1>4, <1>5, CronBooks, StillBooks DEF Next

\* Whatever uploads of one content, reaps and reconciles do to each other, the
\* counter of a user is what the rows say, give or take the charges and credits
\* that are on their way, unless the user is a suspect.  The reaps of a history
\* are finitely many.
THEOREM CountersAccurate ==
    ASSUME IsFiniteSet(Reapers)
    PROVE  Spec => []Accurate
  <1>1. Init => TypeOK /\ BooksInv
    BY InitTypes, InitBooks
  <1>2. TypeOK /\ BooksInv /\ [Next]_vars => (TypeOK /\ BooksInv)'
    BY StepTypes, StepBooks
  <1>3. BooksInv => Accurate
    BY DEF BooksInv
  <1>. QED
    BY <1>1, <1>2, <1>3, PTL DEF Spec
=============================================================================
