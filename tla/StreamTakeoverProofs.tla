------------------------- MODULE StreamTakeoverProofs -------------------------
(***************************************************************************)
(* Theorems about StreamTakeover, for every value of its constants.        *)
(***************************************************************************)
EXTENDS StreamTakeover, TLAPS

(***************************************************************************)
(* One send                                                                *)
(***************************************************************************)
\* It will never generate again, whatever happens.
Ended(g) == g.signal \/ g.pre \/ g.pc \in {"saving", "over", "dead"}

\* A send that is finished, was removed from the registry by an abort, or has a
\* status write on its way is over; so is one that is not in the registry; and
\* the lock is not held before it is asked for.
GenInv(g) ==
    /\ g.finished \/ g.tomb \/ g.pending # "no" => Ended(g)
    /\ g.entry = "none" /\ g.pc # "idle" => Ended(g)
    /\ g.pc = "preabort" => g.pre
    /\ g.pc \in {"idle", "lock"} => ~ g.locked

GensInv == \A s \in Sends : GenInv(gen[s])

\* What the steps of others do to a send: nothing, or an abort.
Touched(g, h) == h = g \/ h = Aborted(g)

\* A step of the send s.
Move(s) ==
    /\ gen' \in [Sends -> GenType]
    /\ \A t \in Sends \ {s} : Touched(gen[t], gen'[t])
    /\ Ended(gen[s]) => Ended(gen'[s])
    /\ GenInv(gen'[s])

\* The fields of the registry and of the lifecycle, which a takeover of its own
\* leaves alone.
SameRegistry(g, h) ==
    /\ h.entry = g.entry /\ h.tomb = g.tomb /\ h.signal = g.signal /\ h.pre = g.pre
    /\ h.finished = g.finished /\ h.pending = g.pending

\* What an abort makes of a send.
LEMMA AbortedFacts ==
    ASSUME NEW g \in GenType
    PROVE  /\ Aborted(g) \in GenType
           /\ Aborted(g).signal = TRUE
           /\ Aborted(g).pc = g.pc /\ Aborted(g).locked = g.locked /\ Aborted(g).blind = g.blind
           /\ Aborted(g).sees = g.sees /\ Aborted(g).hit = g.hit /\ Aborted(g).dead = g.dead
           /\ Aborted(g).waits = g.waits /\ Aborted(g).pre = g.pre
  BY DEF Aborted, Removed, Finished, GenType

LEMMA TouchedFacts ==
    ASSUME NEW g \in GenType, NEW h, Touched(g, h)
    PROVE  /\ h \in GenType
           /\ h.pc = g.pc /\ h.locked = g.locked /\ h.blind = g.blind
           /\ h.sees = g.sees /\ h.hit = g.hit /\ h.dead = g.dead /\ h.waits = g.waits
           /\ Ended(g) => Ended(h)
           /\ GenInv(g) => GenInv(h)
  <1>1. CASE h = g
    BY <1>1
  <1>2. CASE h = Aborted(g)
    <2>1. Ended(h)
      BY <1>2, AbortedFacts DEF Ended
    <2>. QED
      BY <1>2, <2>1, AbortedFacts DEF GenInv
  <1>. QED
    BY <1>1, <1>2 DEF Touched

LEMMA AbortingFacts ==
    ASSUME TypeOK, NEW T
    PROVE  /\ Aborting(T) \in [Sends -> GenType]
           /\ \A s \in Sends : /\ Touched(gen[s], Aborting(T)[s])
                               /\ s \in T => Ended(Aborting(T)[s])
  BY AbortedFacts DEF Aborting, TypeOK, Touched, Ended

\* A step that changes the record of s.
LEMMA MoveOf ==
    ASSUME TypeOK, NEW s \in Sends, NEW x \in GenType, gen' = [gen EXCEPT ![s] = x],
           GenInv(x), Ended(gen[s]) => Ended(x)
    PROVE  Move(s) /\ gen'[s] = x
  BY DEF TypeOK, Move, Touched

\* A step of its start that leaves its registry alone.
LEMMA RegistryKept ==
    ASSUME NEW g \in GenType, NEW x \in GenType, GenInv(g), SameRegistry(g, x),
           g.pc \notin {"idle", "saving", "over", "dead"},
           x.pc \notin {"idle", "preabort"}, x.pc = "lock" => ~ x.locked
    PROVE  GenInv(x) /\ (Ended(g) => Ended(x))
  BY DEF GenInv, Ended, SameRegistry

LEMMA RegisterMove ==
    ASSUME TypeOK, GensInv, NEW s \in Sends, Register(s)
    PROVE  /\ Move(s) /\ gen'[s].pc = "lock"
           /\ gen'[s].hit = gen[s].hit /\ gen'[s].dead = gen[s].dead
  <1>0. gen[s] \in GenType /\ GenInv(gen[s]) /\ gen[s].pc = "idle"
    BY DEF TypeOK, GensInv, Register
  <1>1. PICK x : x = [gen[s] EXCEPT !.pc = "lock", !.entry = "bare"]
    OBVIOUS
  <1>2. x \in GenType
    BY <1>0, <1>1 DEF GenType
  <1>3. /\ x.pc = "lock" /\ x.entry = "bare" /\ x.tomb = gen[s].tomb /\ x.signal = gen[s].signal
        /\ x.pre = gen[s].pre /\ x.finished = gen[s].finished /\ x.pending = gen[s].pending
        /\ x.locked = gen[s].locked /\ x.hit = gen[s].hit /\ x.dead = gen[s].dead
    BY <1>0, <1>1 DEF GenType
  <1>4. gen' = [gen EXCEPT ![s] = x]
    BY <1>1 DEF Register, TypeOK
  <1>5. GenInv(x) /\ (Ended(gen[s]) => Ended(x))
    BY <1>0, <1>3 DEF GenInv, Ended
  <1>. QED
    BY <1>2, <1>3, <1>4, <1>5, MoveOf

LEMMA LockMove ==
    ASSUME TypeOK, GensInv, NEW s \in Sends, Lock(s)
    PROVE  /\ Move(s)
           /\ gen[s].pc = "lock" /\ gen'[s].hit = gen[s].hit /\ gen'[s].dead = gen[s].dead
           /\ \/ gen'[s].pc = "select" /\ lock = None /\ lock' = s
              \/ gen'[s].pc \in {"lock", "select"} /\ ~ gen'[s].locked /\ UNCHANGED lock
  <1>. DEFINE n == IF gen[s].tries < MaxRetries THEN gen[s].tries + 1 ELSE gen[s].tries
  <1>0. gen[s] \in GenType /\ GenInv(gen[s]) /\ gen[s].pc = "lock" /\ ~ gen[s].locked
    BY DEF TypeOK, GensInv, GenInv, Lock
  <1>1. PICK x : x = [gen[s] EXCEPT !.pc = "select", !.locked = TRUE, !.tries = 0]
    OBVIOUS
  <1>2. PICK y : y = [gen[s] EXCEPT !.pc = "select", !.tries = 0]
    OBVIOUS
  <1>3. PICK z : z = [gen[s] EXCEPT !.tries = n]
    OBVIOUS
  <1>4. 0 \in 0..MaxRetries /\ n \in 0..MaxRetries
    BY <1>0, TakeoverAssumption DEF GenType
  <1>5. /\ x \in GenType /\ SameRegistry(gen[s], x) /\ x.pc = "select"
        /\ x.hit = gen[s].hit /\ x.dead = gen[s].dead
    BY <1>0, <1>1, <1>4 DEF GenType, SameRegistry
  <1>6. /\ y \in GenType /\ SameRegistry(gen[s], y) /\ y.pc = "select" /\ ~ y.locked
        /\ y.hit = gen[s].hit /\ y.dead = gen[s].dead
    BY <1>0, <1>2, <1>4 DEF GenType, SameRegistry
  <1>7. /\ z \in GenType /\ SameRegistry(gen[s], z) /\ z.pc = "lock" /\ ~ z.locked
        /\ z.hit = gen[s].hit /\ z.dead = gen[s].dead
    <2>. HIDE DEF n
    <2>. QED
      BY <1>0, <1>3, <1>4 DEF GenType, SameRegistry
  <1>8. CASE lock = None /\ lock' = s /\ gen' = [gen EXCEPT ![s] = x]
    BY <1>0, <1>5, <1>8, RegistryKept, MoveOf
  <1>9. CASE UNCHANGED lock /\ gen' = [gen EXCEPT ![s] = y]
    BY <1>0, <1>6, <1>9, RegistryKept, MoveOf
  <1>10. CASE UNCHANGED lock /\ gen' = [gen EXCEPT ![s] = z]
    BY <1>0, <1>7, <1>10, RegistryKept, MoveOf
  <1>. QED
    BY <1>1, <1>2, <1>3, <1>8, <1>9, <1>10 DEF Lock, TypeOK

LEMMA LoseLockMove ==
    ASSUME TypeOK, GensInv, NEW s \in Sends, LoseLock(s)
    PROVE  Move(s) /\ gen'[s].blind = TRUE /\ gen'[s].pc = gen[s].pc /\ gen'[s].hit = gen[s].hit
           /\ gen'[s].dead = gen[s].dead
  <1>0. gen[s] \in GenType /\ GenInv(gen[s])
    BY DEF TypeOK, GensInv
  <1>1. PICK x : x = [gen[s] EXCEPT !.blind = TRUE]
    OBVIOUS
  <1>2. /\ x \in GenType /\ SameRegistry(gen[s], x) /\ x.pc = gen[s].pc /\ x.blind
        /\ x.locked = gen[s].locked /\ x.hit = gen[s].hit /\ x.dead = gen[s].dead
    BY <1>0, <1>1 DEF GenType, SameRegistry
  <1>3. gen' = [gen EXCEPT ![s] = x]
    BY <1>1 DEF LoseLock, TypeOK
  <1>4. GenInv(x) /\ (Ended(gen[s]) => Ended(x))
    BY <1>0, <1>2 DEF GenInv, Ended, SameRegistry
  <1>. QED
    BY <1>2, <1>3, <1>4, MoveOf

LEMMA SelectMove ==
    ASSUME TypeOK, GensInv, NEW s \in Sends, SelectRows(s)
    PROVE  /\ Move(s)
           /\ gen[s].pc = "select" /\ gen'[s].locked = gen[s].locked /\ gen'[s].hit = gen[s].hit
           /\ gen'[s].dead = gen[s].dead \/ gen'[s].dead \subseteq {t \in Sends : row[t].cold}
           /\ gen'[s].blind = gen[s].blind =>
                 \/ /\ gen'[s].pc = "insert"
                    /\ gen[s].blind \/ \A t \in Sends \ {s} : ~ Streaming(t)
                 \/ gen'[s].pc = "abort" /\ gen'[s].sees = {t \in Sends \ {s} : Streaming(t)}
           /\ gen'[s].pc \in {"insert", "abort"}
           /\ gen[s].blind => gen'[s].blind
  <1>. DEFINE rows == {t \in Sends \ {s} : Streaming(t)}
              pc == IF rows = {} THEN "insert" ELSE "abort"
  <1>0. gen[s] \in GenType /\ GenInv(gen[s]) /\ gen[s].pc = "select"
    BY DEF TypeOK, GensInv, SelectRows
  <1>1. PICK x : x = [gen[s] EXCEPT !.sees = rows, !.dead = Cold(rows), !.pc = pc]
    OBVIOUS
  <1>2. PICK y : y = [gen[s] EXCEPT !.pc = "insert", !.blind = TRUE]
    OBVIOUS
  <1>3. rows \subseteq Sends /\ Cold(rows) \subseteq {t \in Sends : row[t].cold}
    BY DEF Cold
  <1>4. /\ x \in GenType /\ SameRegistry(gen[s], x) /\ x.pc = pc /\ x.sees = rows
        /\ x.dead = Cold(rows) /\ x.hit = gen[s].hit /\ x.blind = gen[s].blind
        /\ x.locked = gen[s].locked
    <2>1. pc \in {"insert", "abort"} /\ Cold(rows) \subseteq Sends
      BY <1>3
    <2>. HIDE DEF rows, pc
    <2>. QED
      BY <1>0, <1>1, <1>3, <2>1 DEF GenType, SameRegistry
  <1>5. /\ y \in GenType /\ SameRegistry(gen[s], y) /\ y.pc = "insert" /\ y.blind = TRUE
        /\ y.dead = gen[s].dead /\ y.hit = gen[s].hit /\ y.locked = gen[s].locked
    BY <1>0, <1>2 DEF GenType, SameRegistry
  <1>6. CASE gen' = [gen EXCEPT ![s] = x]
    <2>1. (pc = "insert" /\ rows = {}) \/ pc = "abort"
      OBVIOUS
    <2>2. Move(s) /\ gen'[s] = x
      BY <1>0, <1>4, <1>6, <2>1, RegistryKept, MoveOf
    <2>. QED
      BY <1>0, <1>3, <1>4, <2>1, <2>2
  <1>7. CASE gen' = [gen EXCEPT ![s] = y]
    <2>1. Move(s) /\ gen'[s] = y
      BY <1>0, <1>5, <1>7, RegistryKept, MoveOf
    <2>. HIDE DEF rows, pc
    <2>. QED
      BY <1>0, <1>5, <2>1
  <1>. QED
    BY <1>1, <1>2, <1>6, <1>7 DEF SelectRows, TypeOK

LEMMA AbortMove ==
    ASSUME TypeOK, GensInv, NEW s \in Sends, TakeoverAbort(s)
    PROVE  /\ Move(s)
           /\ gen[s].pc = "abort" /\ gen'[s].pc = "wipe"
           /\ gen'[s].locked = gen[s].locked /\ gen'[s].blind = gen[s].blind
           /\ gen'[s].sees = gen[s].sees /\ gen'[s].dead = gen[s].dead
           /\ gen'[s].hit \subseteq Sends /\ \A t \in gen'[s].hit : Ended(gen'[t])
  <1>. DEFINE hit == {t \in gen[s].sees : Abortable(s, t)}
              base == Aborting(hit)
  <1>0. gen[s] \in GenType /\ GenInv(gen[s]) /\ gen[s].pc = "abort"
    BY DEF TypeOK, GensInv, TakeoverAbort
  <1>1. /\ base \in [Sends -> GenType]
        /\ \A t \in Sends : Touched(gen[t], base[t]) /\ (t \in hit => Ended(base[t]))
    BY AbortingFacts
  <1>2. hit \subseteq Sends
    BY <1>0 DEF GenType
  <1>3. PICK x : x = [base[s] EXCEPT !.hit = hit, !.pc = "wipe"]
    OBVIOUS
  <1>4. gen' = [base EXCEPT ![s] = x]
    <2>1. gen' = [base EXCEPT ![s].hit = hit, ![s].pc = "wipe"]
      BY DEF TakeoverAbort
    <2>. HIDE DEF base, hit
    <2>. QED
      BY <1>1, <1>3, <2>1
  <1>. HIDE DEF base, hit
  <1>5. base[s] \in GenType /\ base[s].pc = "abort" /\ GenInv(base[s]) /\ (Ended(gen[s]) => Ended(base[s]))
        /\ base[s].locked = gen[s].locked /\ base[s].blind = gen[s].blind
        /\ base[s].sees = gen[s].sees /\ base[s].dead = gen[s].dead
    BY <1>0, <1>1, TouchedFacts
  <1>6. /\ x \in GenType /\ SameRegistry(base[s], x) /\ x.pc = "wipe" /\ x.hit = hit
        /\ x.locked = gen[s].locked /\ x.blind = gen[s].blind
        /\ x.sees = gen[s].sees /\ x.dead = gen[s].dead
    BY <1>2, <1>3, <1>5 DEF GenType, SameRegistry
  <1>7. GenInv(x) /\ (Ended(base[s]) => Ended(x))
    BY <1>5, <1>6, RegistryKept
  <1>8. gen'[s] = x /\ \A t \in Sends \ {s} : gen'[t] = base[t]
    BY <1>1, <1>4
  <1>9. gen' \in [Sends -> GenType]
    BY <1>1, <1>4, <1>6
  <1>10. Move(s)
    BY <1>1, <1>5, <1>7, <1>8, <1>9 DEF Move
  <1>11. \A t \in hit : Ended(gen'[t])
    BY <1>1, <1>2, <1>7, <1>8
  <1>. QED
    BY <1>0, <1>2, <1>6, <1>8, <1>10, <1>11

LEMMA WipeMove ==
    ASSUME TypeOK, GensInv, NEW s \in Sends, Wipe(s)
    PROVE  /\ Move(s)
           /\ gen[s].pc = "wipe" /\ gen'[s].pc = "mark"
           /\ gen'[s].locked = gen[s].locked /\ gen'[s].blind = gen[s].blind
           /\ gen'[s].sees = gen[s].sees /\ gen'[s].dead = gen[s].dead /\ gen'[s].hit = gen[s].hit
  <1>0. gen[s] \in GenType /\ GenInv(gen[s]) /\ gen[s].pc = "wipe"
    BY DEF TypeOK, GensInv, Wipe
  <1>1. PICK x : x = [gen[s] EXCEPT !.pc = "mark"]
    OBVIOUS
  <1>2. /\ x \in GenType /\ SameRegistry(gen[s], x) /\ x.pc = "mark" /\ x.hit = gen[s].hit
        /\ x.locked = gen[s].locked /\ x.blind = gen[s].blind
        /\ x.sees = gen[s].sees /\ x.dead = gen[s].dead
    BY <1>0, <1>1 DEF GenType, SameRegistry
  <1>3. gen' = [gen EXCEPT ![s] = x]
    BY <1>1 DEF Wipe, TypeOK
  <1>4. Move(s) /\ gen'[s] = x
    BY <1>0, <1>2, <1>3, RegistryKept, MoveOf
  <1>. QED
    BY <1>0, <1>2, <1>4

LEMMA MarkMove ==
    ASSUME TypeOK, GensInv, NEW s \in Sends, MarkOthers(s)
    PROVE  /\ Move(s)
           /\ gen[s].pc = "mark" /\ gen'[s].locked = gen[s].locked
           /\ gen'[s].hit = {} /\ gen'[s].dead = {}
           /\ gen'[s].pc \in {"insert", "await"}
           /\ \/ gen'[s].blind = TRUE
              \/ /\ gen'[s].blind = gen[s].blind
                 /\ gen'[s].waits = {t \in Others(s) : Streaming(t)}
                 /\ gen'[s].pc = "insert" => gen'[s].waits = {}
  <1>. DEFINE marked == {t \in Others(s) : Streaming(t)}
              pc == IF marked = {} THEN "insert" ELSE "await"
  <1>0. gen[s] \in GenType /\ GenInv(gen[s]) /\ gen[s].pc = "mark"
    BY DEF TypeOK, GensInv, MarkOthers
  <1>1. PICK x : x = [gen[s] EXCEPT !.waits = marked, !.hit = {}, !.dead = {}, !.pc = pc]
    OBVIOUS
  <1>2. PICK y : y = [gen[s] EXCEPT !.pc = "insert", !.blind = TRUE, !.hit = {}, !.dead = {}]
    OBVIOUS
  <1>3. marked \subseteq Sends /\ pc \in {"insert", "await"} /\ (pc = "insert" => marked = {})
    BY <1>0 DEF Others, GenType
  <1>4. gen' = [gen EXCEPT ![s] = x] \/ gen' = [gen EXCEPT ![s] = y]
    BY <1>1, <1>2 DEF MarkOthers, TypeOK
  <1>5. /\ x \in GenType /\ SameRegistry(gen[s], x) /\ x.pc = pc /\ x.hit = {} /\ x.dead = {}
        /\ x.locked = gen[s].locked /\ x.blind = gen[s].blind /\ x.waits = marked
    <2>. HIDE DEF marked, pc
    <2>. QED
      BY <1>0, <1>1, <1>3 DEF GenType, SameRegistry
  <1>6. /\ y \in GenType /\ SameRegistry(gen[s], y) /\ y.pc = "insert" /\ y.blind = TRUE
        /\ y.locked = gen[s].locked /\ y.hit = {} /\ y.dead = {}
    BY <1>0, <1>2 DEF GenType, SameRegistry
  <1>7. CASE gen' = [gen EXCEPT ![s] = x]
    <2>. HIDE DEF pc
    <2>1. Move(s) /\ gen'[s] = x
      BY <1>0, <1>3, <1>5, <1>7, RegistryKept, MoveOf
    <2>. QED
      BY <1>0, <1>3, <1>5, <2>1
  <1>8. CASE gen' = [gen EXCEPT ![s] = y]
    <2>. HIDE DEF pc, marked
    <2>1. Move(s) /\ gen'[s] = y
      BY <1>0, <1>6, <1>8, RegistryKept, MoveOf
    <2>. QED
      BY <1>0, <1>6, <2>1
  <1>. QED
    BY <1>4, <1>7, <1>8

LEMMA AwaitMove ==
    ASSUME TypeOK, GensInv, NEW s \in Sends, AwaitOthers(s)
    PROVE  /\ Move(s)
           /\ gen[s].pc = "await" /\ gen'[s].locked = gen[s].locked
           /\ gen'[s].hit = gen[s].hit /\ gen'[s].dead = gen[s].dead
           /\ gen'[s].pc = "insert"
           /\ gen'[s].blind \/ (~ gen[s].blind /\ Open(gen[s].waits) = {})
  <1>. DEFINE blind == gen[s].blind \/ Open(gen[s].waits) # {}
  <1>0. gen[s] \in GenType /\ GenInv(gen[s]) /\ gen[s].pc = "await"
    BY DEF TypeOK, GensInv, AwaitOthers
  <1>1. PICK x : x = [gen[s] EXCEPT !.pc = "insert", !.waits = {}, !.blind = blind]
    OBVIOUS
  <1>2. PICK y : y = [gen[s] EXCEPT !.pc = "insert", !.waits = {}, !.blind = TRUE]
    OBVIOUS
  <1>3. gen' = [gen EXCEPT ![s] = x] \/ gen' = [gen EXCEPT ![s] = y]
    BY <1>1, <1>2 DEF AwaitOthers, TypeOK
  <1>4. blind \in BOOLEAN
    BY <1>0 DEF GenType
  <1>5. /\ x \in GenType /\ SameRegistry(gen[s], x) /\ x.pc = "insert" /\ x.hit = gen[s].hit
        /\ x.locked = gen[s].locked /\ x.blind = blind /\ x.dead = gen[s].dead
    <2>. HIDE DEF blind
    <2>. QED
      BY <1>0, <1>1, <1>4 DEF GenType, SameRegistry
  <1>6. /\ y \in GenType /\ SameRegistry(gen[s], y) /\ y.pc = "insert" /\ y.blind = TRUE
        /\ y.locked = gen[s].locked /\ y.hit = gen[s].hit /\ y.dead = gen[s].dead
    BY <1>0, <1>2 DEF GenType, SameRegistry
  <1>7. CASE gen' = [gen EXCEPT ![s] = x]
    <2>1. Move(s) /\ gen'[s] = x
      BY <1>0, <1>5, <1>7, RegistryKept, MoveOf
    <2>. QED
      BY <1>0, <1>5, <2>1
  <1>8. CASE gen' = [gen EXCEPT ![s] = y]
    <2>1. Move(s) /\ gen'[s] = y
      BY <1>0, <1>6, <1>8, RegistryKept, MoveOf
    <2>. QED
      BY <1>0, <1>6, <2>1
  <1>. QED
    BY <1>3, <1>7, <1>8

LEMMA InsertMove ==
    ASSUME TypeOK, GensInv, NEW s \in Sends, Insert(s)
    PROVE  /\ Move(s)
           /\ gen[s].pc = "insert" /\ gen'[s].pc = "consume" /\ gen'[s].locked = gen[s].locked
           /\ gen'[s].hit = gen[s].hit /\ gen'[s].dead = gen[s].dead
           /\ \/ gen'[s].blind = TRUE
              \/ gen'[s].blind = gen[s].blind /\ row' = [row EXCEPT ![s].status = "streaming"]
  <1>0. gen[s] \in GenType /\ GenInv(gen[s]) /\ gen[s].pc = "insert"
    BY DEF TypeOK, GensInv, Insert
  <1>1. PICK x : x = [gen[s] EXCEPT !.pc = "consume"]
    OBVIOUS
  <1>2. PICK y : y = [gen[s] EXCEPT !.pc = "consume", !.blind = TRUE]
    OBVIOUS
  <1>3. \/ gen' = [gen EXCEPT ![s] = x] /\ row' = [row EXCEPT ![s].status = "streaming"]
        \/ gen' = [gen EXCEPT ![s] = y]
    BY <1>1, <1>2 DEF Insert, TypeOK
  <1>4. /\ x \in GenType /\ SameRegistry(gen[s], x) /\ x.pc = "consume" /\ x.hit = gen[s].hit
        /\ x.locked = gen[s].locked /\ x.blind = gen[s].blind /\ x.dead = gen[s].dead
    BY <1>0, <1>1 DEF GenType, SameRegistry
  <1>5. /\ y \in GenType /\ SameRegistry(gen[s], y) /\ y.pc = "consume" /\ y.hit = gen[s].hit
        /\ y.locked = gen[s].locked /\ y.blind = TRUE /\ y.dead = gen[s].dead
    BY <1>0, <1>2 DEF GenType, SameRegistry
  <1>6. CASE gen' = [gen EXCEPT ![s] = x] /\ row' = [row EXCEPT ![s].status = "streaming"]
    <2>1. Move(s) /\ gen'[s] = x
      BY <1>0, <1>4, <1>6, RegistryKept, MoveOf
    <2>. QED
      BY <1>0, <1>4, <1>6, <2>1
  <1>7. CASE gen' = [gen EXCEPT ![s] = y]
    <2>1. Move(s) /\ gen'[s] = y
      BY <1>0, <1>5, <1>7, RegistryKept, MoveOf
    <2>. QED
      BY <1>0, <1>5, <2>1
  <1>. QED
    BY <1>3, <1>6, <1>7

LEMMA ConsumeMove ==
    ASSUME TypeOK, GensInv, NEW s \in Sends, Consume(s)
    PROVE  /\ Move(s)
           /\ gen[s].pc = "consume" /\ gen'[s].pc \in {"preabort", "place"}
           /\ gen'[s].locked = gen[s].locked /\ gen'[s].blind = gen[s].blind
           /\ gen'[s].hit = gen[s].hit /\ gen'[s].dead = gen[s].dead
  <1>0. gen[s] \in GenType /\ GenInv(gen[s]) /\ gen[s].pc = "consume"
    BY DEF TypeOK, GensInv, Consume
  <1>1. PICK x : x = [gen[s] EXCEPT !.pc = "place"]
    OBVIOUS
  <1>2. PICK y : y = [gen[s] EXCEPT !.pc = "preabort", !.pre = TRUE]
    OBVIOUS
  <1>3. gen' = [gen EXCEPT ![s] = x] \/ gen' = [gen EXCEPT ![s] = y]
    BY <1>1, <1>2 DEF Consume, TypeOK
  <1>4. /\ x \in GenType /\ SameRegistry(gen[s], x) /\ x.pc = "place" /\ x.hit = gen[s].hit
        /\ x.locked = gen[s].locked /\ x.blind = gen[s].blind /\ x.dead = gen[s].dead
    BY <1>0, <1>1 DEF GenType, SameRegistry
  <1>5. /\ y \in GenType /\ y.pre = TRUE /\ y.pc = "preabort" /\ y.hit = gen[s].hit
        /\ y.locked = gen[s].locked /\ y.blind = gen[s].blind /\ y.dead = gen[s].dead
    BY <1>0, <1>2 DEF GenType
  <1>6. CASE gen' = [gen EXCEPT ![s] = x]
    <2>1. Move(s) /\ gen'[s] = x
      BY <1>0, <1>4, <1>6, RegistryKept, MoveOf
    <2>. QED
      BY <1>0, <1>4, <2>1
  <1>7. CASE gen' = [gen EXCEPT ![s] = y]
    <2>1. GenInv(y) /\ Ended(y)
      BY <1>5 DEF GenInv, Ended
    <2>2. Move(s) /\ gen'[s] = y
      BY <1>5, <1>7, <2>1, MoveOf
    <2>. QED
      BY <1>0, <1>5, <2>2
  <1>. QED
    BY <1>3, <1>6, <1>7

\* PreAbort and Place move on to the next statement.
LEMMA NextMove ==
    ASSUME TypeOK, GensInv, NEW s \in Sends, PreAbort(s) \/ Place(s)
    PROVE  /\ Move(s)
           /\ PreAbort(s) => gen[s].pc = "preabort" /\ gen'[s].pc = "place" /\ Ended(gen[s])
           /\ Place(s) => gen[s].pc = "place" /\ gen'[s].pc = "attach"
           /\ gen'[s].locked = gen[s].locked /\ gen'[s].blind = gen[s].blind
           /\ gen'[s].hit = gen[s].hit /\ gen'[s].dead = gen[s].dead
  <1>0. gen[s] \in GenType /\ GenInv(gen[s])
    BY DEF TypeOK, GensInv
  <1>1. PICK pc \in {"place", "attach"} :
           /\ gen' = [gen EXCEPT ![s].pc = pc]
           /\ PreAbort(s) => gen[s].pc = "preabort" /\ pc = "place"
           /\ Place(s) => gen[s].pc = "place" /\ pc = "attach"
    BY DEF PreAbort, Place
  <1>2. PICK x : x = [gen[s] EXCEPT !.pc = pc]
    OBVIOUS
  <1>3. /\ x \in GenType /\ SameRegistry(gen[s], x) /\ x.pc = pc /\ x.hit = gen[s].hit
        /\ x.locked = gen[s].locked /\ x.blind = gen[s].blind /\ x.dead = gen[s].dead
    BY <1>0, <1>2 DEF GenType, SameRegistry
  <1>4. gen' = [gen EXCEPT ![s] = x]
    BY <1>1, <1>2 DEF TypeOK
  <1>5. Move(s) /\ gen'[s] = x
    BY <1>0, <1>1, <1>3, <1>4, RegistryKept, MoveOf
  <1>6. PreAbort(s) => Ended(gen[s])
    BY <1>0, <1>1 DEF GenInv, Ended
  <1>. QED
    BY <1>1, <1>3, <1>5, <1>6

LEMMA AttachMove ==
    ASSUME TypeOK, GensInv, NEW s \in Sends, Attach(s)
    PROVE  /\ Move(s)
           /\ gen[s].pc = "attach" /\ gen'[s].pc \in {"running", "over"}
           /\ gen'[s].locked = gen[s].locked /\ gen'[s].blind = gen[s].blind
           /\ gen'[s].hit = gen[s].hit /\ gen'[s].dead = gen[s].dead
  <1>. DEFINE entry == IF gen[s].entry = "none" THEN "none" ELSE "attached"
  <1>0. gen[s] \in GenType /\ GenInv(gen[s]) /\ gen[s].pc = "attach"
    BY DEF TypeOK, GensInv, Attach
  <1>1. PICK x : x = [Removed(gen[s]) EXCEPT !.pc = "over", !.signal = TRUE]
    OBVIOUS
  <1>2. PICK y : y = [gen[s] EXCEPT !.pc = "running", !.entry = entry]
    OBVIOUS
  <1>3. \/ gen' = [gen EXCEPT ![s] = x]
        \/ gen' = [gen EXCEPT ![s] = y]
    <2>1. gen' = [gen EXCEPT ![s] = IF gen[s].pre THEN x ELSE y]
      BY <1>1, <1>2, Zenon DEF Attach
    <2>. QED
      BY <2>1
  <1>4. /\ x \in GenType /\ x.signal = TRUE /\ x.pc = "over" /\ x.hit = gen[s].hit
        /\ x.locked = gen[s].locked /\ x.blind = gen[s].blind /\ x.dead = gen[s].dead
    BY <1>0, <1>1 DEF GenType, Removed
  <1>5. /\ y \in GenType /\ y.entry = entry /\ y.tomb = gen[s].tomb /\ y.signal = gen[s].signal
        /\ y.pre = gen[s].pre /\ y.finished = gen[s].finished /\ y.pending = gen[s].pending
        /\ y.pc = "running" /\ y.hit = gen[s].hit
        /\ y.locked = gen[s].locked /\ y.blind = gen[s].blind /\ y.dead = gen[s].dead
    <2>1. entry \in {"none", "attached"}
      OBVIOUS
    <2>. HIDE DEF entry
    <2>. QED
      BY <1>0, <1>2, <2>1 DEF GenType
  <1>6. CASE gen' = [gen EXCEPT ![s] = x]
    <2>1. GenInv(x) /\ Ended(x)
      BY <1>4 DEF GenInv, Ended
    <2>2. Move(s) /\ gen'[s] = x
      BY <1>4, <1>6, <2>1, MoveOf
    <2>. QED
      BY <1>0, <1>4, <2>2
  <1>7. CASE gen' = [gen EXCEPT ![s] = y]
    <2>1. GenInv(y) /\ (Ended(gen[s]) => Ended(y))
      BY <1>0, <1>5 DEF GenInv, Ended
    <2>2. Move(s) /\ gen'[s] = y
      BY <1>5, <1>7, <2>1, MoveOf
    <2>. QED
      BY <1>0, <1>5, <2>2
  <1>. QED
    BY <1>3, <1>6, <1>7

\* A step after which the generation is over.
LEMMA EndOf ==
    ASSUME TypeOK, NEW s \in Sends, NEW x \in GenType, gen' = [gen EXCEPT ![s] = x],
           x.hit = gen[s].hit, x.dead = gen[s].dead,
           x.pc \in {"saving", "over"} \/ (x.pc = "running" /\ x.signal)
    PROVE  /\ Move(s) /\ Ended(gen'[s])
           /\ gen'[s].hit = gen[s].hit /\ gen'[s].dead = gen[s].dead
  <1>1. Ended(x) /\ GenInv(x)
    BY DEF Ended, GenInv
  <1>2. Move(s) /\ gen'[s] = x
    BY <1>1, MoveOf
  <1>. QED
    BY <1>1, <1>2

\* A generation that is cut off, ends or has ended is over.
LEMMA EndMove ==
    ASSUME TypeOK, GensInv, NEW s \in Sends, OnAbort(s) \/ End(s) \/ OnFinish(s)
    PROVE  /\ Move(s) /\ Ended(gen'[s])
           /\ gen'[s].hit = gen[s].hit /\ gen'[s].dead = gen[s].dead
  <1>0. gen[s] \in GenType
    BY DEF TypeOK
  <1>1. \A st \in {"aborted", "complete"} :
           /\ Finished(gen[s], st) \in GenType
           /\ Finished(gen[s], st).pc = gen[s].pc /\ Finished(gen[s], st).signal = gen[s].signal
           /\ Finished(gen[s], st).hit = gen[s].hit /\ Finished(gen[s], st).dead = gen[s].dead
    BY <1>0 DEF Finished, GenType
  <1>2. CASE OnAbort(s)
    <2>1. PICK x : x = Finished(gen[s], "aborted")
      OBVIOUS
    <2>2. /\ x \in GenType /\ x.hit = gen[s].hit /\ x.dead = gen[s].dead
          /\ x.pc = "running" /\ x.signal
      BY <1>1, <1>2, <2>1 DEF OnAbort
    <2>3. gen' = [gen EXCEPT ![s] = x]
      BY <1>2, <2>1 DEF OnAbort, TypeOK
    <2>. QED
      BY <2>2, <2>3, EndOf
  <1>3. CASE End(s)
    <2>1. PICK x : x = [Removed(gen[s]) EXCEPT !.pc = "saving"]
      OBVIOUS
    <2>2. x \in GenType /\ x.hit = gen[s].hit /\ x.dead = gen[s].dead /\ x.pc = "saving"
      BY <1>0, <2>1 DEF Removed, GenType
    <2>3. gen' = [gen EXCEPT ![s] = x]
      BY <1>3, <2>1 DEF End, TypeOK
    <2>. QED
      BY <2>2, <2>3, EndOf
  <1>4. CASE OnFinish(s)
    <2>1. PICK f : f = Finished(gen[s], IF gen[s].signal THEN "aborted" ELSE "complete")
      OBVIOUS
    <2>2. f \in GenType /\ f.hit = gen[s].hit /\ f.dead = gen[s].dead
      BY <1>1, <2>1
    <2>3. PICK x : x = [f EXCEPT !.pc = "over", !.locked = FALSE, !.blind = FALSE]
      OBVIOUS
    <2>4. x \in GenType /\ x.hit = gen[s].hit /\ x.dead = gen[s].dead /\ x.pc = "over"
      BY <2>2, <2>3 DEF GenType
    <2>5. gen' = [gen EXCEPT ![s] = x]
      BY <1>4, <2>1, <2>3 DEF OnFinish, TypeOK
    <2>. QED
      BY <2>4, <2>5, EndOf
  <1>. QED
    BY <1>2, <1>3, <1>4

LEMMA LandMove ==
    ASSUME TypeOK, GensInv, NEW s \in Sends, LandFinish(s)
    PROVE  /\ Move(s) /\ Ended(gen[s])
           /\ gen'[s].hit = gen[s].hit /\ gen'[s].dead = gen[s].dead
  <1>0. gen[s] \in GenType /\ GenInv(gen[s]) /\ Ended(gen[s])
    BY DEF TypeOK, GensInv, LandFinish, GenInv
  <1>1. PICK x : x = [gen[s] EXCEPT !.pending = "no"]
    OBVIOUS
  <1>2. /\ x \in GenType /\ x.signal = gen[s].signal /\ x.pre = gen[s].pre /\ x.pc = gen[s].pc
        /\ x.hit = gen[s].hit /\ x.dead = gen[s].dead /\ x.locked = gen[s].locked
    BY <1>0, <1>1 DEF GenType
  <1>3. gen' = [gen EXCEPT ![s] = x]
    BY <1>1 DEF LandFinish, TypeOK
  <1>4. Ended(x) /\ GenInv(x)
    BY <1>0, <1>2 DEF Ended, GenInv
  <1>. QED
    BY <1>0, <1>2, <1>3, <1>4, MoveOf

\* A process that dies ends its sends, and changes no other.
LEMMA CrashMove ==
    ASSUME TypeOK, GensInv, NEW i \in Instances, Crash(i)
    PROVE  /\ gen' \in [Sends -> GenType]
           /\ \A s \in Sends : \/ gen'[s] = gen[s] /\ (InstanceOf[s] = i => gen[s].pc = "idle")
                               \/ Ended(gen'[s]) /\ gen'[s].hit = {} /\ gen'[s].dead = {}
           /\ \A s \in Sends : GenInv(gen'[s]) /\ (Ended(gen[s]) => Ended(gen'[s]))
  <1>. DEFINE Dead(s) == [NoGen EXCEPT !.pc = "dead", !.sees = gen[s].sees]
  <1>1. ASSUME NEW s \in Sends
        PROVE  /\ Dead(s) \in GenType /\ Dead(s).pc = "dead"
               /\ Dead(s).hit = {} /\ Dead(s).dead = {} /\ Dead(s).locked = FALSE
    <2>1. gen[s].sees \in SUBSET Sends
      BY DEF TypeOK, GenType
    <2>2. NoGen \in GenType /\ NoGen.hit = {} /\ NoGen.dead = {} /\ NoGen.locked = FALSE
      BY TakeoverAssumption DEF NoGen, GenType
    <2>. QED
      BY <2>1, <2>2 DEF GenType
  <1>2. gen' = [s \in Sends |-> IF InstanceOf[s] = i /\ gen[s].pc # "idle" THEN Dead(s) ELSE gen[s]]
    BY DEF Crash
  <1>3. ASSUME NEW s \in Sends PROVE Ended(Dead(s)) /\ GenInv(Dead(s))
    BY <1>1 DEF Ended, GenInv
  <1>. HIDE DEF Dead
  <1>. QED
    BY <1>1, <1>2, <1>3 DEF TypeOK, GensInv

\* The steps of watchers and Stops abort sends, or leave them alone.
LEMMA OthersMove ==
    ASSUME TypeOK,
           \/ \E i \in Instances : Watch(i)
           \/ \E p \in Stops : StopNamed(p) \/ StopStep(p)
           \/ \E u \in Users : ExpireIntent(u)
           \/ \E s \in Sends : GoCold(s)
           \/ UNCHANGED vars
    PROVE  /\ gen' \in [Sends -> GenType]
           /\ \A s \in Sends : Touched(gen[s], gen'[s])
  <1>1. CASE UNCHANGED gen
    BY <1>1 DEF TypeOK, Touched
  <1>2. CASE \E T : gen' = Aborting(T)
    BY <1>2, AbortingFacts
  <1>3. UNCHANGED gen \/ \E T : gen' = Aborting(T)
    <2>1. CASE \E i \in Instances : Watch(i)
      BY <2>1 DEF Watch, ReadMarks, ConsumeMarks
    <2>2. CASE \E p \in Stops : StopNamed(p)
      BY <2>2 DEF StopNamed
    <2>3. CASE \E p \in Stops : StopStep(p)
      BY <2>3 DEF StopStep, FindConversation, AbortConversation, MarkConversation,
                  RecordIntent, AwaitConversation
    <2>. QED
      BY <2>1, <2>2, <2>3 DEF ExpireIntent, GoCold, vars
  <1>. QED
    BY <1>1, <1>2, <1>3

\* Every step keeps the types and the invariant of the sends, and none brings one
\* back that is over.
LEMMA GenStep ==
    ASSUME TypeOK, GensInv, [Next]_vars
    PROVE  /\ gen' \in [Sends -> GenType] /\ GensInv'
           /\ \A s \in Sends : Ended(gen[s]) => Ended(gen'[s])
  <1>0. \A s \in Sends : gen[s] \in GenType /\ GenInv(gen[s])
    BY DEF TypeOK, GensInv
  <1>1. ASSUME NEW s \in Sends, Move(s)
        PROVE  /\ gen' \in [Sends -> GenType] /\ GensInv'
               /\ \A t \in Sends : Ended(gen[t]) => Ended(gen'[t])
    BY <1>0, <1>1, TouchedFacts DEF Move, GensInv
  <1>2. ASSUME NEW s \in Sends, Register(s) \/ LoseLock(s) \/ Generate(s), ~ GoCold(s)
        PROVE  Move(s)
    BY <1>2, RegisterMove, LoseLockMove, EndMove, LandMove DEF Generate
  <1>3. ASSUME NEW s \in Sends, Start(s) PROVE Move(s)
    BY ZenonT(60), <1>3, LockMove, SelectMove, AbortMove, WipeMove, MarkMove, AwaitMove, InsertMove,
       ConsumeMove, NextMove, AttachMove DEF Start
  <1>4. CASE \E i \in Instances : Crash(i)
    BY <1>4, CrashMove DEF GensInv
  <1>5. CASE \/ \E i \in Instances : Watch(i)
             \/ \E p \in Stops : StopNamed(p) \/ StopStep(p)
             \/ \E u \in Users : ExpireIntent(u)
             \/ \E s \in Sends : GoCold(s)
             \/ UNCHANGED vars
    BY <1>0, <1>5, OthersMove, TouchedFacts DEF GensInv
  <1>. QED
    BY <1>1, <1>2, <1>3, <1>4, <1>5 DEF Next

(***************************************************************************)
(* Type correctness                                                        *)
(***************************************************************************)
\* Driving rows terminal and marking them keeps their types; a row that was
\* inserted stays one, and is driven terminal only if it is in T.
LEMMA RowFacts ==
    ASSUME TypeOK, NEW T
    PROVE  /\ Wiped(T) \in [Sends -> RowType] /\ Marked(T) \in [Sends -> RowType]
           /\ \A s \in Sends :
                 /\ Marked(T)[s].status = row[s].status /\ Marked(T)[s].cold = row[s].cold
                 /\ Wiped(T)[s] = row[s] \/ (s \in T /\ Wiped(T)[s].status = "aborted")
                 /\ Wiped(T)[s].cold => row[s].cold
                 /\ row[s].status # "none" => Wiped(T)[s].status # "none"
  BY ZenonT(60) DEF Wiped, Marked, Streaming, TypeOK, RowType

LEMMA FaultFacts == TypeOK /\ Fault => faults' \in 0..MaxFaults
  BY TakeoverAssumption DEF TypeOK, Fault

LEMMA InitTypes == Init => TypeOK
  <1>. SUFFICES ASSUME Init PROVE TypeOK
    OBVIOUS
  <1>1. NoGen \in GenType
    BY TakeoverAssumption DEF NoGen, GenType
  <1>2. gen \in [Sends -> GenType]
    BY <1>1 DEF Init
  <1>3. row \in [Sends -> RowType] /\ stop \in [Stops -> StopType]
    BY DEF Init, RowType, StopType
  <1>. QED
    BY <1>2, <1>3, TakeoverAssumption DEF Init, TypeOK

\* The rows, in the steps that change them.
LEMMA RowTypes == TypeOK /\ [Next]_vars => row' \in [Sends -> RowType]
  <1>. SUFFICES ASSUME TypeOK, [Next]_vars PROVE row' \in [Sends -> RowType]
    OBVIOUS
  <1>0. row \in [Sends -> RowType]
    BY DEF TypeOK
  <1>1. UNCHANGED row => row' \in [Sends -> RowType]
    BY <1>0
  <1>2. ASSUME NEW T, row' = Wiped(T) \/ row' = Marked(T) PROVE row' \in [Sends -> RowType]
    BY <1>2, RowFacts
  <1>3. ASSUME NEW s \in Sends, Insert(s) \/ LandFinish(s) \/ GoCold(s)
        PROVE  row' \in [Sends -> RowType]
    <2>1. gen[s].pending \in {"no", "aborted", "complete"}
      BY DEF TypeOK, GenType
    <2>2. CASE Insert(s)
      BY <1>0, <2>2 DEF Insert, RowType
    <2>3. CASE LandFinish(s)
      BY <1>0, <2>1, <2>3 DEF LandFinish, RowType
    <2>4. CASE GoCold(s)
      BY <1>0, <2>4 DEF GoCold, RowType
    <2>. QED
      BY <1>3, <2>2, <2>3, <2>4
  <1>4. ASSUME NEW s \in Sends, Start(s), ~ Insert(s) PROVE row' \in [Sends -> RowType]
    BY <1>1, <1>2, <1>4 DEF Start, Lock, SelectRows, TakeoverAbort, Wipe, MarkOthers,
       AwaitOthers, Consume, PreAbort, Place, Attach
  <1>5. ASSUME NEW s \in Sends, Register(s) \/ LoseLock(s) \/ OnAbort(s) \/ End(s) \/ OnFinish(s)
        PROVE  row' \in [Sends -> RowType]
    BY <1>1, <1>5 DEF Register, LoseLock, OnAbort, End, OnFinish
  <1>6. ASSUME NEW i \in Instances, Watch(i) \/ Crash(i) PROVE row' \in [Sends -> RowType]
    BY <1>1, <1>6 DEF Watch, ReadMarks, ConsumeMarks, Crash
  <1>7. ASSUME NEW p \in Stops, StopNamed(p) \/ StopStep(p) PROVE row' \in [Sends -> RowType]
    BY <1>1, <1>2, <1>7 DEF StopNamed, StopStep, FindConversation, AbortConversation,
       MarkConversation, RecordIntent, AwaitConversation
  <1>8. CASE (\E u \in Users : ExpireIntent(u)) \/ UNCHANGED vars
    BY <1>1, <1>8 DEF ExpireIntent, vars
  <1>. QED
    BY <1>3, <1>4, <1>5, <1>6, <1>7, <1>8 DEF Next, Generate

\* A Stop's record, in the steps that change it.
LEMMA StopTypes == TypeOK /\ [Next]_vars => stop' \in [Stops -> StopType]
  <1>. SUFFICES ASSUME TypeOK, [Next]_vars PROVE stop' \in [Stops -> StopType]
    OBVIOUS
  <1>0. stop \in [Stops -> StopType]
    BY DEF TypeOK
  <1>1. UNCHANGED stop => stop' \in [Stops -> StopType]
    BY <1>0
  <1>2. ASSUME NEW p \in Stops, NEW x \in StopType, stop' = [stop EXCEPT ![p] = x]
        PROVE  stop' \in [Stops -> StopType]
    BY <1>0, <1>2
  <1>3. ASSUME NEW p \in Stops, NEW a \in {"aborted", "not_found", "unconfirmed"}, Answer(p, a)
        PROVE  stop' \in [Stops -> StopType]
    <2>1. PICK x : x = [stop[p] EXCEPT !.pc = "done", !.answer = a, !.sees = {}, !.hit = {}, !.waits = {}]
      OBVIOUS
    <2>2. x \in StopType
      BY <1>0, <2>1 DEF StopType
    <2>3. stop' = [stop EXCEPT ![p] = x]
      BY <1>0, <1>3, <2>1 DEF Answer
    <2>. QED
      BY <1>2, <2>2, <2>3
  <1>4. ASSUME NEW p \in Stops, StopNamed(p) PROVE stop' \in [Stops -> StopType]
    <2>1. PICK n \in Own(p) \cup {None} :
            \/ /\ n # None
               /\ stop' = [stop EXCEPT ![p].pc = "done", ![p].answer = "aborted", ![p].scope = {n}]
            \/ stop' = [stop EXCEPT ![p].pc = "find", ![p].scope = {s \in Own(p) : Streaming(s)}]
      BY <1>4 DEF StopNamed
    <2>2. Own(p) \subseteq Sends
      BY DEF Own
    <2>. HIDE DEF Own
    <2>3. CASE n # None /\ stop' = [stop EXCEPT ![p].pc = "done", ![p].answer = "aborted", ![p].scope = {n}]
      BY <1>0, <2>1, <2>2, <2>3 DEF StopType
    <2>4. CASE stop' = [stop EXCEPT ![p].pc = "find", ![p].scope = {s \in Own(p) : Streaming(s)}]
      <3>1. PICK S \in SUBSET Sends : S = {s \in Own(p) : Streaming(s)}
        BY <2>2
      <3>2. PICK x : x = [stop[p] EXCEPT !.pc = "find", !.scope = S]
        OBVIOUS
      <3>3. x \in StopType
        BY <1>0, <3>2 DEF StopType
      <3>4. stop' = [stop EXCEPT ![p] = x]
        BY <1>0, <2>4, <3>1, <3>2
      <3>. QED
        BY <1>2, <3>3, <3>4
    <2>. QED
      BY <2>1, <2>3, <2>4
  <1>5. ASSUME NEW p \in Stops, FindConversation(p) PROVE stop' \in [Stops -> StopType]
    <2>1. PICK S \in SUBSET Sends : S = {s \in Own(p) : Streaming(s)}
      BY DEF Own
    <2>2. CASE stop' = [stop EXCEPT ![p].pc = "abort", ![p].sees = S]
      <3>1. PICK x : x = [stop[p] EXCEPT !.pc = "abort", !.sees = S]
        OBVIOUS
      <3>2. x \in StopType
        BY <1>0, <3>1 DEF StopType
      <3>3. stop' = [stop EXCEPT ![p] = x]
        BY <1>0, <2>2, <3>1
      <3>. QED
        BY <1>2, <3>2, <3>3
    <2>3. CASE stop' = [stop EXCEPT ![p].pc = "mark"]
      BY <1>0, <2>3 DEF StopType
    <2>. QED
      BY <1>5, <2>1, <2>2, <2>3 DEF FindConversation
  <1>6. ASSUME NEW p \in Stops, AbortConversation(p) PROVE stop' \in [Stops -> StopType]
    <2>1. PICK S \in SUBSET Sends : S = {s \in stop[p].sees : Abortable(p, s)}
      BY <1>0 DEF StopType
    <2>2. stop' = [stop EXCEPT ![p].pc = "mark", ![p].sees = {}, ![p].hit = S]
      BY <1>6, <2>1 DEF AbortConversation
    <2>3. PICK x : x = [stop[p] EXCEPT !.pc = "mark", !.sees = {}, !.hit = S]
      OBVIOUS
    <2>4. x \in StopType
      BY <1>0, <2>3 DEF StopType
    <2>5. stop' = [stop EXCEPT ![p] = x]
      BY <1>0, <2>2, <2>3
    <2>. QED
      BY <1>2, <2>4, <2>5
  <1>7. ASSUME NEW p \in Stops, MarkConversation(p) PROVE stop' \in [Stops -> StopType]
    <2>1. PICK W \in SUBSET Sends :
             W = {s \in Markable(p) \ stop[p].hit : ~ (Here(p, s) /\ gen[s].tomb)}
      BY DEF Markable, Own
    <2>2. CASE stop' = [stop EXCEPT ![p].pc = "await", ![p].waits = W]
      <3>1. PICK x : x = [stop[p] EXCEPT !.pc = "await", !.waits = W]
        OBVIOUS
      <3>2. x \in StopType
        BY <1>0, <3>1 DEF StopType
      <3>3. stop' = [stop EXCEPT ![p] = x]
        BY <1>0, <2>2, <3>1
      <3>. QED
        BY <1>2, <3>2, <3>3
    <2>3. CASE stop' = [stop EXCEPT ![p].pc = "intend"]
      BY <1>0, <2>3 DEF StopType
    <2>4. ASSUME NEW a \in {"aborted", "unconfirmed"},
                 stop' = [stop EXCEPT ![p].pc = "done", ![p].failed = TRUE, ![p].answer = a]
          PROVE  stop' \in [Stops -> StopType]
      <3>1. PICK x : x = [stop[p] EXCEPT !.pc = "done", !.failed = TRUE, !.answer = a]
        OBVIOUS
      <3>2. x \in StopType
        BY <1>0, <3>1 DEF StopType
      <3>3. stop' = [stop EXCEPT ![p] = x]
        BY <1>0, <2>4, <3>1
      <3>. QED
        BY <1>2, <3>2, <3>3
    <2>. QED
      BY <1>3, <1>7, <2>1, <2>2, <2>3, <2>4 DEF MarkConversation
  <1>8. ASSUME NEW p \in Stops, RecordIntent(p) \/ AwaitConversation(p)
        PROVE  stop' \in [Stops -> StopType]
    BY <1>3, <1>8 DEF RecordIntent, AwaitConversation, Verdict
  <1>9. ASSUME NEW i \in Instances, Crash(i) PROVE stop' \in [Stops -> StopType]
    <2>1. \A p \in Stops : [stop[p] EXCEPT !.pc = "done"] \in StopType
      BY <1>0 DEF StopType
    <2>. QED
      BY <1>0, <1>9, <2>1 DEF Crash
  <1>10. ASSUME NEW s \in Sends, Register(s) \/ Start(s) \/ LoseLock(s) \/ Generate(s)
         PROVE  stop' \in [Stops -> StopType]
    BY <1>1, <1>10 DEF Register, Start, Lock, SelectRows, TakeoverAbort, Wipe, MarkOthers,
       AwaitOthers, Insert, Consume, PreAbort, Place, Attach, LoseLock, Generate, OnAbort,
       End, OnFinish, LandFinish, GoCold
  <1>11. CASE \/ \E i \in Instances : Watch(i)
              \/ \E u \in Users : ExpireIntent(u)
              \/ UNCHANGED vars
    BY <1>1, <1>11 DEF Watch, ReadMarks, ConsumeMarks, ExpireIntent, vars
  <1>. QED
    BY <1>4, <1>5, <1>6, <1>7, <1>8, <1>9, <1>10, <1>11 DEF Next, StopStep

\* And the small variables.
RestType ==
    /\ lock \in Sends \cup {None}
    /\ intent \in [Users -> {"none", "fresh", "old"}]
    /\ watching \in [Instances -> BOOLEAN] /\ seen \in [Instances -> SUBSET Sends]
    /\ \A i \in Instances : \A s \in seen[i] : InstanceOf[s] = i
    /\ faults \in 0..MaxFaults

LEMMA RestTypes == TypeOK /\ [Next]_vars => RestType'
  <1>. SUFFICES ASSUME TypeOK, [Next]_vars PROVE RestType'
    OBVIOUS
  <1>0. RestType /\ (Fault => faults' \in 0..MaxFaults)
    BY FaultFacts DEF TypeOK, RestType
  <1>1. CASE UNCHANGED <<lock, intent, watching, seen>> /\ (UNCHANGED faults \/ Fault)
    BY <1>0, <1>1 DEF RestType
  <1>2. ASSUME NEW s \in Sends, Lock(s) \/ LoseLock(s) \/ Place(s) PROVE RestType'
    BY <1>0, <1>2 DEF RestType, Lock, LoseLock, Place
  <1>3. ASSUME NEW s \in Sends, Insert(s) PROVE RestType'
    BY <1>0, <1>3 DEF RestType, Insert
  <1>4. ASSUME NEW s \in Sends, Consume(s) PROVE RestType'
    BY <1>0, <1>4 DEF RestType, Consume
  <1>5. ASSUME NEW i \in Instances, ReadMarks(i) PROVE RestType'
    <2>1. PICK M : M = {s \in Entries(i) : Streaming(s) /\ row[s].marked}
      OBVIOUS
    <2>2. M \in SUBSET Sends /\ \A s \in M : InstanceOf[s] = i
      BY <2>1 DEF Entries
    <2>3. CASE seen' = [seen EXCEPT ![i] = M] /\ UNCHANGED <<lock, intent, watching, faults>>
      BY <1>0, <2>2, <2>3 DEF RestType
    <2>4. CASE watching' = [watching EXCEPT ![i] = FALSE] /\ UNCHANGED <<lock, intent, seen, faults>>
      BY <1>0, <2>4 DEF RestType
    <2>. QED
      BY <1>5, <2>1, <2>3, <2>4 DEF ReadMarks
  <1>6. ASSUME NEW i \in Instances, ConsumeMarks(i) \/ Crash(i) PROVE RestType'
    BY <1>0, <1>6 DEF RestType, ConsumeMarks, Crash
  <1>7. ASSUME NEW p \in Stops, RecordIntent(p) PROVE RestType'
    BY <1>0, <1>7, TakeoverAssumption DEF RestType, RecordIntent
  <1>8. ASSUME NEW u \in Users, ExpireIntent(u) PROVE RestType'
    BY <1>0, <1>8 DEF RestType, ExpireIntent
  <1>9. ASSUME NEW s \in Sends, Start(s), ~ Lock(s), ~ Place(s), ~ Insert(s), ~ Consume(s)
        PROVE  RestType'
    BY <1>1, <1>9 DEF Start, SelectRows, TakeoverAbort, Wipe, MarkOthers, AwaitOthers,
       PreAbort, Attach
  <1>10. ASSUME NEW s \in Sends, Register(s) \/ Generate(s) PROVE RestType'
    BY <1>1, <1>10 DEF Register, Generate, OnAbort, End, OnFinish, LandFinish, GoCold
  <1>11. ASSUME NEW p \in Stops, StopNamed(p) \/ StopStep(p), ~ RecordIntent(p) PROVE RestType'
    BY <1>1, <1>11 DEF StopNamed, StopStep, FindConversation, AbortConversation,
       MarkConversation, AwaitConversation
  <1>12. CASE UNCHANGED vars
    BY <1>1, <1>12 DEF vars
  <1>. QED
    BY <1>2, <1>3, <1>4, <1>5, <1>6, <1>7, <1>8, <1>9, <1>10, <1>11, <1>12 DEF Next, Watch

TypeInv == TypeOK /\ GensInv

LEMMA InitInv == Init => TypeInv
  <1>1. Init => GensInv
    <2>1. /\ NoGen.finished = FALSE /\ NoGen.tomb = FALSE /\ NoGen.pending = "no"
          /\ NoGen.pc = "idle" /\ NoGen.locked = FALSE
      BY DEF NoGen
    <2>2. GenInv(NoGen)
      BY <2>1 DEF GenInv
    <2>. QED
      BY <2>2 DEF Init, GensInv
  <1>. QED
    BY <1>1, InitTypes DEF TypeInv

LEMMA StepInv == TypeInv /\ [Next]_vars => TypeInv'
  BY GenStep, RowTypes, StopTypes, RestTypes DEF TypeInv, TypeOK, RestType

\* The variables keep their types, and a watcher acts on its own sends only.
THEOREM TypeCorrect == Spec => []TypeOK
  <1>1. TypeInv => TypeOK
    BY DEF TypeInv
  <1>. QED
    BY <1>1, InitInv, StepInv, PTL DEF Spec

(***************************************************************************)
(* Rows that are terminal, or cold                                         *)
(***************************************************************************)
Terminal == {"aborted", "complete"}

\* A row is driven terminal, or goes cold, only for a generation that is over;
\* and so are those a takeover has hit, or has found dead.
RowsInv ==
    /\ \A s \in Sends : row[s].status \in Terminal \/ row[s].cold => Ended(gen[s])
    /\ \A s \in Sends : \A t \in gen[s].hit \cup gen[s].dead : Ended(gen[t])

\* The rows a waiter may wipe are cold.
LEMMA ColdEnded ==
    ASSUME TypeOK, RowsInv, NEW T \in SUBSET Sends
    PROVE  \A t \in Cold(T) : t \in Sends /\ Ended(gen[t])
  BY DEF Cold, RowsInv

LEMMA RowStep ==
    ASSUME TypeInv, RowsInv, [Next]_vars
    PROVE  \A t \in Sends : /\ row'[t].status \in Terminal \/ row'[t].cold => Ended(gen[t])
                            /\ row[t].status # "none" => row'[t].status # "none"
  <1>. DEFINE Goal == \A t \in Sends :
                 /\ row'[t].status \in Terminal \/ row'[t].cold => Ended(gen[t])
                 /\ row[t].status # "none" => row'[t].status # "none"
  <1>0. TypeOK /\ GensInv /\ row \in [Sends -> RowType]
    BY DEF TypeInv, TypeOK
  <1>1. UNCHANGED row => Goal
    BY DEF RowsInv
  <1>2. ASSUME NEW T, row' = Marked(T) PROVE Goal
    BY <1>0, <1>2, RowFacts DEF RowsInv
  <1>3. ASSUME NEW T, \A t \in T : t \in Sends => Ended(gen[t]), row' = Wiped(T) PROVE Goal
    BY <1>0, <1>3, RowFacts DEF RowsInv
  <1>. HIDE DEF Goal
  <1>4. ASSUME NEW s \in Sends, Wipe(s) PROVE Goal
    <2>1. gen[s].hit \in SUBSET Sends /\ gen[s].dead \in SUBSET Sends
      BY <1>0 DEF TypeOK, GenType
    <2>2. \A t \in Reconcilable(s) : Ended(gen[t])
      BY <1>0, <2>1, ColdEnded DEF Reconcilable, RowsInv
    <2>. QED
      BY <1>1, <1>3, <1>4, <2>2 DEF Wipe
  <1>5. ASSUME NEW s \in Sends, AwaitOthers(s) PROVE Goal
    <2>1. gen[s].waits \in SUBSET Sends
      BY <1>0 DEF TypeOK, GenType
    <2>2. \A t \in Cold(gen[s].waits) : Ended(gen[t])
      BY <1>0, <2>1, ColdEnded
    <2>. QED
      BY <1>1, <1>3, <1>5, <2>2 DEF AwaitOthers
  <1>6. ASSUME NEW s \in Sends, PreAbort(s) PROVE Goal
    <2>1. \A t \in {s} : Ended(gen[t])
      BY <1>0, <1>6, NextMove
    <2>. QED
      BY <1>1, <1>3, <1>6, <2>1 DEF PreAbort
  <1>7. ASSUME NEW s \in Sends, Insert(s) PROVE Goal
    <2>1. CASE row' = [row EXCEPT ![s].status = "streaming"]
      BY <1>0, <2>1 DEF RowsInv, RowType, Terminal, Goal
    <2>. QED
      BY <1>1, <1>7, <2>1 DEF Insert
  <1>8. ASSUME NEW s \in Sends, LandFinish(s) PROVE Goal
    <2>0. Ended(gen[s]) /\ gen[s].pending \in {"aborted", "complete"}
      BY <1>0, <1>8, LandMove DEF LandFinish, TypeOK, GenType
    <2>1. CASE row' = [row EXCEPT ![s].status = gen[s].pending]
      BY <1>0, <2>0, <2>1 DEF RowsInv, RowType, Goal
    <2>. QED
      BY <1>1, <1>8, <2>1 DEF LandFinish
  <1>9. ASSUME NEW s \in Sends, GoCold(s) PROVE Goal
    <2>1. Ended(gen[s])
      BY <1>0, <1>9 DEF GoCold, Ended, GensInv, GenInv
    <2>. QED
      BY <1>0, <1>9, <2>1 DEF GoCold, RowsInv, RowType, Goal
  <1>10. ASSUME NEW p \in Stops, StopNamed(p) \/ StopStep(p) PROVE Goal
    <2>1. stop[p].waits \in SUBSET Sends
      BY <1>0 DEF TypeOK, StopType
    <2>2. \A t \in Cold(stop[p].waits) : Ended(gen[t])
      BY <1>0, <2>1, ColdEnded
    <2>3. AwaitConversation(p) => Goal
      BY <1>1, <1>3, <2>2 DEF AwaitConversation
    <2>. QED
      BY <1>1, <1>2, <1>10, <2>3 DEF StopNamed, StopStep, FindConversation, AbortConversation,
         MarkConversation, RecordIntent
  <1>11. ASSUME NEW s \in Sends, MarkOthers(s) PROVE Goal
    BY <1>1, <1>2, <1>11 DEF MarkOthers
  <1>12. ASSUME NEW s \in Sends,
                \/ Register(s) \/ LoseLock(s) \/ OnAbort(s) \/ End(s) \/ OnFinish(s)
                \/ Lock(s) \/ SelectRows(s) \/ TakeoverAbort(s) \/ Consume(s) \/ Place(s) \/ Attach(s)
         PROVE  Goal
    BY <1>1, <1>12 DEF Register, LoseLock, OnAbort, End, OnFinish, Lock, SelectRows,
       TakeoverAbort, Consume, Place, Attach
  <1>13. ASSUME NEW i \in Instances, Watch(i) \/ Crash(i) PROVE Goal
    BY <1>1, <1>13 DEF Watch, ReadMarks, ConsumeMarks, Crash
  <1>14. ASSUME (\E u \in Users : ExpireIntent(u)) \/ UNCHANGED vars PROVE Goal
    BY <1>1, <1>14 DEF ExpireIntent, vars
  <1>15. ASSUME NEW s \in Sends, Start(s) \/ Generate(s) PROVE Goal
    BY <1>4, <1>5, <1>6, <1>7, <1>8, <1>9, <1>11, <1>12, <1>15 DEF Start, Generate
  <1>16. Goal
    BY <1>10, <1>12, <1>13, <1>14, <1>15 DEF Next
  <1>. QED
    BY <1>16 DEF Goal

LEMMA StepRows == TypeInv /\ RowsInv /\ [Next]_vars => RowsInv'
  <1>. SUFFICES ASSUME TypeInv, RowsInv, [Next]_vars PROVE RowsInv'
    OBVIOUS
  <1>0. TypeOK /\ GensInv /\ \A s \in Sends : gen[s] \in GenType
    BY DEF TypeInv, TypeOK
  <1>1. \A t \in Sends : Ended(gen[t]) => Ended(gen'[t])
    BY <1>0, GenStep
  <1>2. \A s \in Sends : row'[s].status \in Terminal \/ row'[s].cold => Ended(gen'[s])
    BY <1>1, RowStep
  <1>3. \A s \in Sends : \A t \in gen[s].hit \cup gen[s].dead : Ended(gen'[t])
    <2>1. \A s \in Sends : gen[s].hit \cup gen[s].dead \subseteq Sends
      BY <1>0 DEF GenType
    <2>. QED
      BY <1>1, <2>1 DEF RowsInv
  <1>4. ASSUME NEW s \in Sends, Move(s), \A t \in gen'[s].hit \cup gen'[s].dead : Ended(gen'[t])
        PROVE  RowsInv'
    <2>1. \A r \in Sends \ {s} : gen'[r].hit = gen[r].hit /\ gen'[r].dead = gen[r].dead
      BY <1>0, <1>4, TouchedFacts DEF Move
    <2>. QED
      BY <1>2, <1>3, <1>4, <2>1 DEF RowsInv
  <1>5. ASSUME NEW s \in Sends, Register(s) \/ LoseLock(s) \/ Generate(s), ~ GoCold(s)
        PROVE  RowsInv'
    <2>1. Move(s) /\ gen'[s].hit = gen[s].hit /\ gen'[s].dead = gen[s].dead
      BY <1>0, <1>5, RegisterMove, LoseLockMove, EndMove, LandMove DEF Generate
    <2>. QED
      BY <1>3, <1>4, <2>1
  <1>6. ASSUME NEW s \in Sends, Start(s), ~ SelectRows(s), ~ TakeoverAbort(s), ~ MarkOthers(s)
        PROVE  RowsInv'
    <2>1. Move(s) /\ gen'[s].hit = gen[s].hit /\ gen'[s].dead = gen[s].dead
      BY ZenonT(60), <1>0, <1>6, LockMove, WipeMove, AwaitMove, InsertMove, ConsumeMove, NextMove,
         AttachMove DEF Start
    <2>. QED
      BY <1>3, <1>4, <2>1
  <1>7. ASSUME NEW s \in Sends, SelectRows(s) PROVE RowsInv'
    <2>1. \A t \in Sends : row[t].cold => Ended(gen'[t])
      BY <1>1 DEF RowsInv
    <2>2. /\ Move(s) /\ gen'[s].hit = gen[s].hit
          /\ gen'[s].dead = gen[s].dead \/ gen'[s].dead \subseteq {t \in Sends : row[t].cold}
      BY <1>0, <1>7, SelectMove
    <2>. QED
      BY <1>3, <1>4, <2>1, <2>2
  <1>8. ASSUME NEW s \in Sends, TakeoverAbort(s) PROVE RowsInv'
    <2>1. /\ Move(s) /\ gen'[s].dead = gen[s].dead
          /\ \A t \in gen'[s].hit : Ended(gen'[t])
      BY <1>0, <1>8, AbortMove
    <2>. QED
      BY <1>3, <1>4, <2>1
  <1>9. ASSUME NEW s \in Sends, MarkOthers(s) PROVE RowsInv'
    <2>1. Move(s) /\ gen'[s].dead = {} /\ gen'[s].hit = {}
      BY <1>0, <1>9, MarkMove
    <2>. QED
      BY <1>4, <2>1
  <1>10. CASE \E i \in Instances : Crash(i)
    BY <1>0, <1>2, <1>3, <1>10, CrashMove DEF RowsInv
  <1>11. CASE \/ \E i \in Instances : Watch(i)
              \/ \E p \in Stops : StopNamed(p) \/ StopStep(p)
              \/ \E u \in Users : ExpireIntent(u)
              \/ \E s \in Sends : GoCold(s)
              \/ UNCHANGED vars
    <2>1. \A s \in Sends : Touched(gen[s], gen'[s])
      BY <1>0, <1>11, OthersMove
    <2>2. \A s \in Sends : gen'[s].hit = gen[s].hit /\ gen'[s].dead = gen[s].dead
      BY <1>0, <2>1, TouchedFacts
    <2>. QED
      BY <1>2, <1>3, <2>2 DEF RowsInv
  <1>. QED
    BY <1>5, <1>6, <1>7, <1>8, <1>9, <1>10, <1>11 DEF Next

LEMMA InitRows == Init => RowsInv
  <1>1. NoGen.hit = {} /\ NoGen.dead = {}
    BY DEF NoGen
  <1>. QED
    BY <1>1 DEF Init, RowsInv, Terminal

\* No client and no Stop can see a row that is terminal, so no generation goes on
\* behind one.
THEOREM TerminalIsStopped == Spec => []TerminalMeansStopped
  <1>1. RowsInv => TerminalMeansStopped
    BY DEF RowsInv, TerminalMeansStopped, Terminal, Generating, Ended
  <1>. QED
    BY <1>1, InitInv, StepInv, InitRows, StepRows, PTL DEF Spec

(***************************************************************************)
(* One generation                                                          *)
(***************************************************************************)
\* A send that has had the lock, was told of nothing beside it, and is not over.
Live(g) == g.locked /\ ~ g.blind /\ ~ Ended(g)

Critical ==
    {"select", "abort", "wipe", "mark", "await", "insert", "consume", "preabort", "place"}
Placed == {"attach", "running"}
Inserted == {"consume", "preabort", "place"} \cup Placed

\* What a live send whose record is g knows of another live one, s, that has given
\* the lock back: it is among the rows it selected, then among those it waits for;
\* and once it inserts its own row there is none.
Chases(g, s) ==
    /\ g.pc \in {"abort", "wipe", "mark"} => s \in g.sees
    /\ g.pc = "await" => s \in g.waits
    /\ g.pc \notin {"insert"} \cup Inserted

LiveInv ==
    /\ \A s \in Sends : Live(gen[s]) /\ gen[s].pc \in Critical => lock = s
    /\ \A s \in Sends : Live(gen[s]) /\ gen[s].pc \in Inserted => row[s].status # "none"
    /\ \A s, t \in Sends :
          s # t /\ Live(gen[s]) /\ gen[s].pc \in Placed /\ Live(gen[t]) => Chases(gen[t], s)

\* A send that is live after a step was live before, in the same place.
Kept(g, h) ==
    Live(h) => Live(g) /\ h.pc = g.pc /\ h.sees = g.sees /\ h.waits = g.waits

LEMMA TouchedKept ==
    ASSUME NEW g \in GenType, NEW h, Touched(g, h)
    PROVE  Kept(g, h)
  BY TouchedFacts DEF Kept, Live

\* Steps after which every live send is where it was.
LEMMA KeptStep ==
    ASSUME LiveInv, \A s \in Sends : Kept(gen[s], gen'[s]),
           \A s \in Sends : row[s].status # "none" => row'[s].status # "none",
           \A s \in Sends : Live(gen'[s]) /\ lock = s => lock' = s
    PROVE  LiveInv'
  BY DEF LiveInv, Kept, Chases

\* A step of s that leaves it live somewhere else.
LEMMA OwnStep ==
    ASSUME LiveInv, NEW s \in Sends,
           \A t \in Sends \ {s} : Kept(gen[t], gen'[t]),
           \A t \in Sends : row[t].status # "none" => row'[t].status # "none",
           \A t \in Sends \ {s} : Live(gen'[t]) /\ lock = t => lock' = t,
           Live(gen'[s]) =>
              /\ gen'[s].pc \in Critical => lock' = s
              /\ gen'[s].pc \in Inserted => row'[s].status # "none"
              /\ \A t \in Sends \ {s} :
                    Live(gen'[t]) /\ gen[t].pc \in Placed => Chases(gen'[s], t)
              /\ gen'[s].pc \in Placed =>
                    \A t \in Sends \ {s} : Live(gen[t]) => Chases(gen[t], s)
    PROVE  LiveInv'
  <1>1. \A t \in Sends : Live(gen'[t]) /\ gen'[t].pc \in Critical => lock' = t
    BY DEF LiveInv, Kept
  <1>2. \A t \in Sends : Live(gen'[t]) /\ gen'[t].pc \in Inserted => row'[t].status # "none"
    BY DEF LiveInv, Kept
  <1>3. ASSUME NEW r \in Sends, NEW t \in Sends, r # t, Live(gen'[r]), gen'[r].pc \in Placed,
               Live(gen'[t])
        PROVE  Chases(gen'[t], r)
    <2>1. CASE t = s
      BY <1>3, <2>1 DEF Kept
    <2>2. CASE r = s
      <3>1. Chases(gen[t], r) /\ Kept(gen[t], gen'[t])
        BY <1>3, <2>2 DEF Kept
      <3>. QED
        BY <1>3, <3>1 DEF Kept, Chases
    <2>3. CASE r # s /\ t # s
      <3>1. Kept(gen[r], gen'[r]) /\ Kept(gen[t], gen'[t])
        BY <2>3
      <3>2. Chases(gen[t], r)
        BY <1>3, <3>1 DEF Kept, LiveInv
      <3>. QED
        BY <1>3, <3>1, <3>2 DEF Kept, Chases
    <2>. QED
      BY <2>1, <2>2, <2>3
  <1>. QED
    BY <1>1, <1>2, <1>3 DEF LiveInv

\* A live send whose row was inserted has it open.
LEMMA LiveStreams ==
    ASSUME TypeOK, RowsInv, NEW s \in Sends, ~ Ended(gen[s]), row[s].status # "none"
    PROVE  Streaming(s) /\ ~ row[s].cold
  BY DEF TypeOK, RowType, RowsInv, Streaming, Terminal

LEMMA StepLive == TypeInv /\ RowsInv /\ LiveInv /\ [Next]_vars => LiveInv'
  <1>. SUFFICES ASSUME TypeInv, RowsInv, LiveInv, [Next]_vars PROVE LiveInv'
    OBVIOUS
  <1>0. TypeOK /\ GensInv /\ \A s \in Sends : gen[s] \in GenType /\ GenInv(gen[s])
    BY DEF TypeInv, TypeOK, GensInv
  <1>1. \A s \in Sends : row[s].status # "none" => row'[s].status # "none"
    BY RowStep
  <1>2. \A s \in Sends : Ended(gen[s]) => Ended(gen'[s])
    BY <1>0, GenStep
  <1>3. ASSUME NEW s \in Sends, Move(s) PROVE \A t \in Sends \ {s} : Kept(gen[t], gen'[t])
    BY <1>0, <1>3, TouchedKept DEF Move
  \* A step of s after which s is not live.
  <1>4. ASSUME NEW s \in Sends, Move(s), ~ Live(gen'[s]),
               \A t \in Sends \ {s} : Live(gen'[t]) /\ lock = t => lock' = t
        PROVE  LiveInv'
    BY <1>1, <1>3, <1>4, OwnStep
  <1>5. ASSUME NEW s \in Sends, Register(s) PROVE LiveInv'
    <2>1. Move(s) /\ ~ Live(gen'[s])
      BY <1>0, <1>5, RegisterMove DEF Move, GenInv, Live
    <2>. QED
      BY <1>4, <1>5, <2>1 DEF Register
  <1>6. ASSUME NEW s \in Sends, Lock(s) PROVE LiveInv'
    <2>1. Move(s)
      BY <1>0, <1>6, LockMove
    <2>2. CASE ~ gen'[s].locked /\ UNCHANGED lock
      BY <1>4, <2>1, <2>2 DEF Live
    <2>3. CASE gen'[s].pc = "select" /\ lock = None /\ lock' = s
      <3>1. \A t \in Sends : lock # t
        BY <2>3, TakeoverAssumption
      <3>. QED
        BY <1>1, <1>3, <2>1, <2>3, <3>1, OwnStep DEF Critical, Inserted, Placed, Chases
    <2>. QED
      BY <1>0, <1>6, <2>2, <2>3, LockMove
  <1>7. ASSUME NEW s \in Sends, LoseLock(s) PROVE LiveInv'
    <2>1. Move(s) /\ ~ Live(gen'[s]) /\ lock = s
      BY <1>0, <1>7, LoseLockMove DEF Live, LoseLock
    <2>. QED
      BY <1>4, <2>1
  <1>8. ASSUME NEW s \in Sends, SelectRows(s) PROVE LiveInv'
    <2>1. Move(s) /\ gen[s].pc = "select" /\ gen'[s].locked = gen[s].locked /\ UNCHANGED lock
      BY <1>0, <1>8, SelectMove DEF SelectRows
    <2>2. CASE Live(gen'[s])
      <3>1. /\ gen'[s].pc \in {"insert", "abort"} /\ ~ gen[s].blind
            /\ \/ gen'[s].pc = "insert" /\ \A t \in Sends \ {s} : ~ Streaming(t)
               \/ gen'[s].pc = "abort" /\ gen'[s].sees = {t \in Sends \ {s} : Streaming(t)}
        <4>1. gen[s].blind \in BOOLEAN /\ gen'[s].blind \in BOOLEAN
          <5>1. gen'[s] \in GenType
            BY <2>1 DEF Move
          <5>. QED
            BY <1>0, <5>1 DEF GenType
        <4>2. ~ gen'[s].blind
          BY <2>2 DEF Live
        <4>3. (gen[s].blind => gen'[s].blind) /\ gen'[s].pc \in {"insert", "abort"}
          BY <1>0, <1>8, SelectMove
        <4>4. ~ gen[s].blind /\ gen'[s].blind = gen[s].blind
          BY <4>1, <4>2, <4>3
        <4>. QED
          BY <1>0, <1>8, <4>3, <4>4, SelectMove
      <3>2. lock = s
        BY <1>2, <2>1, <2>2, <3>1 DEF Live, LiveInv, Critical
      <3>3. ASSUME NEW t \in Sends \ {s}, Live(gen'[t]), gen[t].pc \in Placed
            PROVE  Streaming(t)
        <4>1. Live(gen[t])
          BY <1>3, <2>1, <3>3 DEF Kept
        <4>2. ~ Ended(gen[t]) /\ row[t].status # "none"
          BY <3>3, <4>1 DEF Live, LiveInv, Inserted
        <4>. QED
          BY <1>0, <4>2, LiveStreams
      <3>. QED
        BY <1>1, <1>3, <2>1, <3>1, <3>2, <3>3, OwnStep DEF Critical, Inserted, Placed, Chases
    <2>. QED
      BY <1>4, <2>1, <2>2
  <1>9. ASSUME NEW s \in Sends, TakeoverAbort(s) \/ Wipe(s) PROVE LiveInv'
    <2>1. /\ Move(s) /\ gen[s].pc \in {"abort", "wipe"} /\ gen'[s].pc \in {"wipe", "mark"}
          /\ gen'[s].locked = gen[s].locked /\ gen'[s].blind = gen[s].blind
          /\ gen'[s].sees = gen[s].sees
      BY <1>0, <1>9, AbortMove, WipeMove
    <2>2. UNCHANGED lock
      BY <1>9 DEF TakeoverAbort, Wipe
    <2>3. CASE Live(gen'[s])
      <3>1. Live(gen[s])
        BY <1>2, <2>1, <2>3 DEF Live
      <3>2. lock = s
        BY <2>1, <3>1 DEF LiveInv, Critical
      <3>3. ASSUME NEW t \in Sends \ {s}, Live(gen'[t]), gen[t].pc \in Placed
            PROVE  t \in gen[s].sees
        BY <1>3, <2>1, <3>1, <3>3 DEF Kept, LiveInv, Chases
      <3>. QED
        BY <1>1, <1>3, <2>1, <2>2, <3>2, <3>3, OwnStep DEF Critical, Inserted, Placed, Chases
    <2>. QED
      BY <1>4, <2>1, <2>2, <2>3
  <1>10. ASSUME NEW s \in Sends, MarkOthers(s) PROVE LiveInv'
    <2>1. /\ Move(s) /\ gen[s].pc = "mark" /\ gen'[s].pc \in {"insert", "await"}
          /\ gen'[s].locked = gen[s].locked /\ UNCHANGED lock
      BY <1>0, <1>10, MarkMove DEF MarkOthers
    <2>2. CASE Live(gen'[s])
      <3>1. /\ gen'[s].blind = gen[s].blind /\ gen'[s].waits = {t \in Others(s) : Streaming(t)}
            /\ gen'[s].pc = "insert" => gen'[s].waits = {}
        BY <1>0, <1>10, <2>2, MarkMove DEF Live
      <3>2. Live(gen[s]) /\ lock = s
        BY <1>2, <2>1, <2>2, <3>1 DEF Live, LiveInv, Critical
      <3>3. ASSUME NEW t \in Sends \ {s}, Live(gen'[t]), gen[t].pc \in Placed
            PROVE  t \in gen'[s].waits
        <4>1. Live(gen[t]) /\ ~ Ended(gen[t])
          BY <1>3, <2>1, <3>3 DEF Kept, Live
        <4>2. t \in gen[s].sees
          BY <2>1, <3>2, <3>3, <4>1 DEF LiveInv, Chases
        <4>3. t \notin gen[s].hit \cup gen[s].dead
          BY <4>1 DEF RowsInv
        <4>4. ~ gen[t].tomb
          BY <1>0, <4>1 DEF GenInv
        <4>5. Streaming(t)
          BY <1>0, <3>3, <4>1, LiveStreams DEF LiveInv, Inserted
        <4>. QED
          BY <3>1, <4>2, <4>3, <4>4, <4>5 DEF Others
      <3>. QED
        BY <1>1, <1>3, <2>1, <3>1, <3>2, <3>3, OwnStep DEF Critical, Inserted, Placed, Chases
    <2>. QED
      BY <1>4, <2>1, <2>2
  <1>11. ASSUME NEW s \in Sends, AwaitOthers(s) PROVE LiveInv'
    <2>1. /\ Move(s) /\ gen[s].pc = "await" /\ gen'[s].pc = "insert"
          /\ gen'[s].locked = gen[s].locked /\ UNCHANGED lock
      BY <1>0, <1>11, AwaitMove DEF AwaitOthers
    <2>2. CASE Live(gen'[s])
      <3>1. ~ gen[s].blind /\ Open(gen[s].waits) = {}
        BY <1>0, <1>11, <2>2, AwaitMove DEF Live
      <3>2. Live(gen[s]) /\ lock = s
        BY <1>2, <2>1, <2>2, <3>1 DEF Live, LiveInv, Critical
      <3>3. ASSUME NEW t \in Sends \ {s}, Live(gen'[t]), gen[t].pc \in Placed
            PROVE  FALSE
        <4>1. Live(gen[t]) /\ ~ Ended(gen[t])
          BY <1>3, <2>1, <3>3 DEF Kept, Live
        <4>2. t \in gen[s].waits
          BY <2>1, <3>2, <3>3, <4>1 DEF LiveInv, Chases
        <4>3. Streaming(t) /\ ~ row[t].cold
          BY <1>0, <3>3, <4>1, LiveStreams DEF LiveInv, Inserted
        <4>. QED
          BY <3>1, <4>2, <4>3 DEF Open
      <3>. QED
        BY <1>1, <1>3, <2>1, <3>2, <3>3, OwnStep DEF Critical, Inserted, Placed
    <2>. QED
      BY <1>4, <2>1, <2>2
  \* From the insert on there is no other, and nobody comes in.
  <1>12. ASSUME NEW s \in Sends, Move(s), gen[s].pc \in {"insert", "consume", "preabort", "place", "attach"},
                gen'[s].locked = gen[s].locked, gen'[s].blind = gen[s].blind,
                gen'[s].pc \in Inserted \cup {"over"},
                gen'[s].pc \in Inserted /\ Live(gen'[s]) => row'[s].status # "none",
                gen[s].pc = "attach" => gen'[s].pc \in {"running", "over"},
                gen[s].pc # "attach" => gen'[s].pc # "running",
                gen'[s].pc = "attach" => gen[s].pc = "place",
                \A t \in Sends \ {s} : lock = t => lock' = t,
                gen'[s].pc \in Critical => lock' = lock
         PROVE  LiveInv'
    <2>1. CASE Live(gen'[s])
      <3>1. Live(gen[s]) /\ gen'[s].pc # "over"
        BY <1>2, <1>12, <2>1 DEF Live, Ended
      <3>2. gen'[s].pc \in Critical => lock' = s
        BY <1>12, <3>1 DEF LiveInv, Critical, Inserted, Placed
      <3>3. ASSUME NEW t \in Sends \ {s}, Live(gen[t]), gen[t].pc \in Placed PROVE FALSE
        BY <1>12, <3>1, <3>3 DEF LiveInv, Chases, Inserted, Placed
      <3>4. ASSUME gen'[s].pc \in Placed, NEW t \in Sends \ {s}, Live(gen[t]) PROVE Chases(gen[t], s)
        <4>1. CASE gen[s].pc = "attach"
          BY <3>1, <3>4, <4>1 DEF LiveInv, Placed
        <4>2. CASE gen[s].pc = "place"
          <5>1. lock = s
            BY <3>1, <4>2 DEF LiveInv, Critical
          <5>2. gen[t].pc \notin Critical /\ gen[t].pc \notin Placed
            BY <3>3, <3>4, <5>1 DEF LiveInv
          <5>. QED
            BY <5>2 DEF Chases, Critical, Inserted
        <4>. QED
          BY <1>12, <3>4, <4>1, <4>2 DEF Placed
      <3>5. \A t \in Sends \ {s} : Live(gen'[t]) => Live(gen[t])
        BY <1>3, <1>12 DEF Kept
      <3>. QED
        BY <1>1, <1>3, <1>12, <2>1, <3>2, <3>3, <3>4, <3>5, OwnStep
    <2>. QED
      BY <1>4, <1>12, <2>1
  <1>13. ASSUME NEW s \in Sends, Insert(s) PROVE LiveInv'
    <2>1. /\ Move(s) /\ gen[s].pc = "insert" /\ gen'[s].pc = "consume"
          /\ gen'[s].locked = gen[s].locked /\ UNCHANGED lock
          /\ \/ gen'[s].blind = TRUE
             \/ gen'[s].blind = gen[s].blind /\ row' = [row EXCEPT ![s].status = "streaming"]
      BY <1>0, <1>13, InsertMove DEF Insert
    <2>2. CASE gen'[s].blind = TRUE
      BY <1>4, <2>1, <2>2 DEF Live
    <2>3. CASE gen'[s].blind = gen[s].blind /\ row' = [row EXCEPT ![s].status = "streaming"]
      <3>1. row'[s].status = "streaming"
        BY <1>0, <2>3 DEF TypeOK, RowType
      <3>. QED
        BY <1>12, <2>1, <2>3, <3>1 DEF Inserted, Placed
    <2>. QED
      BY <2>1, <2>2, <2>3
  <1>14. ASSUME NEW s \in Sends, Consume(s) \/ PreAbort(s) \/ Place(s) \/ Attach(s) PROVE LiveInv'
    <2>1. /\ Move(s) /\ gen'[s].locked = gen[s].locked /\ gen'[s].blind = gen[s].blind
          /\ \/ gen[s].pc = "consume" /\ gen'[s].pc \in {"preabort", "place"}
             \/ gen[s].pc = "preabort" /\ gen'[s].pc = "place"
             \/ gen[s].pc = "place" /\ gen'[s].pc = "attach"
             \/ gen[s].pc = "attach" /\ gen'[s].pc \in {"running", "over"}
      BY <1>0, <1>14, ConsumeMove, NextMove, AttachMove
    <2>2. /\ \A t \in Sends \ {s} : lock = t => lock' = t
          /\ gen'[s].pc \in Critical => lock' = lock
      BY <1>14, <2>1 DEF Consume, PreAbort, Place, Attach, Critical
    <2>3. Live(gen'[s]) => row'[s].status # "none"
      <3>1. Live(gen'[s]) => Live(gen[s])
        BY <1>2, <2>1 DEF Live
      <3>. QED
        BY <1>1, <2>1, <3>1 DEF LiveInv, Inserted, Placed
    <2>. QED
      BY <1>12, <2>1, <2>2, <2>3 DEF Inserted, Placed
  <1>15. ASSUME NEW s \in Sends, OnAbort(s) \/ End(s) \/ OnFinish(s) \/ LandFinish(s) PROVE LiveInv'
    <2>1. Move(s) /\ Ended(gen'[s])
      BY <1>0, <1>2, <1>15, EndMove, LandMove
    <2>2. UNCHANGED lock
      BY <1>15 DEF OnAbort, End, OnFinish, LandFinish
    <2>. QED
      BY <1>4, <2>1, <2>2 DEF Live
  <1>16. ASSUME NEW i \in Instances, Crash(i) PROVE LiveInv'
    <2>1. ASSUME NEW s \in Sends, Live(gen'[s])
          PROVE  gen'[s] = gen[s] /\ (InstanceOf[s] = i => gen[s].pc = "idle")
      BY <1>0, <1>16, <2>1, CrashMove DEF Live
    <2>2. \A s \in Sends : Kept(gen[s], gen'[s])
      BY <2>1 DEF Kept
    <2>3. ASSUME NEW s \in Sends, Live(gen'[s]), lock = s PROVE lock' = s
      <3>1. InstanceOf[s] # i
        <4>1. gen[s].pc = "idle" => ~ gen[s].locked
          BY <1>0 DEF GenInv
        <4>. QED
          BY <2>1, <2>3, <4>1 DEF Live
      <3>. QED
        BY <1>16, <2>3, <3>1 DEF Crash
    <2>. QED
      BY <1>1, <2>2, <2>3, KeptStep
  <1>17. CASE \/ \E i \in Instances : Watch(i)
              \/ \E p \in Stops : StopNamed(p) \/ StopStep(p)
              \/ \E u \in Users : ExpireIntent(u)
              \/ \E s \in Sends : GoCold(s)
              \/ UNCHANGED vars
    <2>1. \A s \in Sends : Kept(gen[s], gen'[s])
      BY <1>0, <1>17, OthersMove, TouchedKept
    <2>2. UNCHANGED lock
      BY <1>17 DEF Watch, ReadMarks, ConsumeMarks, StopNamed, StopStep, FindConversation,
         AbortConversation, MarkConversation, RecordIntent, AwaitConversation, ExpireIntent,
         GoCold, vars
    <2>. QED
      BY <1>1, <2>1, <2>2, KeptStep
  <1>. QED
    BY <1>5, <1>6, <1>7, <1>8, <1>9, <1>10, <1>11, <1>13, <1>14, <1>15, <1>16, <1>17
    DEF Next, Start, Generate

LEMMA InitLive == Init => LiveInv
  <1>1. NoGen.locked = FALSE
    BY DEF NoGen
  <1>. QED
    BY <1>1 DEF Init, LiveInv, Live

\* Two sends that started under the lock and were told of nothing beside them
\* never generate at once.
THEOREM OneGenerates == Spec => []OneGeneration
  <1>1. LiveInv => OneGeneration
    <2>. SUFFICES ASSUME LiveInv, NEW s \in Sends, NEW t \in Sends, s # t,
                         Generating(s), gen[s].locked, ~ gen[s].blind,
                         Generating(t), gen[t].locked, ~ gen[t].blind
                  PROVE  FALSE
      BY DEF OneGeneration
    <2>1. Live(gen[s]) /\ Live(gen[t])
      BY DEF Live, Ended, Generating
    <2>2. CASE gen[s].pc \in Placed
      BY <2>1, <2>2 DEF LiveInv, Chases, Inserted, Placed, Generating
    <2>3. CASE gen[t].pc \in Placed
      BY <2>1, <2>3 DEF LiveInv, Chases, Inserted, Placed, Generating
    <2>. QED
      BY <2>1, <2>2, <2>3 DEF LiveInv, Critical, Placed, Generating
  <1>. QED
    BY <1>1, InitInv, StepInv, InitRows, StepRows, InitLive, StepLive, PTL DEF Spec

(***************************************************************************)
(* Stops                                                                   *)
(***************************************************************************)
\* What a Stop has hit is over.  What was streaming when it was pressed is over
\* too, or has a row still, and then the Stop does not take it for gone, waits
\* for it, or has said that it does not know.
StopInv(p) ==
    /\ stop[p].pc # "done" => stop[p].answer = "none"
    /\ \A s \in stop[p].hit : Ended(gen[s])
    /\ stop[p].scope \subseteq Own(p)
    /\ \A s \in stop[p].scope :
          \/ Ended(gen[s])
          \/ /\ row[s].status # "none" /\ stop[p].pc # "intend"
             /\ stop[p].pc = "await" => s \in stop[p].waits
             /\ stop[p].pc = "done" =>
                   stop[p].failed = TRUE \/ stop[p].answer \in {"none", "unconfirmed"}

StopsInv == \A p \in Stops : StopInv(p)

\* What every step keeps: sends that are over, and rows that were inserted.
Later ==
    \A s \in Sends : /\ Ended(gen[s]) => Ended(gen'[s])
                     /\ row[s].status # "none" => row'[s].status # "none"

LEMMA LaterStep == TypeInv /\ RowsInv /\ [Next]_vars => Later
  BY GenStep, RowStep DEF TypeInv, Later

LEMMA StopKept ==
    ASSUME TypeOK, Later, NEW p \in Stops, StopInv(p), stop'[p] = stop[p]
    PROVE  StopInv(p)'
  <1>1. stop[p].hit \subseteq Sends /\ stop[p].scope \subseteq Sends
    BY DEF TypeOK, StopType
  <1>. QED
    BY <1>1 DEF Later, StopInv, Own

\* A step of p from a record to the record x.
LEMMA StopMove ==
    ASSUME TypeOK, StopsInv, Later, NEW p \in Stops, NEW x \in StopType,
           stop' = [stop EXCEPT ![p] = x],
           x.pc # "done" => x.answer = "none",
           \A s \in x.hit : Ended(gen'[s]),
           x.scope \subseteq Own(p),
           \A s \in x.scope :
              \/ Ended(gen'[s])
              \/ /\ row[s].status # "none" /\ x.pc # "intend"
                 /\ x.pc = "await" => s \in x.waits
                 /\ x.pc = "done" => x.failed = TRUE \/ x.answer \in {"none", "unconfirmed"}
    PROVE  StopsInv'
  <1>1. stop'[p] = x /\ \A q \in Stops \ {p} : stop'[q] = stop[q]
    BY DEF TypeOK
  <1>2. x.scope \subseteq Sends
    BY DEF StopType
  <1>3. StopInv(p)'
    BY <1>1, <1>2 DEF StopInv, Later, Own
  <1>4. \A q \in Stops \ {p} : StopInv(q)'
    BY <1>1, StopKept DEF StopsInv
  <1>. QED
    BY <1>3, <1>4 DEF StopsInv

\* An answer of p, which has then nothing in scope that is live, or says so.
LEMMA AnswerStep ==
    ASSUME TypeOK, StopsInv, Later, NEW p \in Stops,
           NEW a \in {"aborted", "not_found", "unconfirmed"}, Answer(p, a),
           a = "unconfirmed" \/ \A s \in stop[p].scope : Ended(gen[s])
    PROVE  StopsInv'
  <1>0. stop[p] \in StopType /\ StopInv(p)
    BY DEF TypeOK, StopsInv
  <1>1. PICK x : x = [stop[p] EXCEPT !.pc = "done", !.answer = a, !.sees = {}, !.hit = {}, !.waits = {}]
    OBVIOUS
  <1>2. x \in StopType /\ x.pc = "done" /\ x.answer = a /\ x.hit = {} /\ x.scope = stop[p].scope
    BY <1>0, <1>1 DEF StopType
  <1>3. stop' = [stop EXCEPT ![p] = x]
    BY <1>1 DEF Answer, TypeOK
  <1>4. stop[p].scope \subseteq Own(p) /\ Own(p) \subseteq Sends
    BY <1>0 DEF StopInv, Own
  <1>5. \A s \in stop[p].scope : Ended(gen'[s]) \/ (row[s].status # "none" /\ a = "unconfirmed")
    BY <1>0, <1>4 DEF StopInv, Later
  <1>. QED
    BY <1>2, <1>3, <1>4, <1>5, StopMove

\* Everything in the scope of a Stop that goes on is streaming, and is not cold.
LEMMA ScopeStreams ==
    ASSUME TypeOK, RowsInv, NEW p \in Stops, StopInv(p)
    PROVE  \A s \in stop[p].scope :
              Ended(gen[s]) \/ (s \in Own(p) /\ Streaming(s) /\ ~ row[s].cold)
  BY LiveStreams DEF StopInv, Own

LEMMA MarkStop ==
    ASSUME TypeInv, RowsInv, StopsInv, Later, NEW p \in Stops, MarkConversation(p)
    PROVE  StopsInv'
  <1>0. stop[p] \in StopType /\ StopInv(p) /\ TypeOK /\ stop[p].pc = "mark"
    BY DEF TypeInv, TypeOK, StopsInv, MarkConversation
  <1>1. PICK W \in SUBSET Sends :
           W = {s \in Markable(p) \ stop[p].hit : ~ (Here(p, s) /\ gen[s].tomb)}
    BY DEF Markable, Own
  <1>2. \A s \in stop[p].scope : Ended(gen[s]) \/ (s \in Markable(p) /\ s \in W)
    <2>1. \A s \in Sends : gen[s].tomb => Ended(gen[s])
      BY DEF TypeInv, GensInv, GenInv
    <2>2. stop[p].scope \subseteq Sends
      BY <1>0 DEF StopType
    <2>. QED
      BY <1>0, <1>1, <2>1, <2>2, ScopeStreams DEF Markable, StopInv
  <1>3. ASSUME NEW x \in StopType, stop' = [stop EXCEPT ![p] = x],
               x.scope = stop[p].scope, x.hit = stop[p].hit,
               \/ x.pc = "await" /\ x.waits = W /\ x.answer = stop[p].answer
               \/ x.pc = "intend" /\ Markable(p) = {} /\ x.answer = stop[p].answer
               \/ x.pc = "done" /\ x.failed = TRUE
        PROVE  StopsInv'
    <2>1. stop[p].hit \subseteq Sends /\ stop[p].scope \subseteq Sends /\ stop[p].answer = "none"
      BY <1>0 DEF StopType, StopInv
    <2>2. \A s \in x.hit : Ended(gen'[s])
      BY <1>0, <1>3, <2>1 DEF StopInv, Later
    <2>3. \A s \in x.scope : Ended(gen'[s]) \/ (row[s].status # "none" /\ s \in Markable(p) /\ s \in W)
      BY <1>0, <1>2, <1>3, <2>1 DEF StopInv, Later
    <2>4. x.scope \subseteq Own(p)
      BY <1>0, <1>3 DEF StopInv
    <2>5. \A s \in x.scope :
              \/ Ended(gen'[s])
              \/ /\ row[s].status # "none" /\ x.pc # "intend"
                 /\ x.pc = "await" => s \in x.waits
                 /\ x.pc = "done" => x.failed = TRUE \/ x.answer \in {"none", "unconfirmed"}
      BY <1>3, <2>3
    <2>6. x.pc # "done" => x.answer = "none"
      BY <1>3, <2>1
    <2>. QED
      BY <1>0, <1>3, <2>2, <2>4, <2>5, <2>6, StopMove
  <1>4. CASE stop' = [stop EXCEPT ![p].pc = "await", ![p].waits = W]
    <2>1. PICK x : x = [stop[p] EXCEPT !.pc = "await", !.waits = W]
      OBVIOUS
    <2>2. x \in StopType /\ x.scope = stop[p].scope /\ x.hit = stop[p].hit
          /\ x.pc = "await" /\ x.waits = W /\ x.answer = stop[p].answer
      BY <1>0, <2>1 DEF StopType
    <2>3. stop' = [stop EXCEPT ![p] = x]
      BY <1>0, <1>4, <2>1 DEF TypeOK
    <2>. QED
      BY <1>3, <2>2, <2>3
  <1>5. CASE stop' = [stop EXCEPT ![p].pc = "intend"] /\ Markable(p) = {}
    <2>1. PICK x : x = [stop[p] EXCEPT !.pc = "intend"]
      OBVIOUS
    <2>2. x \in StopType /\ x.scope = stop[p].scope /\ x.hit = stop[p].hit
          /\ x.pc = "intend" /\ x.answer = stop[p].answer
      BY <1>0, <2>1 DEF StopType
    <2>3. stop' = [stop EXCEPT ![p] = x]
      BY <1>0, <1>5, <2>1 DEF TypeOK
    <2>. QED
      BY <1>3, <1>5, <2>2, <2>3
  <1>6. ASSUME NEW a \in {"aborted", "unconfirmed"},
               stop' = [stop EXCEPT ![p].pc = "done", ![p].failed = TRUE, ![p].answer = a]
        PROVE  StopsInv'
    <2>1. PICK x : x = [stop[p] EXCEPT !.pc = "done", !.failed = TRUE, !.answer = a]
      OBVIOUS
    <2>2. x \in StopType /\ x.scope = stop[p].scope /\ x.hit = stop[p].hit
          /\ x.pc = "done" /\ x.failed = TRUE
      BY <1>0, <2>1 DEF StopType
    <2>3. stop' = [stop EXCEPT ![p] = x]
      BY <1>0, <1>6, <2>1 DEF TypeOK
    <2>. QED
      BY <1>3, <2>2, <2>3
  <1>7. ASSUME W = {}, NEW a \in {"aborted", "not_found"}, Answer(p, a) PROVE StopsInv'
    BY <1>0, <1>2, <1>7, AnswerStep
  <1>. QED
    BY <1>1, <1>4, <1>5, <1>6, <1>7 DEF MarkConversation

LEMMA StepStops == TypeInv /\ RowsInv /\ StopsInv /\ [Next]_vars => StopsInv'
  <1>. SUFFICES ASSUME TypeInv, RowsInv, StopsInv, [Next]_vars PROVE StopsInv'
    OBVIOUS
  <1>0. TypeOK /\ GensInv /\ Later /\ \A p \in Stops : stop[p] \in StopType /\ StopInv(p)
    BY LaterStep DEF TypeInv, TypeOK, StopsInv
  <1>1. UNCHANGED stop => StopsInv'
    BY <1>0, StopKept DEF StopsInv
  <1>2. ASSUME NEW p \in Stops, StopNamed(p) PROVE StopsInv'
    <2>1. Own(p) \subseteq Sends
      BY DEF Own
    <2>2. PICK n \in Own(p) \cup {None} :
            \/ /\ n # None /\ gen' = Aborting({n})
               /\ stop' = [stop EXCEPT ![p].pc = "done", ![p].answer = "aborted", ![p].scope = {n}]
            \/ stop' = [stop EXCEPT ![p].pc = "find", ![p].scope = {s \in Own(p) : Streaming(s)}]
      BY <1>2 DEF StopNamed
    <2>3. stop[p].pc = "idle" /\ stop[p].answer = "none" /\ stop[p].hit \subseteq Sends
          /\ \A s \in stop[p].hit : Ended(gen'[s])
      BY <1>0, <1>2 DEF StopNamed, StopInv, StopType, Later
    <2>. HIDE DEF Own
    <2>4. CASE /\ n # None /\ gen' = Aborting({n})
               /\ stop' = [stop EXCEPT ![p].pc = "done", ![p].answer = "aborted", ![p].scope = {n}]
      <3>1. n \in Own(p) /\ n \in Sends /\ Ended(gen'[n])
        BY <1>0, <2>1, <2>2, <2>4, AbortingFacts
      <3>2. PICK x : x = [stop[p] EXCEPT !.pc = "done", !.answer = "aborted", !.scope = {n}]
        OBVIOUS
      <3>3. x \in StopType /\ x.pc = "done" /\ x.scope = {n} /\ x.hit = stop[p].hit
        BY <1>0, <3>1, <3>2 DEF StopType
      <3>4. stop' = [stop EXCEPT ![p] = x]
        BY <1>0, <2>4, <3>2 DEF TypeOK
      <3>. QED
        BY <1>0, <2>3, <3>1, <3>3, <3>4, StopMove
    <2>5. CASE stop' = [stop EXCEPT ![p].pc = "find", ![p].scope = {s \in Own(p) : Streaming(s)}]
      <3>1. PICK S \in SUBSET Sends : S = {s \in Own(p) : Streaming(s)}
        BY <2>1
      <3>2. PICK x : x = [stop[p] EXCEPT !.pc = "find", !.scope = S]
        OBVIOUS
      <3>3. x \in StopType /\ x.pc = "find" /\ x.scope = S /\ x.hit = stop[p].hit
            /\ x.answer = stop[p].answer
        BY <1>0, <3>2 DEF StopType
      <3>4. stop' = [stop EXCEPT ![p] = x]
        BY <1>0, <2>5, <3>1, <3>2 DEF TypeOK
      <3>5. S \subseteq Own(p) /\ \A s \in S : row[s].status # "none"
        BY <3>1 DEF Streaming
      <3>. QED
        BY <1>0, <2>3, <3>3, <3>4, <3>5, StopMove
    <2>. QED
      BY <2>2, <2>4, <2>5
  <1>3. ASSUME NEW p \in Stops, FindConversation(p) \/ AbortConversation(p) PROVE StopsInv'
    <2>0. stop[p].pc \in {"find", "abort"} /\ stop[p].answer = "none"
          /\ stop[p].hit \subseteq Sends /\ \A s \in stop[p].hit : Ended(gen'[s])
      BY <1>0, <1>3 DEF FindConversation, AbortConversation, StopInv, StopType, Later
    <2>1. stop[p].scope \subseteq Own(p) /\ stop[p].scope \subseteq Sends
          /\ \A s \in stop[p].scope : Ended(gen'[s]) \/ row[s].status # "none"
      BY <1>0 DEF StopInv, StopType, Later
    <2>2. ASSUME NEW x \in StopType, stop' = [stop EXCEPT ![p] = x],
                 x.pc \in {"abort", "mark"}, x.scope = stop[p].scope, x.answer = stop[p].answer,
                 \A s \in x.hit : Ended(gen'[s])
          PROVE  StopsInv'
      BY <1>0, <2>0, <2>1, <2>2, StopMove
    <2>3. PICK S \in SUBSET Sends : S = {s \in Own(p) : Streaming(s)}
      BY DEF Own
    <2>4. PICK H \in SUBSET Sends : H = {s \in stop[p].sees : Abortable(p, s)}
      BY <1>0 DEF StopType
    <2>5. CASE stop' = [stop EXCEPT ![p].pc = "abort", ![p].sees = S]
      <3>1. PICK x : x = [stop[p] EXCEPT !.pc = "abort", !.sees = S]
        OBVIOUS
      <3>2. x \in StopType /\ x.pc = "abort" /\ x.scope = stop[p].scope
            /\ x.answer = stop[p].answer /\ x.hit = stop[p].hit
        BY <1>0, <3>1 DEF StopType
      <3>3. stop' = [stop EXCEPT ![p] = x]
        BY <1>0, <2>5, <3>1 DEF TypeOK
      <3>. QED
        BY <2>0, <2>2, <3>2, <3>3
    <2>6. CASE stop' = [stop EXCEPT ![p].pc = "mark"]
      <3>1. PICK x : x = [stop[p] EXCEPT !.pc = "mark"]
        OBVIOUS
      <3>2. x \in StopType /\ x.pc = "mark" /\ x.scope = stop[p].scope
            /\ x.answer = stop[p].answer /\ x.hit = stop[p].hit
        BY <1>0, <3>1 DEF StopType
      <3>3. stop' = [stop EXCEPT ![p] = x]
        BY <1>0, <2>6, <3>1 DEF TypeOK
      <3>. QED
        BY <2>0, <2>2, <3>2, <3>3
    <2>7. CASE /\ stop' = [stop EXCEPT ![p].pc = "mark", ![p].sees = {}, ![p].hit = H]
               /\ gen' = Aborting(H)
      <3>1. PICK x : x = [stop[p] EXCEPT !.pc = "mark", !.sees = {}, !.hit = H]
        OBVIOUS
      <3>2. x \in StopType /\ x.pc = "mark" /\ x.scope = stop[p].scope
            /\ x.answer = stop[p].answer /\ x.hit = H
        BY <1>0, <3>1 DEF StopType
      <3>3. stop' = [stop EXCEPT ![p] = x]
        BY <1>0, <2>7, <3>1 DEF TypeOK
      <3>4. \A s \in H : Ended(gen'[s])
        BY <1>0, <2>7, AbortingFacts
      <3>. QED
        BY <2>2, <3>2, <3>3, <3>4
    <2>. QED
      BY <1>3, <2>3, <2>4, <2>5, <2>6, <2>7 DEF FindConversation, AbortConversation
  <1>4. ASSUME NEW p \in Stops, MarkConversation(p) PROVE StopsInv'
    BY <1>0, <1>4, MarkStop
  <1>5. ASSUME NEW p \in Stops, RecordIntent(p) PROVE StopsInv'
    BY <1>0, <1>5, AnswerStep DEF RecordIntent, StopInv
  <1>6. ASSUME NEW p \in Stops, AwaitConversation(p) PROVE StopsInv'
    <2>1. CASE Answer(p, "unconfirmed")
      BY <1>0, <2>1, AnswerStep
    <2>2. CASE Answer(p, "aborted") /\ Open(stop[p].waits) = {}
      <3>1. \A s \in stop[p].scope : Ended(gen[s])
        BY <1>0, <1>6, <2>2, ScopeStreams DEF StopInv, Open, AwaitConversation
      <3>. QED
        BY <1>0, <2>2, <3>1, AnswerStep
    <2>. QED
      BY <1>6, <2>1, <2>2 DEF AwaitConversation, Verdict
  <1>7. ASSUME NEW i \in Instances, Crash(i) PROVE StopsInv'
    <2>1. ASSUME NEW p \in Stops, stop'[p] = [stop[p] EXCEPT !.pc = "done"] PROVE StopInv(p)'
      <3>1. /\ stop'[p].pc = "done" /\ stop'[p].hit = stop[p].hit
            /\ stop'[p].scope = stop[p].scope /\ stop'[p].failed = stop[p].failed
            /\ stop'[p].answer = stop[p].answer
        BY <1>0, <2>1 DEF StopType
      <3>2. stop[p].hit \subseteq Sends /\ stop[p].scope \subseteq Sends
        BY <1>0 DEF StopType
      <3>. QED
        BY <1>0, <3>1, <3>2 DEF StopInv, Later, Own
    <2>2. \A p \in Stops : stop'[p] \in {stop[p], [stop[p] EXCEPT !.pc = "done"]}
      BY <1>7 DEF Crash
    <2>. QED
      BY <1>0, <2>1, <2>2, StopKept DEF StopsInv
  <1>8. ASSUME NEW s \in Sends, Register(s) \/ Start(s) \/ LoseLock(s) \/ Generate(s)
        PROVE  StopsInv'
    BY <1>1, <1>8 DEF Register, Start, Lock, SelectRows, TakeoverAbort, Wipe, MarkOthers,
       AwaitOthers, Insert, Consume, PreAbort, Place, Attach, LoseLock, Generate, OnAbort,
       End, OnFinish, LandFinish, GoCold
  <1>9. CASE \/ \E i \in Instances : Watch(i)
             \/ \E u \in Users : ExpireIntent(u)
             \/ UNCHANGED vars
    BY <1>1, <1>9 DEF Watch, ReadMarks, ConsumeMarks, ExpireIntent, vars
  <1>. QED
    BY <1>2, <1>3, <1>4, <1>5, <1>6, <1>7, <1>8, <1>9 DEF Next, StopStep

LEMMA InitStops == Init => StopsInv
  BY DEF Init, StopsInv, StopInv

\* A Stop that says 'aborted', or that there was nothing, says the truth of every
\* stream of the caller, on whatever instance it ran (unless its own statements
\* failed, see the README).
THEOREM StopsAreHonest == Spec => []StopIsHonest
  <1>1. TypeInv /\ StopsInv => StopIsHonest
    <2>. SUFFICES ASSUME TypeInv, StopsInv, NEW p \in Stops, ~ stop[p].failed,
                         stop[p].answer \in {"aborted", "not_found"},
                         NEW s \in stop[p].scope
                  PROVE  ~ Generating(s)
      BY DEF StopIsHonest, Silenced
    <2>1. Ended(gen[s])
      BY DEF StopsInv, StopInv
    <2>. QED
      BY <2>1 DEF Ended, Generating
  <1>. QED
    BY <1>1, InitInv, StepInv, InitRows, StepRows, InitStops, StepStops, PTL DEF Spec
=============================================================================
