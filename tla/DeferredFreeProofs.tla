------------------------ MODULE DeferredFreeProofs ------------------------
(***************************************************************************)
(* Theorems about DeferredFree, for every set of requests and of blocks    *)
(* and every value of the bounds: no step on the GPU touches a block that  *)
(* is in the pool or that a connector is filling, and DeferredFree         *)
(* implements SafeReclaim.                                                 *)
(***************************************************************************)
EXTENDS DeferredFree, SequenceTheorems, NaturalsInduction, WellFoundedInduction, TLAPS

Entry == [fence : Nat, blocks : SUBSET Blocks]
FlightStep == [reqs : SUBSET Reqs, uses : SUBSET Blocks]

\* The elements of the FIFO d, whatever their places.
Entries(d) == {d[i] : i \in DOMAIN d}

----------------------------------------------------------------------------
(* The inductive invariant.                                                *)

\* A holder still protects b from step n on: a request that may have written it in
\* step n or later, or an entry whose fence is n or later.
Guarded(o, l, E, b, n) ==
  \/ \E r \in Reqs : b \in o[r] /\ l[r] >= n
  \/ \E e \in E : b \in e.blocks /\ e.fence >= n

\* The i-th step on the GPU has number processed + i.
StepsNumbered == processed + Len(flight) = sched

\* Whatever a step on the GPU uses is guarded by a holder that knows of that step.
UsesGuarded ==
  \A i \in DOMAIN flight : \A b \in flight[i].uses :
    Guarded(own, last, Entries(deferred), b, processed + i)

\* Fences and stamps are numbers of dispatched steps.
FencesDispatched ==
  /\ \A r \in Reqs : last[r] <= sched
  /\ \A e \in Entries(deferred) : e.fence <= sched

\* A block is written by one request at most, which has a reference on it.
OwnersDiffer ==
  /\ \A r \in Reqs : own[r] \subseteq held[r]
  /\ \A r, q \in Reqs : r # q => own[r] \cap own[q] = {}

\* What the step under construction says of its requests and retained blocks.
StepOK ==
  /\ \A r \in step.reqs : status[r] = "RUNNING"
  /\ step.phase # "waiting" => step.retained = {}
  /\ step.retained # {} => step.reqs # {}
  /\ step.phase = "idle" => step = NoStep

\* The connector is, or was, filling blocks of r that no step has used since.
Unscheduled(r) == status[r] \in {"REMOTE", "RECEIVED"} \/ loading[r] # {}

LoadsFresh ==
  \A r \in Reqs :
    /\ Queued(r) => own[r] = {}
    /\ loading[r] \subseteq own[r]
    /\ loading[r] # {} => status[r] \in {"REMOTE", "DELAYED"}
    /\ Unscheduled(r) =>
         /\ own[r] \cap cached = {}
         /\ own[r] \cap step.retained = {}
         /\ \A i \in DOMAIN flight : own[r] \cap flight[i].uses = {}

IInv ==
  /\ TypeOK
  /\ StepsNumbered
  /\ UsesGuarded
  /\ FencesDispatched
  /\ OwnersDiffer
  /\ StepOK
  /\ LoadsFresh

\* What a step on the GPU uses is not in the pool.
InFlightKept ==
  \A i \in DOMAIN flight : flight[i].uses \cap Pool = {}

----------------------------------------------------------------------------
(* Sequences.                                                              *)

LEMMA EntriesAppend ==
  ASSUME NEW S, NEW d \in Seq(S), NEW e \in S
  PROVE  /\ Append(d, e) \in Seq(S)
         /\ Entries(Append(d, e)) = Entries(d) \cup {e}
<1>1. /\ Append(d, e) \in Seq(S)
      /\ Len(Append(d, e)) = Len(d) + 1
      /\ \A i \in 1 .. Len(d) : Append(d, e)[i] = d[i]
      /\ Append(d, e)[Len(d) + 1] = e
  BY AppendProperties
<1>2. /\ Len(d) \in Nat /\ DOMAIN d = 1 .. Len(d)
      /\ DOMAIN Append(d, e) = 1 .. Len(d) + 1
  BY <1>1, LenProperties
<1>3. \A i : i \in 1 .. Len(d) + 1 <=> i \in 1 .. Len(d) \/ i = Len(d) + 1
  BY <1>2
<1> QED  BY <1>1, <1>2, <1>3 DEF Entries

\* A set of numbers has a smallest one.
Below == {ss \in Nat \X Nat : ss[1] < ss[2]}

LEMMA BelowWellFounded == IsWellFoundedOn(Below, Nat)
BY NatLessThanWellFounded, Zenon DEF OpToRel, Below

LEMMA LeastExists ==
  ASSUME NEW T \in SUBSET Nat, T # {}
  PROVE  \E m \in T : \A k \in T : m <= k
<1>1. PICK m \in T : \A k \in T : ~ (<<k, m>> \in Below)
  BY BelowWellFounded, WFMin, Zenon
<1>2. ASSUME NEW k \in T PROVE m <= k
  <2>1. k \in Nat /\ m \in Nat /\ <<k, m>> \notin Below
    BY <1>1
  <2>2. ~(k < m)
    BY <2>1 DEF Below
  <2> QED  BY <2>1, <2>2
<1> QED  BY <1>2

\* Draining keeps every entry that is still pending and invents none; nothing
\* stays when nothing is pending.
LEMMA DrainedEntries ==
  ASSUME NEW d \in Seq(Entry), NEW p \in Nat
  PROVE  /\ Drained(d, p) \in Seq(Entry)
         /\ Entries(Drained(d, p)) \subseteq Entries(d)
         /\ \A e \in Entries(d) : e.fence > p => e \in Entries(Drained(d, p))
         /\ (\A e \in Entries(d) : e.fence <= p) => Drained(d, p) = <<>>
<1> DEFINE Pending == {i \in DOMAIN d : d[i].fence > p}
           First == CHOOSE i \in Pending : \A j \in Pending : i <= j
<1>1. /\ Len(d) \in Nat /\ DOMAIN d = 1 .. Len(d)
      /\ \A i \in 1 .. Len(d) : d[i] \in Entry
      /\ Drained(d, p) = IF Pending = {} THEN <<>> ELSE SubSeq(d, First, Len(d))
  BY LenProperties, ElementOfSeq DEF Drained
<1>2. CASE Pending = {}
  <2>1. Drained(d, p) = <<>> /\ <<>> \in Seq(Entry) /\ Entries(<<>>) = {}
    BY <1>1, <1>2, EmptySeq DEF Entries
  <2>2. \A e \in Entries(d) : ~(e.fence > p)
    BY <1>2 DEF Entries
  <2> QED  BY <2>1, <2>2
<1>3. CASE Pending # {}
  <2>1. Pending \in SUBSET Nat
    BY <1>1
  <2>2. \E m \in Pending : \A k \in Pending : m <= k
    <3> HIDE DEF Pending
    <3> QED  BY <1>3, <2>1, LeastExists
  <2>3. First \in Pending /\ \A j \in Pending : First <= j
    BY <2>2
  <2>4. First \in 1 .. Len(d) /\ d[First].fence > p
    BY <1>1, <2>3
  <2> HIDE DEF First
  <2> DEFINE s == SubSeq(d, First, Len(d))
  <2>5. /\ s \in Seq(Entry) /\ Len(s) = Len(d) - First + 1
        /\ \A i \in 1 .. Len(d) - First + 1 : s[i] = d[First + i - 1]
    <3>1. First \in Int /\ Len(d) \in Int /\ \A i \in First .. Len(d) : d[i] \in Entry
      BY <1>1, <2>4
    <3>2. First <= Len(d)
      BY <1>1, <2>4
    <3> HIDE DEF Entry
    <3> QED  BY <3>1, <3>2, SubSeqProperties
  <2>6. Drained(d, p) = s
    BY <1>1, <1>3
  <2>7. DOMAIN s = 1 .. Len(d) - First + 1
    BY <2>5, LenProperties
  <2> HIDE DEF s
  <2>8. Entries(s) \subseteq Entries(d)
    <3>1. ASSUME NEW i \in 1 .. Len(d) - First + 1
          PROVE  s[i] \in Entries(d)
      <4>1. s[i] = d[First + i - 1] /\ First + i - 1 \in 1 .. Len(d)
        BY <1>1, <2>4, <2>5
      <4> QED  BY <1>1, <4>1 DEF Entries
    <3> QED  BY <2>7, <3>1 DEF Entries
  <2>9. ASSUME NEW e \in Entries(d), e.fence > p
        PROVE  e \in Entries(s)
    <3>1. PICK i \in 1 .. Len(d) : d[i] = e
      BY <1>1 DEF Entries
    <3>2. First <= i
      BY <1>1, <2>3, <2>9, <3>1
    <3>3. i - First + 1 \in 1 .. Len(d) - First + 1 /\ First + (i - First + 1) - 1 = i
      BY <1>1, <2>4, <3>2
    <3>4. s[i - First + 1] = d[i]
      BY <2>5, <3>3
    <3> QED  BY <2>7, <3>1, <3>3, <3>4 DEF Entries
  <2>10. ~(\A e \in Entries(d) : e.fence <= p)
    <3>1. d[First] \in Entries(d) /\ d[First].fence \in Nat
      BY <1>1, <2>4 DEF Entries, Entry
    <3> QED  BY <2>4, <3>1
  <2> QED  BY <2>5, <2>6, <2>8, <2>9, <2>10
<1> QED  BY <1>2, <1>3
\* What FreeBlocks adds to the FIFO, if it adds anything.
LastEntry(rs, p) == [fence |-> sched, blocks |-> UNION {held[r] : r \in Fenced(rs, p)}]

LEMMA FreeBlocksEntries ==
  ASSUME TypeOK, NEW d \in Seq(Entry), NEW rs \in SUBSET Reqs, NEW p \in Nat
  PROVE  /\ FreeBlocks(d, rs, p) \in Seq(Entry)
         /\ Fenced(rs, p) = {} => FreeBlocks(d, rs, p) = d
         /\ Fenced(rs, p) # {} =>
              Entries(FreeBlocks(d, rs, p)) = Entries(d) \cup {LastEntry(rs, p)}
         /\ LastEntry(rs, p) \in Entry
<1>1. Fenced(rs, p) \subseteq Reqs
  BY DEF Fenced
<1>2. LastEntry(rs, p) \in Entry
  BY <1>1 DEF TypeOK, LastEntry, Entry
<1>3. FreeBlocks(d, rs, p) = IF Fenced(rs, p) = {} THEN d ELSE Append(d, LastEntry(rs, p))
  BY DEF FreeBlocks, LastEntry
<1>4. /\ Append(d, LastEntry(rs, p)) \in Seq(Entry)
      /\ Entries(Append(d, LastEntry(rs, p))) = Entries(d) \cup {LastEntry(rs, p)}
  BY <1>2, EntriesAppend
<1> QED  BY <1>2, <1>3, <1>4

\* Freeing the blocks of rs after the answer to step p keeps every block guarded
\* from any later step on, and adds no reference.
LEMMA FreeKeepsGuards ==
  ASSUME TypeOK, OwnersDiffer, NEW d \in Seq(Entry), NEW rs \in SUBSET Reqs,
         NEW p \in Nat, NEW n \in Nat, p < n, n <= sched,
         NEW b, Guarded(own, last, Entries(d), b, n)
  PROVE  Guarded(Dropped(own, rs), last, Entries(FreeBlocks(d, rs, p)), b, n)
<1> DEFINE D == Entries(FreeBlocks(d, rs, p))
<1>0. /\ Fenced(rs, p) = {} => FreeBlocks(d, rs, p) = d
      /\ Fenced(rs, p) # {} =>
              Entries(FreeBlocks(d, rs, p)) = Entries(d) \cup {LastEntry(rs, p)}
  BY FreeBlocksEntries
<1>1. Entries(d) \subseteq D /\ (Fenced(rs, p) # {} => LastEntry(rs, p) \in D)
  BY <1>0
<1> HIDE DEF D
<1>2. CASE \E e \in Entries(d) : b \in e.blocks /\ e.fence >= n
  BY <1>1, <1>2 DEF Guarded, D
<1>3. CASE \E r \in Reqs : b \in own[r] /\ last[r] >= n
  <2>1. PICK r \in Reqs : b \in own[r] /\ last[r] >= n
    BY <1>3
  <2>2. CASE r \notin rs
    BY <2>1, <2>2 DEF Guarded, Dropped
  <2>3. CASE r \in rs
    <3>1. b \in held[r] /\ last[r] > p
      BY <2>1 DEF OwnersDiffer, TypeOK
    <3>2. r \in Fenced(rs, p)
      BY <2>3, <3>1 DEF Fenced
    <3>3. b \in LastEntry(rs, p).blocks /\ LastEntry(rs, p).fence = sched
      BY <3>1, <3>2 DEF LastEntry
    <3>4. LastEntry(rs, p) \in D /\ sched >= n
      BY <1>1, <3>2 DEF TypeOK
    <3> QED  BY <3>3, <3>4 DEF Guarded, D
  <2> QED  BY <2>2, <2>3
<1> QED  BY <1>2, <1>3 DEF Guarded

\* More holders, later stamps and more entries guard at least as much.
LEMMA GuardedMonotonic ==
  ASSUME NEW o, NEW l, NEW E, NEW o2, NEW l2, NEW E2, NEW b, NEW n \in Nat,
         l \in [Reqs -> Nat], l2 \in [Reqs -> Nat],
         \A r \in Reqs : o[r] \subseteq o2[r] /\ l[r] <= l2[r],
         E \subseteq E2,
         Guarded(o, l, E, b, n)
  PROVE  Guarded(o2, l2, E2, b, n)
<1>1. CASE \E e \in E : b \in e.blocks /\ e.fence >= n
  BY <1>1 DEF Guarded
<1>2. CASE \E r \in Reqs : b \in o[r] /\ l[r] >= n
  <2>1. PICK r \in Reqs : b \in o[r] /\ l[r] >= n
    BY <1>2
  <2>2. b \in o2[r] /\ l2[r] >= n
    BY <2>1
  <2> QED  BY <2>2 DEF Guarded
<1> QED  BY <1>1, <1>2 DEF Guarded
----------------------------------------------------------------------------
(* Groups of steps.                                                        *)

\* The invariant keeps whatever a step uses out of the pool.
LEMMA PoolUnused ==
  ASSUME IInv
  PROVE  /\ InFlightKept
         /\ Pool \subseteq Blocks
         /\ Pool \cap step.retained = {}
         /\ \A r \in Reqs : Pool \cap held[r] = {} /\ Pool \cap own[r] = {}
<1>1. /\ Pool \subseteq Blocks
      /\ Pool \cap step.retained = {}
      /\ \A r \in Reqs : Pool \cap held[r] = {}
      /\ \A e \in Entries(deferred) : Pool \cap e.blocks = {}
  <2>1. \A r \in Reqs : held[r] \subseteq Referenced(held, deferred, step)
    BY DEF Referenced
  <2>2. \A i \in DOMAIN deferred : deferred[i].blocks \subseteq Referenced(held, deferred, step)
    BY DEF Referenced
  <2>3. step.retained \subseteq Referenced(held, deferred, step)
    BY DEF Referenced
  <2>4. Pool \subseteq Blocks /\ Pool \cap Referenced(held, deferred, step) = {}
    BY DEF Pool
  <2>5. \A e \in Entries(deferred) : e.blocks \subseteq Referenced(held, deferred, step)
    BY <2>2 DEF Entries
  <2> QED  BY <2>1, <2>3, <2>4, <2>5
<1>2. \A r \in Reqs : Pool \cap own[r] = {}
  BY <1>1 DEF IInv, OwnersDiffer
<1>3. ASSUME NEW i \in DOMAIN flight, NEW b \in flight[i].uses
      PROVE  b \notin Pool
  <2>1. Guarded(own, last, Entries(deferred), b, processed + i)
    BY DEF IInv, UsesGuarded
  <2> QED  BY <1>1, <1>2, <2>1 DEF Guarded
<1> QED  BY <1>1, <1>2, <1>3 DEF InFlightKept

\* The numbers of the steps on the GPU.
LEMMA FlightNumbers ==
  ASSUME IInv, NEW i \in DOMAIN flight
  PROVE  /\ i \in Nat /\ i >= 1 /\ processed + i \in Nat
         /\ processed < processed + i /\ processed + i <= sched
<1>1. Len(flight) \in Nat /\ DOMAIN flight = 1 .. Len(flight)
  BY LenProperties DEF IInv, TypeOK
<1> QED  BY <1>1 DEF IInv, TypeOK, StepsNumbered

\* A request gets blocks of the pool: nobody owns them and no step uses them.
LEMMA AllocateKeeps ==
  ASSUME IInv, NEW r \in Reqs, NEW hit \in SUBSET Blocks, NEW new \in SUBSET Pool,
         Allocate(r, hit, new),
         UNCHANGED <<last, sched, processed, deferred, flight>>
  PROVE  /\ held' \in [Reqs -> SUBSET Blocks] /\ own' \in [Reqs -> SUBSET Blocks]
         /\ StepsNumbered' /\ UsesGuarded' /\ FencesDispatched' /\ OwnersDiffer'
         /\ own'[r] = own[r] \cup new
         /\ \A q \in Reqs : q # r => own'[q] = own[q]
         /\ \A q \in Reqs : new \cap own[q] = {}
         /\ \A i \in DOMAIN flight : new \cap flight[i].uses = {}
         /\ new \cap step.retained = {}
<1>1. /\ InFlightKept
      /\ Pool \subseteq Blocks
      /\ Pool \cap step.retained = {}
      /\ \A q \in Reqs : Pool \cap held[q] = {} /\ Pool \cap own[q] = {}
  BY PoolUnused
<1>2. /\ held' = [held EXCEPT ![r] = @ \cup hit \cup new]
      /\ own' = [own EXCEPT ![r] = @ \cup new]
      /\ held \in [Reqs -> SUBSET Blocks] /\ own \in [Reqs -> SUBSET Blocks]
  BY DEF IInv, TypeOK, Allocate
<1>3. new \subseteq Blocks
  BY <1>1
<1>4. held' \in [Reqs -> SUBSET Blocks] /\ own' \in [Reqs -> SUBSET Blocks]
  BY <1>2, <1>3
<1>5. /\ own'[r] = own[r] \cup new /\ held'[r] = held[r] \cup hit \cup new
      /\ \A q \in Reqs : q # r => own'[q] = own[q] /\ held'[q] = held[q]
  BY <1>2
<1>6. /\ \A q \in Reqs : new \cap own[q] = {}
      /\ \A i \in DOMAIN flight : new \cap flight[i].uses = {}
      /\ new \cap step.retained = {}
  BY <1>1 DEF InFlightKept
<1>7. OwnersDiffer'
  <2>1. \A q \in Reqs : own'[q] \subseteq held'[q]
    BY <1>5 DEF IInv, OwnersDiffer
  <2>2. \A q1, q2 \in Reqs : q1 # q2 => own'[q1] \cap own'[q2] = {}
    BY <1>5, <1>6 DEF IInv, OwnersDiffer
  <2> QED  BY <2>1, <2>2 DEF OwnersDiffer
<1>8. UsesGuarded'
  <2> SUFFICES ASSUME NEW i \in DOMAIN flight, NEW b \in flight[i].uses
               PROVE  Guarded(own', last, Entries(deferred), b, processed + i)
    BY DEF UsesGuarded
  <2>1. Guarded(own, last, Entries(deferred), b, processed + i)
    BY DEF IInv, UsesGuarded
  <2>2. \A q \in Reqs : own[q] \subseteq own'[q]
    BY <1>5
  <2> QED  BY <2>1, <2>2 DEF Guarded
<1>9. StepsNumbered' /\ FencesDispatched'
  BY DEF IInv, StepsNumbered, FencesDispatched
<1> QED  BY <1>4, <1>5, <1>6, <1>7, <1>8, <1>9

\* Requests give their blocks up.
LEMMA FreeKeeps ==
  ASSUME IInv, NEW rs \in SUBSET Reqs,
         deferred' = FreeBlocks(deferred, rs, processed),
         held' = Dropped(held, rs), own' = Dropped(own, rs),
         UNCHANGED <<last, sched, processed, flight>>
  PROVE  /\ held' \in [Reqs -> SUBSET Blocks] /\ own' \in [Reqs -> SUBSET Blocks]
         /\ deferred' \in Seq(Entry)
         /\ StepsNumbered' /\ UsesGuarded' /\ FencesDispatched' /\ OwnersDiffer'
         /\ \A q \in Reqs : own'[q] = IF q \in rs THEN {} ELSE own[q]
<1>1. TypeOK /\ OwnersDiffer /\ deferred \in Seq(Entry) /\ processed \in Nat
  BY DEF IInv, TypeOK, Entry
<1>2. /\ \A q \in Reqs : own'[q] = IF q \in rs THEN {} ELSE own[q]
      /\ \A q \in Reqs : held'[q] = IF q \in rs THEN {} ELSE held[q]
  BY DEF Dropped
<1>3. held' \in [Reqs -> SUBSET Blocks] /\ own' \in [Reqs -> SUBSET Blocks]
  BY <1>1 DEF Dropped, TypeOK
<1>4. /\ deferred' \in Seq(Entry)
      /\ Fenced(rs, processed) = {} => deferred' = deferred
      /\ Fenced(rs, processed) # {} =>
           Entries(deferred') = Entries(deferred) \cup {LastEntry(rs, processed)}
  BY <1>1, FreeBlocksEntries
<1>5. OwnersDiffer'
  BY <1>1, <1>2 DEF OwnersDiffer
<1>6. UsesGuarded'
  <2> SUFFICES ASSUME NEW i \in DOMAIN flight, NEW b \in flight[i].uses
               PROVE  Guarded(own', last, Entries(deferred'), b, processed + i)
    BY DEF UsesGuarded
  <2>1. Guarded(own, last, Entries(deferred), b, processed + i)
    BY DEF IInv, UsesGuarded
  <2>2. processed + i \in Nat /\ processed < processed + i /\ processed + i <= sched
    BY FlightNumbers
  <2> QED  BY <1>1, <2>1, <2>2, FreeKeepsGuards
<1>7. FencesDispatched'
  <2>1. \A e \in Entries(deferred') : e.fence <= sched
    <3>1. LastEntry(rs, processed).fence = sched /\ sched \in Nat
      BY <1>1 DEF LastEntry, TypeOK
    <3> QED  BY <1>4, <3>1 DEF IInv, FencesDispatched
  <2> QED  BY <2>1 DEF IInv, FencesDispatched
<1>8. StepsNumbered'
  BY DEF IInv, StepsNumbered
<1> QED  BY <1>2, <1>3, <1>4, <1>5, <1>6, <1>7, <1>8
----------------------------------------------------------------------------
(* One lemma per action of schedule().                                     *)

StepType == [phase : {"idle", "running", "waiting"}, reqs : SUBSET Reqs,
             retained : SUBSET Blocks, preempted : BOOLEAN]

LEMMA BeginScheduleKeeps == ASSUME IInv, BeginSchedule PROVE IInv'
<1>1. step' = [phase |-> "running", reqs |-> {}, retained |-> {}, preempted |-> FALSE]
  BY DEF BeginSchedule, NoStep
<1>2. UNCHANGED <<status, held, own, last, loading, cached, sched, processed,
                 deferred, flight, reset>>
  BY DEF BeginSchedule
<1>3. TypeOK'
  BY <1>1, <1>2 DEF IInv, TypeOK
<1>4. StepOK'
  BY <1>1 DEF StepOK
<1>5. LoadsFresh'
  BY <1>1, <1>2 DEF IInv, LoadsFresh, Unscheduled, Queued
<1>6. StepsNumbered' /\ UsesGuarded' /\ FencesDispatched' /\ OwnersDiffer'
  BY <1>2 DEF IInv, StepsNumbered, UsesGuarded, FencesDispatched, OwnersDiffer
<1> QED  BY <1>3, <1>4, <1>5, <1>6 DEF IInv

\* A request with blocks from the pool joins the step.
LEMMA JoinKeeps ==
  ASSUME IInv, NEW r \in Reqs, NEW hit \in SUBSET Blocks, NEW from \in SUBSET cached,
         NEW new \in SUBSET Pool,
         new \cap from = {},
         status[r] \in {"WAITING", "PREEMPTED", "PROMOTED", "RUNNING"},
         from # {} => step'.phase = "waiting",
         step.phase # "idle",
         step' \in StepType,
         step'.phase \in {step.phase, "waiting"},
         step'.reqs = step.reqs \cup {r},
         step'.retained = step.retained \cup from,
         status' = [status EXCEPT ![r] = "RUNNING"],
         Allocate(r, hit, new),
         cached' = (cached \ new) \cup own'[r],
         UNCHANGED <<last, loading, sched, processed, deferred, flight, reset>>
  PROVE  IInv'
<1>1. /\ held' \in [Reqs -> SUBSET Blocks] /\ own' \in [Reqs -> SUBSET Blocks]
      /\ StepsNumbered' /\ UsesGuarded' /\ FencesDispatched' /\ OwnersDiffer'
      /\ own'[r] = own[r] \cup new
      /\ \A q \in Reqs : q # r => own'[q] = own[q]
      /\ \A q \in Reqs : new \cap own[q] = {}
  BY AllocateKeeps, ZenonT(60)
<1>2. /\ status'[r] = "RUNNING"
      /\ \A q \in Reqs : q # r => status'[q] = status[q]
      /\ status' \in [Reqs -> Statuses]
  BY DEF IInv, TypeOK, Statuses
<1>3. cached' \in SUBSET Blocks
  BY <1>1 DEF IInv, TypeOK
<1>4. TypeOK'
  <2>1. TypeOK
    BY DEF IInv
  <2> QED  BY <1>1, <1>2, <1>3, <2>1 DEF TypeOK, StepType
<1>5. StepOK'
  <2>1. \A q \in step'.reqs : status'[q] = "RUNNING"
    BY <1>2 DEF IInv, StepOK, TypeOK
  <2>2. step'.phase # "idle" /\ (step'.phase # "waiting" => step'.retained = {})
    BY DEF IInv, StepOK, TypeOK
  <2> QED  BY <2>1, <2>2 DEF StepOK
<1>6. LoadsFresh'
  <2>1. loading[r] = {} /\ ~Unscheduled(r)' /\ ~Queued(r)'
    BY <1>2 DEF IInv, LoadsFresh, Unscheduled, Queued
  <2>2. ASSUME NEW q \in Reqs, q # r
        PROVE  /\ Queued(q)' => own'[q] = {}
               /\ loading[q] \subseteq own'[q]
               /\ loading[q] # {} => status'[q] \in {"REMOTE", "DELAYED"}
               /\ Unscheduled(q)' =>
                    /\ own'[q] \cap cached' = {}
                    /\ own'[q] \cap step'.retained = {}
                    /\ \A i \in DOMAIN flight : own'[q] \cap flight[i].uses = {}
    <3>1. own'[q] = own[q] /\ status'[q] = status[q] /\ own'[q] \cap own'[r] = {}
      BY <1>1, <1>2, <2>2 DEF OwnersDiffer
    <3> QED  BY <3>1 DEF IInv, LoadsFresh, Unscheduled, Queued
  <2> QED  BY <2>1, <2>2 DEF LoadsFresh
<1> QED  BY <1>1, <1>4, <1>5, <1>6 DEF IInv

LEMMA ScheduleRunningKeeps ==
  ASSUME IInv, NEW r \in Reqs, ScheduleRunning(r) PROVE IInv'
<1>1. PICK new \in SUBSET Pool :
        /\ Allocate(r, {}, new)
        /\ cached' = (cached \ new) \cup own'[r]
  BY DEF ScheduleRunning
<1>2. status[r] = "RUNNING" /\ status \in [Reqs -> Statuses] /\ step \in StepType
  BY DEF ScheduleRunning, IInv, TypeOK, StepType
<1>3. status' = [status EXCEPT ![r] = "RUNNING"]
  BY <1>2 DEF ScheduleRunning
<1>4. /\ step.phase = "running"
      /\ step' = [step EXCEPT !.reqs = @ \cup {r}]
  BY DEF ScheduleRunning
<1>5. /\ step' \in StepType /\ step'.phase = step.phase
      /\ step'.reqs = step.reqs \cup {r} /\ step'.retained = step.retained \cup {}
  BY <1>2, <1>4 DEF StepType
<1>6. UNCHANGED <<last, loading, sched, processed, deferred, flight, reset>>
  BY DEF ScheduleRunning
<1> QED  BY <1>1, <1>2, <1>3, <1>4, <1>5, <1>6, JoinKeeps, {} \in SUBSET cached, {} \in SUBSET Blocks

LEMMA AdmitKeeps ==
  ASSUME IInv, NEW r \in Reqs, Admit(r) PROVE IInv'
<1>1. PICK hit \in SUBSET cached, from \in SUBSET cached :
        /\ \E new \in SUBSET (Pool \ (hit \cup from)) :
             /\ Allocate(r, hit, new)
             /\ cached' = (cached \ new) \cup own'[r]
        /\ step' = [step EXCEPT !.phase = "waiting", !.reqs = @ \cup {r},
                               !.retained = @ \cup from]
  BY DEF Admit
<1>2. PICK new \in SUBSET (Pool \ (hit \cup from)) :
        /\ Allocate(r, hit, new)
        /\ cached' = (cached \ new) \cup own'[r]
  BY <1>1
<1>3. /\ status[r] \in {"WAITING", "PREEMPTED"}
      /\ step \in StepType /\ cached \subseteq Blocks /\ step.phase # "idle"
  BY DEF Admit, Queued, InWaitingPass, IInv, TypeOK, StepType
<1>4. /\ step' \in StepType /\ step'.phase = "waiting"
      /\ step'.reqs = step.reqs \cup {r} /\ step'.retained = step.retained \cup from
  BY <1>1, <1>3 DEF StepType
<1>5. /\ status' = [status EXCEPT ![r] = "RUNNING"]
      /\ UNCHANGED <<last, loading, sched, processed, deferred, flight, reset>>
  BY DEF Admit
<1>6. hit \in SUBSET Blocks /\ new \in SUBSET Pool /\ new \cap from = {}
  BY <1>2, <1>3
<1> QED  BY <1>2, <1>3, <1>4, <1>5, <1>6, JoinKeeps

LEMMA AdmitPromotedKeeps ==
  ASSUME IInv, NEW r \in Reqs, AdmitPromoted(r) PROVE IInv'
<1>1. PICK new \in SUBSET Pool :
        /\ Allocate(r, {}, new)
        /\ cached' = (cached \ new) \cup own'[r]
  BY DEF AdmitPromoted
<1>2. status[r] = "PROMOTED" /\ step \in StepType /\ step.phase # "idle"
  BY DEF AdmitPromoted, InWaitingPass, IInv, TypeOK, StepType
<1>3. /\ status' = [status EXCEPT ![r] = "RUNNING"]
      /\ step' = [step EXCEPT !.phase = "waiting", !.reqs = @ \cup {r}]
      /\ UNCHANGED <<last, loading, sched, processed, deferred, flight, reset>>
  BY DEF AdmitPromoted
<1>4. /\ step' \in StepType /\ step'.phase = "waiting"
      /\ step'.reqs = step.reqs \cup {r} /\ step'.retained = step.retained \cup {}
  BY <1>2, <1>3 DEF StepType
<1> QED  BY <1>1, <1>2, <1>3, <1>4, JoinKeeps, {} \in SUBSET cached, {} \in SUBSET Blocks
LEMMA AdmitLoadKeeps ==
  ASSUME IInv, NEW r \in Reqs, AdmitLoad(r) PROVE IInv'
<1>0. PICK hit \in SUBSET cached :
        \E new \in SUBSET (Pool \ hit) :
          /\ Allocate(r, hit, new)
          /\ loading' = [loading EXCEPT ![r] = new]
          /\ cached' = cached \ new
  BY DEF AdmitLoad
<1>1. PICK new \in SUBSET (Pool \ hit) :
        /\ Allocate(r, hit, new)
        /\ loading' = [loading EXCEPT ![r] = new]
        /\ cached' = cached \ new
  BY <1>0
<1>2. /\ status[r] \in {"WAITING", "PREEMPTED"}
      /\ step \in StepType /\ cached \subseteq Blocks /\ step.phase # "idle"
  BY DEF AdmitLoad, Queued, InWaitingPass, IInv, TypeOK, StepType
<1>3. /\ status' = [status EXCEPT ![r] = "REMOTE"]
      /\ step' = [step EXCEPT !.phase = "waiting"]
      /\ UNCHANGED <<last, sched, processed, deferred, flight, reset>>
  BY DEF AdmitLoad
<1>4. hit \in SUBSET Blocks /\ new \in SUBSET Pool
  BY <1>1, <1>2
<1>5. /\ held' \in [Reqs -> SUBSET Blocks] /\ own' \in [Reqs -> SUBSET Blocks]
      /\ StepsNumbered' /\ UsesGuarded' /\ FencesDispatched' /\ OwnersDiffer'
      /\ own'[r] = own[r] \cup new
      /\ \A q \in Reqs : q # r => own'[q] = own[q]
      /\ \A i \in DOMAIN flight : new \cap flight[i].uses = {}
      /\ new \cap step.retained = {}
  BY <1>1, <1>3, <1>4, AllocateKeeps
<1>6. own[r] = {}
  BY <1>2 DEF IInv, LoadsFresh, Queued
<1>7. /\ status'[r] = "REMOTE" /\ loading'[r] = new
      /\ \A q \in Reqs : q # r => status'[q] = status[q] /\ loading'[q] = loading[q]
      /\ status' \in [Reqs -> Statuses] /\ loading' \in [Reqs -> SUBSET Blocks]
  BY <1>1, <1>3, <1>4, PoolUnused DEF IInv, TypeOK, Statuses
<1>8. /\ step' \in StepType /\ step'.phase = "waiting"
      /\ step'.reqs = step.reqs /\ step'.retained = step.retained
  BY <1>2, <1>3 DEF StepType
<1>9. TypeOK'
  BY <1>1, <1>2, <1>3, <1>5, <1>7, <1>8 DEF IInv, TypeOK, StepType
<1>10. StepOK'
  <2>1. \A q \in step.reqs : status[q] = "RUNNING"
    BY DEF IInv, StepOK
  <2> QED  BY <1>2, <1>7, <1>8, <2>1 DEF IInv, StepOK, StepType
<1>11. LoadsFresh'
  <2> SUFFICES ASSUME NEW q \in Reqs
               PROVE  /\ Queued(q)' => own'[q] = {}
                      /\ loading'[q] \subseteq own'[q]
                      /\ loading'[q] # {} => status'[q] \in {"REMOTE", "DELAYED"}
                      /\ Unscheduled(q)' =>
                           /\ own'[q] \cap cached' = {}
                           /\ own'[q] \cap step'.retained = {}
                           /\ \A i \in DOMAIN flight : own'[q] \cap flight[i].uses = {}
    BY <1>3 DEF LoadsFresh
  <2>1. CASE q = r
    BY <1>1, <1>5, <1>6, <1>7, <1>8, <2>1 DEF Queued
  <2>2. CASE q # r
    BY <1>1, <1>5, <1>7, <1>8, <2>2 DEF IInv, LoadsFresh, Unscheduled, Queued
  <2> QED  BY <2>1, <2>2
<1> QED  BY <1>5, <1>9, <1>10, <1>11 DEF IInv

LEMMA PromoteKeeps ==
  ASSUME IInv, NEW r \in Reqs, Promote(r) PROVE IInv'
<1>1. /\ status[r] = "RECEIVED"
      /\ cached' = cached \cup own[r]
      /\ status' = [status EXCEPT ![r] = "PROMOTED"]
      /\ step' = [step EXCEPT !.phase = "waiting"]
      /\ step.phase # "idle"
      /\ UNCHANGED <<held, own, last, loading, sched, processed, deferred, flight, reset>>
  BY DEF Promote, InWaitingPass
<1>2. /\ status'[r] = "PROMOTED" /\ status' \in [Reqs -> Statuses]
      /\ \A q \in Reqs : q # r => status'[q] = status[q]
      /\ cached' \in SUBSET Blocks /\ step \in StepType
  BY <1>1 DEF IInv, TypeOK, Statuses, StepType
<1>3. /\ step' \in StepType /\ step'.phase = "waiting"
      /\ step'.reqs = step.reqs /\ step'.retained = step.retained
  BY <1>1, <1>2 DEF StepType
<1>4. TypeOK'
  BY <1>1, <1>2, <1>3 DEF IInv, TypeOK, StepType
<1>5. StepOK'
  <2>1. \A q \in step.reqs : status[q] = "RUNNING" /\ q \in Reqs
    BY <1>2 DEF IInv, StepOK, StepType
  <2> QED  BY <1>1, <1>2, <1>3, <2>1 DEF IInv, StepOK, StepType
<1>6. LoadsFresh'
  <2>1. loading[r] = {}
    BY <1>1 DEF IInv, LoadsFresh
  <2>2. \A q \in Reqs : q # r => own[q] \cap own[r] = {}
    BY DEF IInv, OwnersDiffer
  <2> QED  BY <1>1, <1>2, <1>3, <2>1, <2>2 DEF IInv, LoadsFresh, Unscheduled, Queued
<1>7. StepsNumbered' /\ UsesGuarded' /\ FencesDispatched' /\ OwnersDiffer'
  BY <1>1 DEF IInv, StepsNumbered, UsesGuarded, FencesDispatched, OwnersDiffer
<1> QED  BY <1>4, <1>5, <1>6, <1>7 DEF IInv

LEMMA PromoteFailedKeeps ==
  ASSUME IInv, NEW r \in Reqs, PromoteFailed(r) PROVE IInv'
<1>1. /\ status[r] = "RECEIVED"
      /\ held' = Dropped(held, {r}) /\ own' = Dropped(own, {r})
      /\ status' = [status EXCEPT ![r] = "WAITING"]
      /\ step' = [step EXCEPT !.phase = "waiting"]
      /\ step.phase # "idle"
      /\ UNCHANGED <<last, loading, cached, sched, processed, deferred, flight, reset>>
  BY DEF PromoteFailed, InWaitingPass
<1>2. /\ status'[r] = "WAITING" /\ status' \in [Reqs -> Statuses]
      /\ \A q \in Reqs : q # r => status'[q] = status[q]
      /\ step \in StepType
  BY <1>1 DEF IInv, TypeOK, Statuses, StepType
<1>3. /\ \A q \in Reqs : q # r => own'[q] = own[q] /\ held'[q] = held[q]
      /\ own'[r] = {} /\ held'[r] = {}
      /\ held' \in [Reqs -> SUBSET Blocks] /\ own' \in [Reqs -> SUBSET Blocks]
  BY <1>1 DEF Dropped, IInv, TypeOK
<1>4. /\ step' \in StepType /\ step'.phase = "waiting"
      /\ step'.reqs = step.reqs /\ step'.retained = step.retained
  BY <1>1, <1>2 DEF StepType
<1>5. TypeOK'
  BY <1>1, <1>2, <1>3, <1>4 DEF IInv, TypeOK, StepType
<1>6. StepOK'
  <2>1. \A q \in step.reqs : status[q] = "RUNNING" /\ q \in Reqs
    BY <1>2 DEF IInv, StepOK, StepType
  <2> QED  BY <1>1, <1>2, <1>4, <2>1 DEF IInv, StepOK, StepType
<1>7. LoadsFresh'
  <2>1. loading[r] = {}
    BY <1>1 DEF IInv, LoadsFresh
  <2>2. LoadsFresh
    BY DEF IInv
  <2>3. loading' = loading /\ cached' = cached /\ flight' = flight
    BY <1>1
  <2>4. own'[r] = {} /\ ~Unscheduled(r)'
    BY <1>2, <1>3, <2>1, <2>3 DEF Unscheduled
  <2>5. \A q \in Reqs : q # r => own'[q] = own[q] /\ status'[q] = status[q]
    BY <1>2, <1>3
  <2> QED  BY <1>4, <2>1, <2>2, <2>3, <2>4, <2>5 DEF LoadsFresh, Unscheduled, Queued
\* No step uses the blocks of r, so nothing it guards is lost.
<1>8. UsesGuarded'
  <2> SUFFICES ASSUME NEW i \in DOMAIN flight, NEW b \in flight[i].uses
               PROVE  Guarded(own', last, Entries(deferred), b, processed + i)
    BY <1>1 DEF UsesGuarded
  <2>1. Guarded(own, last, Entries(deferred), b, processed + i)
    BY DEF IInv, UsesGuarded
  <2>2. b \notin own[r]
    BY <1>1 DEF IInv, LoadsFresh, Unscheduled
  <2> QED  BY <1>3, <2>1, <2>2 DEF Guarded
<1>9. OwnersDiffer'
  BY <1>3 DEF IInv, OwnersDiffer
<1>10. StepsNumbered' /\ FencesDispatched'
  BY <1>1 DEF IInv, StepsNumbered, FencesDispatched
<1> QED  BY <1>5, <1>6, <1>7, <1>8, <1>9, <1>10 DEF IInv

LEMMA PreemptKeeps ==
  ASSUME IInv, NEW r \in Reqs, Preempt(r) PROVE IInv'
<1>1. /\ status[r] = "RUNNING" /\ step.phase = "running"
      /\ deferred' = FreeBlocks(deferred, {r}, processed)
      /\ held' = Dropped(held, {r}) /\ own' = Dropped(own, {r})
      /\ status' = [status EXCEPT ![r] = "PREEMPTED"]
      /\ step' = [step EXCEPT !.reqs = @ \ {r}, !.preempted = TRUE]
      /\ UNCHANGED <<last, loading, cached, sched, processed, flight, reset>>
  BY DEF Preempt
<1>2. /\ held' \in [Reqs -> SUBSET Blocks] /\ own' \in [Reqs -> SUBSET Blocks]
      /\ deferred' \in Seq(Entry)
      /\ StepsNumbered' /\ UsesGuarded' /\ FencesDispatched' /\ OwnersDiffer'
      /\ \A q \in Reqs : own'[q] = IF q \in {r} THEN {} ELSE own[q]
  <2>1. {r} \in SUBSET Reqs
    OBVIOUS
  <2> QED  BY <1>1, <2>1, FreeKeeps
<1>3. /\ status'[r] = "PREEMPTED" /\ status' \in [Reqs -> Statuses]
      /\ \A q \in Reqs : q # r => status'[q] = status[q]
      /\ step \in StepType
  BY <1>1 DEF IInv, TypeOK, Statuses, StepType
<1>4. /\ step' \in StepType /\ step'.phase = "running"
      /\ step'.reqs = step.reqs \ {r} /\ step'.retained = step.retained
  BY <1>1, <1>3 DEF StepType
<1>5. TypeOK'
  BY <1>1, <1>2, <1>3, <1>4 DEF IInv, TypeOK, StepType, Entry
<1>6. StepOK'
  <2>1. \A q \in step.reqs : status[q] = "RUNNING" /\ q \in Reqs
    BY <1>3 DEF IInv, StepOK, StepType
  <2>2. step.retained = {}
    BY <1>1 DEF IInv, StepOK
  <2> QED  BY <1>3, <1>4, <2>1, <2>2 DEF StepOK
<1>7. LoadsFresh'
  <2>1. loading[r] = {}
    BY <1>1 DEF IInv, LoadsFresh
  <2>2. LoadsFresh
    BY DEF IInv
  <2>3. loading' = loading /\ cached' = cached /\ flight' = flight
    BY <1>1
  <2>4. own'[r] = {} /\ ~Unscheduled(r)'
    BY <1>2, <1>3, <2>1, <2>3 DEF Unscheduled
  <2>5. \A q \in Reqs : q # r => own'[q] = own[q] /\ status'[q] = status[q]
    BY <1>2, <1>3
  <2> QED  BY <1>4, <2>1, <2>2, <2>3, <2>4, <2>5 DEF LoadsFresh, Unscheduled, Queued
<1> QED  BY <1>2, <1>5, <1>6, <1>7 DEF IInv
LEMMA DispatchKeeps == ASSUME IInv, Dispatch PROVE IInv'
<1>1. /\ deferred' = Retain(deferred, step.retained)
      /\ step' = [phase |-> "idle", reqs |-> {}, retained |-> {}, preempted |-> FALSE]
      /\ UNCHANGED <<status, held, own, loading, cached, processed, reset>>
  BY DEF Dispatch, NoStep
<1>2. /\ sched \in Nat /\ processed \in Nat /\ deferred \in Seq(Entry)
      /\ flight \in Seq(FlightStep) /\ step \in StepType /\ last \in [Reqs -> Nat]
      /\ own \in [Reqs -> SUBSET Blocks]
  BY DEF IInv, TypeOK, Entry, FlightStep, StepType
<1>3. StepOK'
  BY <1>1 DEF StepOK, NoStep
<1>4. OwnersDiffer'
  BY <1>1 DEF IInv, OwnersDiffer
<1>5. CASE step.reqs = {}
  <2>1. step.retained = {} /\ deferred' = deferred
    BY <1>1, <1>5 DEF IInv, StepOK, Retain
  <2>2. UNCHANGED <<sched, last, flight>>
    BY <1>5 DEF Dispatch
  <2>3. TypeOK'
    BY <1>1, <2>1, <2>2 DEF IInv, TypeOK
  <2>4. LoadsFresh'
    BY <1>1, <2>1, <2>2 DEF IInv, LoadsFresh, Unscheduled, Queued
  <2>5. StepsNumbered' /\ UsesGuarded' /\ FencesDispatched'
    BY <1>1, <2>1, <2>2 DEF IInv, StepsNumbered, UsesGuarded, FencesDispatched
  <2> QED  BY <1>3, <1>4, <2>3, <2>4, <2>5 DEF IInv
<1>6. CASE step.reqs # {}
  <2> DEFINE new == [reqs |-> step.reqs,
                     uses |-> (UNION {own[r] : r \in step.reqs}) \cup step.retained]
             kept == [fence |-> sched + 1, blocks |-> step.retained]
  <2>1. /\ sched' = sched + 1
        /\ last' = [r \in Reqs |-> IF r \in step.reqs THEN sched' ELSE last[r]]
        /\ flight' = Append(flight, new)
    BY <1>6 DEF Dispatch, Stamped
  <2>2. new \in FlightStep /\ new.uses = (UNION {own[r] : r \in step.reqs}) \cup step.retained
    BY <1>2 DEF FlightStep, StepType
  <2>3. kept \in Entry /\ kept.fence = sched + 1 /\ kept.blocks = step.retained
    BY <1>2 DEF Entry, StepType
  <2>4. /\ deferred' \in Seq(Entry)
        /\ Entries(deferred) \subseteq Entries(deferred')
        /\ Entries(deferred') \subseteq Entries(deferred) \cup {kept}
        /\ step.retained # {} => kept \in Entries(deferred')
    <3>1. deferred' = IF step.retained = {} THEN deferred ELSE Append(deferred, kept)
      BY <1>1 DEF Retain
    <3> HIDE DEF kept
    <3>2. /\ Append(deferred, kept) \in Seq(Entry)
          /\ Entries(Append(deferred, kept)) = Entries(deferred) \cup {kept}
      BY <1>2, <2>3, EntriesAppend
    <3> QED  BY <1>2, <3>1, <3>2
  <2>5. /\ flight' \in Seq(FlightStep) /\ Len(flight') = Len(flight) + 1
        /\ \A i \in 1 .. Len(flight) : flight'[i] = flight[i]
        /\ flight'[Len(flight) + 1] = new
        /\ Len(flight) \in Nat /\ DOMAIN flight = 1 .. Len(flight)
        /\ DOMAIN flight' = 1 .. Len(flight) + 1
    <3> HIDE DEF new
    <3>1. /\ flight' \in Seq(FlightStep) /\ Len(flight') = Len(flight) + 1
          /\ \A i \in 1 .. Len(flight) : flight'[i] = flight[i]
          /\ flight'[Len(flight) + 1] = new
      BY <1>2, <2>1, <2>2, AppendProperties
    <3> QED  BY <1>2, <3>1, LenProperties
  <2> HIDE DEF new, kept
  <2>6. /\ last' \in [Reqs -> Nat]
        /\ \A r \in Reqs : last[r] <= last'[r] /\ last'[r] <= sched'
        /\ \A r \in step.reqs : last'[r] = sched'
    BY <1>2, <2>1 DEF IInv, FencesDispatched, StepType
  <2>7. TypeOK'
    BY <1>1, <1>2, <2>1, <2>4, <2>5, <2>6 DEF IInv, TypeOK, Entry, FlightStep
  <2>8. StepsNumbered'
    BY <1>1, <1>2, <2>1, <2>5 DEF IInv, StepsNumbered
  <2>9. FencesDispatched'
    <3>1. \A e \in Entries(deferred') : e.fence <= sched'
      <4>1. ASSUME NEW e \in Entries(deferred) PROVE e.fence <= sched + 1
        <5>1. e.fence <= sched /\ e.fence \in Nat
          <6>1. e \in Entry
            BY <1>2, LenProperties, ElementOfSeq DEF Entries
          <6> QED  BY <6>1 DEF IInv, FencesDispatched, Entry
        <5> QED  BY <1>2, <5>1
      <4> QED  BY <1>2, <2>1, <2>3, <2>4, <4>1
    <3> QED  BY <2>6, <3>1 DEF FencesDispatched
  <2>10. UsesGuarded'
    <3> SUFFICES ASSUME NEW i \in 1 .. Len(flight) + 1, NEW b \in flight'[i].uses
                 PROVE  Guarded(own, last', Entries(deferred'), b, processed + i)
      BY <1>1, <2>5 DEF UsesGuarded
    <3>1. CASE i \in 1 .. Len(flight)
      <4>1. Guarded(own, last, Entries(deferred), b, processed + i)
        BY <2>5, <3>1 DEF IInv, UsesGuarded
      <4>2. processed + i \in Nat
        BY <1>2
      <4> QED  BY <1>2, <2>4, <2>6, <4>1, <4>2, GuardedMonotonic
    <3>2. CASE i = Len(flight) + 1
      <4>1. processed + i = sched' /\ b \in new.uses /\ sched' \in Nat
        <5>1. processed + Len(flight) = sched
          BY DEF IInv, StepsNumbered
        <5>2. processed + i = sched'
          BY <1>2, <2>1, <2>5, <3>2, <5>1
        <5>3. flight'[i] = new
          BY <2>5, <3>2
        <5> QED  BY <1>2, <2>1, <5>2, <5>3
      <4>2. CASE b \in step.retained
        BY <2>1, <2>3, <2>4, <4>1, <4>2 DEF Guarded
      <4>3. CASE \E r \in step.reqs : b \in own[r]
        BY <1>2, <2>6, <4>1, <4>3 DEF Guarded, StepType
      <4> QED  BY <2>2, <4>1, <4>2, <4>3
    <3> QED  BY <2>5, <3>1, <3>2
  <2>11. LoadsFresh'
    <3> SUFFICES ASSUME NEW r \in Reqs, Unscheduled(r)
                 PROVE  own[r] \cap new.uses = {}
      BY <1>1, <2>5 DEF IInv, LoadsFresh, Unscheduled, Queued
    <3>1. own[r] \cap step.retained = {}
      BY DEF IInv, LoadsFresh
    <3>2. r \notin step.reqs
      BY DEF IInv, LoadsFresh, Unscheduled, StepOK
    <3>3. \A q \in step.reqs : own[r] \cap own[q] = {}
      BY <1>2, <3>2 DEF IInv, OwnersDiffer, StepType
    <3> QED  BY <2>2, <3>1, <3>3
  <2> QED  BY <1>3, <1>4, <2>7, <2>8, <2>9, <2>10, <2>11 DEF IInv
<1> QED  BY <1>5, <1>6

----------------------------------------------------------------------------
(* One lemma per action outside schedule().                                *)

\* Between two schedule() calls some requests give their blocks up, and those
\* that do not keep or finish their loads.
LEMMA IdleFreeKeeps ==
  ASSUME IInv, NEW rs \in SUBSET Reqs,
         deferred' = FreeBlocks(deferred, rs, processed),
         held' = Dropped(held, rs), own' = Dropped(own, rs),
         step.phase = "idle",
         UNCHANGED <<last, sched, processed, flight, step>>,
         status' \in [Reqs -> Statuses],
         loading' \in [Reqs -> SUBSET Blocks],
         cached' \subseteq cached, reset' \in {"none", "ok", "refused"},
         \A q \in rs : loading'[q] = {} /\ status'[q] \notin {"REMOTE", "RECEIVED"},
         \A q \in Reqs \ rs :
           /\ loading'[q] \subseteq loading[q]
           /\ loading'[q] # {} => status'[q] \in {"REMOTE", "DELAYED"}
           /\ Unscheduled(q)' => Unscheduled(q)
           /\ Queued(q)' => Queued(q)
  PROVE  IInv'
<1>1. /\ held' \in [Reqs -> SUBSET Blocks] /\ own' \in [Reqs -> SUBSET Blocks]
      /\ deferred' \in Seq(Entry)
      /\ StepsNumbered' /\ UsesGuarded' /\ FencesDispatched' /\ OwnersDiffer'
      /\ \A q \in Reqs : own'[q] = IF q \in rs THEN {} ELSE own[q]
  BY FreeKeeps
<1>2. TypeOK'
  BY <1>1 DEF IInv, TypeOK, Entry
<1>3. StepOK'
  BY DEF IInv, StepOK, NoStep
<1>4. LoadsFresh'
  <2> SUFFICES ASSUME NEW q \in Reqs
               PROVE  /\ Queued(q)' => own'[q] = {}
                      /\ loading'[q] \subseteq own'[q]
                      /\ loading'[q] # {} => status'[q] \in {"REMOTE", "DELAYED"}
                      /\ Unscheduled(q)' =>
                           /\ own'[q] \cap cached' = {}
                           /\ own'[q] \cap step.retained = {}
                           /\ \A i \in DOMAIN flight : own'[q] \cap flight[i].uses = {}
    BY DEF LoadsFresh
  <2>1. CASE q \in rs
    BY <1>1, <2>1
  <2>2. CASE q \notin rs
    <3>1. own'[q] = own[q]
      BY <1>1, <2>2
    <3>2. /\ loading'[q] \subseteq loading[q]
          /\ loading'[q] # {} => status'[q] \in {"REMOTE", "DELAYED"}
          /\ Unscheduled(q)' => Unscheduled(q)
          /\ Queued(q)' => Queued(q)
      BY <2>2
    <3> QED  BY <3>1, <3>2 DEF IInv, LoadsFresh
  <2> QED  BY <2>1, <2>2
<1> QED  BY <1>1, <1>2, <1>3, <1>4 DEF IInv
LEMMA LoadDoneKeeps ==
  ASSUME IInv, NEW r \in Reqs, LoadDone(r) PROVE IInv'
<1>1. /\ step.phase = "idle" /\ loading[r] # {}
      /\ loading' = [loading EXCEPT ![r] = {}]
      /\ UNCHANGED <<last, cached, sched, processed, flight, step, reset>>
  BY DEF LoadDone
<1>2. /\ loading' \in [Reqs -> SUBSET Blocks] /\ loading'[r] = {}
      /\ \A q \in Reqs : q # r => loading'[q] = loading[q]
      /\ cached' \subseteq cached /\ reset' \in {"none", "ok", "refused"}
  BY <1>1 DEF IInv, TypeOK
<1>3. CASE status[r] = "REMOTE"
  <2>1. /\ status' = [status EXCEPT ![r] = "RECEIVED"]
        /\ UNCHANGED <<held, own, deferred>>
    BY <1>3 DEF LoadDone
  <2>2. /\ status' \in [Reqs -> Statuses] /\ status'[r] = "RECEIVED"
        /\ \A q \in Reqs : q # r => status'[q] = status[q]
    BY <2>1 DEF IInv, TypeOK, Statuses
  <2>3. deferred' = FreeBlocks(deferred, {}, processed)
    BY <2>1 DEF FreeBlocks, Fenced
  <2>4. held' = Dropped(held, {}) /\ own' = Dropped(own, {})
    BY <2>1 DEF Dropped, IInv, TypeOK
  <2>5. ASSUME NEW q \in Reqs \ {}
        PROVE  /\ loading'[q] \subseteq loading[q]
               /\ loading'[q] # {} => status'[q] \in {"REMOTE", "DELAYED"}
               /\ Unscheduled(q)' => Unscheduled(q)
               /\ Queued(q)' => Queued(q)
    BY <1>2, <1>3, <2>2 DEF IInv, LoadsFresh, Unscheduled, Queued
  <2>6. {} \in SUBSET Reqs /\ \A q \in {} : loading'[q] = {} /\ status'[q] \notin {"REMOTE", "RECEIVED"}
    OBVIOUS
  <2> QED  BY <1>1, <1>2, <2>2, <2>3, <2>4, <2>5, <2>6, IdleFreeKeeps
<1>4. CASE status[r] = "DELAYED"
  <2>1. /\ status' = [status EXCEPT ![r] = "FINISHED"]
        /\ deferred' = FreeBlocks(deferred, {r}, processed)
        /\ held' = Dropped(held, {r}) /\ own' = Dropped(own, {r})
    BY <1>4 DEF LoadDone
  <2>2. /\ status' \in [Reqs -> Statuses] /\ status'[r] = "FINISHED"
        /\ \A q \in Reqs : q # r => status'[q] = status[q]
    BY <2>1 DEF IInv, TypeOK, Statuses
  <2>3. ASSUME NEW q \in Reqs \ {r}
        PROVE  /\ loading'[q] \subseteq loading[q]
               /\ loading'[q] # {} => status'[q] \in {"REMOTE", "DELAYED"}
               /\ Unscheduled(q)' => Unscheduled(q)
               /\ Queued(q)' => Queued(q)
    BY <1>2, <2>2 DEF IInv, LoadsFresh, Unscheduled, Queued
  <2>4. {r} \in SUBSET Reqs /\ \A q \in {r} : loading'[q] = {} /\ status'[q] \notin {"REMOTE", "RECEIVED"}
    BY <1>2, <2>2
  <2> QED  BY <1>1, <1>2, <2>1, <2>2, <2>3, <2>4, IdleFreeKeeps
<1> QED  BY <1>3, <1>4 DEF LoadDone

LEMMA StoreDoneKeeps ==
  ASSUME IInv, NEW r \in Reqs, StoreDone(r) PROVE IInv'
<1>1. /\ step.phase = "idle" /\ loading[r] = {}
      /\ status' = [status EXCEPT ![r] = "FINISHED"]
      /\ deferred' = FreeBlocks(deferred, {r}, processed)
      /\ held' = Dropped(held, {r}) /\ own' = Dropped(own, {r})
      /\ UNCHANGED <<last, loading, cached, sched, processed, flight, step, reset>>
  BY DEF StoreDone
<1>2. /\ status' \in [Reqs -> Statuses] /\ status'[r] = "FINISHED"
      /\ \A q \in Reqs : q # r => status'[q] = status[q]
      /\ loading' \in [Reqs -> SUBSET Blocks]
      /\ cached' \subseteq cached /\ reset' \in {"none", "ok", "refused"}
  BY <1>1 DEF IInv, TypeOK, Statuses
<1>3. ASSUME NEW q \in Reqs \ {r}
      PROVE  /\ loading'[q] \subseteq loading[q]
             /\ loading'[q] # {} => status'[q] \in {"REMOTE", "DELAYED"}
             /\ Unscheduled(q)' => Unscheduled(q)
             /\ Queued(q)' => Queued(q)
  BY <1>1, <1>2 DEF IInv, LoadsFresh, Unscheduled, Queued
<1>4. {r} \in SUBSET Reqs /\ \A q \in {r} : loading'[q] = {} /\ status'[q] \notin {"REMOTE", "RECEIVED"}
  BY <1>1, <1>2
<1> QED  BY <1>1, <1>2, <1>3, <1>4, IdleFreeKeeps

LEMMA AbortKeeps ==
  ASSUME IInv, NEW r \in Reqs, Abort(r) PROVE IInv'
<1>1. PICK kept \in BOOLEAN :
       /\ status[r] = "REMOTE" => kept
       /\ IF kept
          THEN UNCHANGED <<held, own, deferred>>
          ELSE /\ deferred' = FreeBlocks(deferred, {r}, processed)
               /\ held' = Dropped(held, {r})
               /\ own' = Dropped(own, {r})
       /\ status' = [status EXCEPT ![r] = IF kept THEN "DELAYED" ELSE "FINISHED"]
  BY DEF Abort
<1>2. /\ step.phase = "idle" /\ status[r] \notin {"DELAYED", "FINISHED"}
      /\ UNCHANGED <<last, loading, cached, sched, processed, flight, step, reset>>
  BY DEF Abort
<1>3. /\ status' \in [Reqs -> Statuses] /\ status'[r] \in {"DELAYED", "FINISHED"}
      /\ kept => status'[r] = "DELAYED"
      /\ \A q \in Reqs : q # r => status'[q] = status[q]
      /\ loading' \in [Reqs -> SUBSET Blocks]
      /\ cached' \subseteq cached /\ reset' \in {"none", "ok", "refused"}
  BY <1>1, <1>2 DEF IInv, TypeOK, Statuses
<1>4. ASSUME NEW q \in Reqs \ {r}
      PROVE  /\ loading'[q] \subseteq loading[q]
             /\ loading'[q] # {} => status'[q] \in {"REMOTE", "DELAYED"}
             /\ Unscheduled(q)' => Unscheduled(q)
             /\ Queued(q)' => Queued(q)
  BY <1>2, <1>3 DEF IInv, LoadsFresh, Unscheduled, Queued
<1>5. CASE kept
  <2>1. deferred' = FreeBlocks(deferred, {}, processed)
    BY <1>1, <1>5 DEF FreeBlocks, Fenced
  <2>2. held' = Dropped(held, {}) /\ own' = Dropped(own, {})
    BY <1>1, <1>5 DEF Dropped, IInv, TypeOK
  <2>3. ASSUME NEW q \in Reqs \ {}
        PROVE  /\ loading'[q] \subseteq loading[q]
               /\ loading'[q] # {} => status'[q] \in {"REMOTE", "DELAYED"}
               /\ Unscheduled(q)' => Unscheduled(q)
               /\ Queued(q)' => Queued(q)
    <3>1. CASE q = r
      BY <1>2, <1>3, <1>5, <3>1 DEF Unscheduled, Queued
    <3>2. CASE q # r
      BY <1>4, <3>2
    <3> QED  BY <3>1, <3>2
  <2>4. {} \in SUBSET Reqs /\ \A q \in {} : loading'[q] = {} /\ status'[q] \notin {"REMOTE", "RECEIVED"}
    OBVIOUS
  <2> QED  BY <1>2, <1>3, <2>1, <2>2, <2>3, <2>4, IdleFreeKeeps
<1>6. CASE ~kept
  <2>1. loading[r] = {}
    BY <1>1, <1>2, <1>6 DEF IInv, LoadsFresh
  <2>2. {r} \in SUBSET Reqs /\ \A q \in {r} : loading'[q] = {} /\ status'[q] \notin {"REMOTE", "RECEIVED"}
    BY <1>2, <1>3, <2>1
  <2> QED  BY <1>1, <1>2, <1>3, <1>4, <1>6, <2>2, IdleFreeKeeps
<1> QED  BY <1>5, <1>6

LEMMA ResetPrefixCacheKeeps ==
  ASSUME IInv, ResetPrefixCache PROVE IInv'
<1> DEFINE hit == {r \in Reqs : status[r] = "RUNNING"}
<1>1. /\ step.phase = "idle"
      /\ deferred' = FreeBlocks(deferred, hit, processed)
      /\ held' = Dropped(held, hit) /\ own' = Dropped(own, hit)
      /\ status' = [r \in Reqs |-> IF r \in hit THEN "PREEMPTED" ELSE status[r]]
      /\ UNCHANGED <<last, loading, sched, processed, flight, step>>
      /\ cached' \subseteq cached /\ reset' \in {"none", "ok", "refused"}
  BY DEF ResetPrefixCache
<1>2. hit \in SUBSET Reqs /\ \A r \in hit : status[r] = "RUNNING"
  OBVIOUS
<1> HIDE DEF hit
<1>3. /\ status' \in [Reqs -> Statuses] /\ loading' \in [Reqs -> SUBSET Blocks]
      /\ \A r \in Reqs : status'[r] = IF r \in hit THEN "PREEMPTED" ELSE status[r]
  BY <1>1 DEF IInv, TypeOK, Statuses
<1>4. \A q \in hit : loading'[q] = {} /\ status'[q] \notin {"REMOTE", "RECEIVED"}
  BY <1>1, <1>2, <1>3 DEF IInv, LoadsFresh
<1>5. ASSUME NEW q \in Reqs \ hit
      PROVE  /\ loading'[q] \subseteq loading[q]
             /\ loading'[q] # {} => status'[q] \in {"REMOTE", "DELAYED"}
             /\ Unscheduled(q)' => Unscheduled(q)
             /\ Queued(q)' => Queued(q)
  BY <1>1, <1>3 DEF IInv, LoadsFresh, Unscheduled, Queued
<1> QED  BY <1>1, <1>2, <1>3, <1>4, <1>5, IdleFreeKeeps
LEMMA UpdateKeeps == ASSUME IInv, Update PROVE IInv'
<1>1. PICK stop \in SUBSET {r \in Head(flight).reqs : status[r] \in {"RUNNING", "PREEMPTED"}} :
        \E kept \in SUBSET stop :
          /\ deferred' = FreeBlocks(Drained(deferred, processed'), stop \ kept, processed')
          /\ held' = Dropped(held, stop \ kept)
          /\ own' = Dropped(own, stop \ kept)
          /\ status' = [r \in Reqs |-> IF r \in kept THEN "DELAYED"
                                       ELSE IF r \in stop THEN "FINISHED"
                                       ELSE status[r]]
  BY DEF Update
<1>2. PICK kept \in SUBSET stop :
          /\ deferred' = FreeBlocks(Drained(deferred, processed'), stop \ kept, processed')
          /\ held' = Dropped(held, stop \ kept)
          /\ own' = Dropped(own, stop \ kept)
          /\ status' = [r \in Reqs |-> IF r \in kept THEN "DELAYED"
                                       ELSE IF r \in stop THEN "FINISHED"
                                       ELSE status[r]]
  BY <1>1
<1>3. /\ step.phase = "idle" /\ flight # <<>> /\ flight' = Tail(flight)
      /\ processed' = processed + 1
      /\ UNCHANGED <<last, loading, cached, sched, step, reset>>
  BY DEF Update
<1>4. /\ TypeOK /\ OwnersDiffer /\ sched \in Nat /\ processed \in Nat
      /\ deferred \in Seq(Entry) /\ flight \in Seq(FlightStep)
  BY DEF IInv, TypeOK, Entry, FlightStep
<1>5. /\ flight' \in Seq(FlightStep) /\ Len(flight') = Len(flight) - 1
      /\ \A i \in 1 .. Len(flight') : flight'[i] = flight[i + 1]
      /\ Head(flight) \in FlightStep
  BY <1>3, <1>4, HeadTailProperties
<1>6. /\ Len(flight) \in Nat /\ DOMAIN flight = 1 .. Len(flight)
      /\ DOMAIN flight' = 1 .. Len(flight) - 1
  BY <1>4, <1>5, LenProperties
<1> DEFINE rs == stop \ kept
           d == Drained(deferred, processed')
<1>7. rs \in SUBSET Reqs /\ stop \subseteq Reqs
  BY <1>1, <1>5 DEF FlightStep
<1>8. \A r \in stop : status[r] \in {"RUNNING", "PREEMPTED"}
  BY <1>1
<1>9. /\ d \in Seq(Entry) /\ Entries(d) \subseteq Entries(deferred)
      /\ \A e \in Entries(deferred) : e.fence > processed' => e \in Entries(d)
      /\ processed' \in Nat
  <2>1. processed' \in Nat
    BY <1>3, <1>4
  <2> QED  BY <1>4, <2>1, DrainedEntries
<1>10. /\ deferred' = FreeBlocks(d, rs, processed')
       /\ held' = Dropped(held, rs) /\ own' = Dropped(own, rs)
  BY <1>2
<1>11. /\ status' \in [Reqs -> Statuses]
       /\ \A r \in stop : status'[r] \in {"DELAYED", "FINISHED"}
       /\ \A r \in Reqs \ stop : status'[r] = status[r]
  BY <1>2, <1>4, <1>7 DEF TypeOK, Statuses
<1> HIDE DEF rs, d
<1>12. /\ \A q \in Reqs : own'[q] = IF q \in rs THEN {} ELSE own[q]
       /\ \A q \in Reqs : held'[q] = IF q \in rs THEN {} ELSE held[q]
       /\ held' \in [Reqs -> SUBSET Blocks] /\ own' \in [Reqs -> SUBSET Blocks]
  BY <1>4, <1>10 DEF Dropped, TypeOK
<1>13. /\ deferred' \in Seq(Entry)
       /\ Fenced(rs, processed') = {} => deferred' = d
       /\ Fenced(rs, processed') # {} =>
            Entries(deferred') = Entries(d) \cup {LastEntry(rs, processed')}
  BY <1>4, <1>7, <1>9, <1>10, FreeBlocksEntries
<1>14. TypeOK'
  BY <1>3, <1>4, <1>5, <1>9, <1>11, <1>12, <1>13 DEF TypeOK, Entry, FlightStep
<1>15. StepsNumbered'
  BY <1>3, <1>4, <1>5, <1>6, SMTT(40) DEF IInv, StepsNumbered
<1>16. UsesGuarded'
  <2> SUFFICES ASSUME NEW i \in 1 .. Len(flight) - 1, NEW b \in flight'[i].uses
               PROVE  Guarded(own', last, Entries(deferred'), b, processed' + i)
    BY <1>3, <1>6 DEF UsesGuarded
  <2>1. i + 1 \in DOMAIN flight /\ flight'[i] = flight[i + 1] /\ i \in Nat /\ i >= 1
    BY <1>5, <1>6
  <2>2. Guarded(own, last, Entries(deferred), b, processed + (i + 1))
    BY <2>1 DEF IInv, UsesGuarded
  <2>3. processed' + i = processed + (i + 1) /\ processed' + i \in Nat
    BY <1>3, <1>4, <2>1
  <2>4. processed' < processed' + i /\ processed' + i <= sched
    BY <1>3, <1>4, <1>6, <2>1 DEF IInv, StepsNumbered
  <2>5. Guarded(own, last, Entries(d), b, processed' + i)
    <3>1. CASE \E r \in Reqs : b \in own[r] /\ last[r] >= processed' + i
      BY <3>1 DEF Guarded
    <3>2. CASE \E e \in Entries(deferred) : b \in e.blocks /\ e.fence >= processed' + i
      <4>1. PICK e \in Entries(deferred) : b \in e.blocks /\ e.fence >= processed' + i
        BY <3>2
      <4>2. e.fence \in Nat
        <5>1. e \in Entry
          BY <1>4, LenProperties, ElementOfSeq DEF Entries
        <5> QED  BY <5>1 DEF Entry
      <4>3. e.fence > processed'
        BY <1>9, <2>3, <2>4, <4>1, <4>2
      <4> QED  BY <1>9, <4>1, <4>3 DEF Guarded
    <3> QED  BY <2>2, <2>3, <3>1, <3>2 DEF Guarded
  <2> QED  BY <1>4, <1>7, <1>9, <1>10, <2>3, <2>4, <2>5, FreeKeepsGuards
<1>17. FencesDispatched'
  <2>1. LastEntry(rs, processed').fence = sched /\ sched <= sched
    BY <1>4 DEF LastEntry
  <2>2. \A e \in Entries(deferred) : e.fence <= sched
    BY DEF IInv, FencesDispatched
  <2>3. \A e \in Entries(deferred') : e.fence <= sched
    BY <1>9, <1>13, <2>1, <2>2
  <2> QED  BY <1>3, <2>3 DEF IInv, FencesDispatched
<1>18. OwnersDiffer'
  BY <1>4, <1>12 DEF OwnersDiffer
<1>19. StepOK'
  BY <1>3 DEF IInv, StepOK, NoStep
<1>20. LoadsFresh'
  <2> SUFFICES ASSUME NEW q \in Reqs
               PROVE  /\ Queued(q)' => own'[q] = {}
                      /\ loading[q] \subseteq own'[q]
                      /\ loading[q] # {} => status'[q] \in {"REMOTE", "DELAYED"}
                      /\ Unscheduled(q)' =>
                           /\ own'[q] \cap cached = {}
                           /\ own'[q] \cap step.retained = {}
                           /\ \A i \in DOMAIN flight' : own'[q] \cap flight'[i].uses = {}
    BY <1>3 DEF LoadsFresh
  <2>1. CASE q \in stop
    <3>1. loading[q] = {}
      BY <1>8, <2>1 DEF IInv, LoadsFresh
    <3> QED  BY <1>3, <1>11, <2>1, <3>1 DEF Unscheduled, Queued
  <2>2. CASE q \notin stop
    <3>1. own'[q] = own[q] /\ status'[q] = status[q]
      BY <1>11, <1>12, <2>2 DEF rs
    <3>2. \A i \in DOMAIN flight' : i + 1 \in DOMAIN flight /\ flight'[i] = flight[i + 1]
      BY <1>5, <1>6
    <3> QED  BY <1>3, <3>1, <3>2 DEF IInv, LoadsFresh, Unscheduled, Queued
  <2> QED  BY <2>1, <2>2
<1> QED  BY <1>14, <1>15, <1>16, <1>17, <1>18, <1>19, <1>20 DEF IInv

----------------------------------------------------------------------------
(* The theorems.                                                           *)

LEMMA InitIInv == ASSUME Init PROVE IInv
<1>1. <<>> \in Seq(Entry) /\ <<>> \in Seq(FlightStep) /\ Len(<<>>) = 0 /\ DOMAIN <<>> = {}
      /\ Entries(<<>>) = {}
  BY EmptySeq DEF Entries
<1>2. TypeOK
  BY <1>1 DEF Init, TypeOK, NoStep, Statuses, Entry, FlightStep
<1>3. StepOK
  BY DEF Init, StepOK, NoStep
<1>4. LoadsFresh
  BY <1>1 DEF Init, LoadsFresh, Unscheduled, Queued
<1>5. StepsNumbered /\ UsesGuarded /\ FencesDispatched /\ OwnersDiffer
  BY <1>1 DEF Init, StepsNumbered, UsesGuarded, FencesDispatched, OwnersDiffer
<1> QED  BY <1>2, <1>3, <1>4, <1>5 DEF IInv

LEMMA NextKeeps == ASSUME IInv, [Next]_vars PROVE IInv'
<1>1. CASE BeginSchedule
  BY <1>1, BeginScheduleKeeps
<1>2. CASE Dispatch
  BY <1>2, DispatchKeeps
<1>3. CASE Update
  BY <1>3, UpdateKeeps
<1>4. CASE ResetPrefixCache
  BY <1>4, ResetPrefixCacheKeeps
<1>5. ASSUME NEW r \in Reqs,
             \/ ScheduleRunning(r) \/ Preempt(r)
             \/ Admit(r) \/ AdmitLoad(r)
             \/ Promote(r) \/ PromoteFailed(r) \/ AdmitPromoted(r)
             \/ LoadDone(r) \/ StoreDone(r) \/ Abort(r)
      PROVE  IInv'
  BY <1>5, ScheduleRunningKeeps, PreemptKeeps, AdmitKeeps, AdmitLoadKeeps, PromoteKeeps,
     PromoteFailedKeeps, AdmitPromotedKeeps, LoadDoneKeeps, StoreDoneKeeps, AbortKeeps
<1>6. CASE UNCHANGED vars
  BY <1>6 DEF vars, IInv, TypeOK, StepsNumbered, UsesGuarded, FencesDispatched,
              OwnersDiffer, StepOK, LoadsFresh, Unscheduled, Queued
<1> QED  BY <1>1, <1>2, <1>3, <1>4, <1>5, <1>6 DEF Next

\* Every reachable state satisfies the inductive invariant: whatever a step on the
\* GPU uses is guarded by a holder that knows of that step.
THEOREM Inductive == Spec => []IInv
<1>1. Init => IInv
  BY InitIInv
<1>2. IInv /\ [Next]_vars => IInv'
  BY NextKeeps
<1> QED  BY <1>1, <1>2, PTL DEF Spec

\* Every variable keeps its type.
THEOREM TypeCorrect == Spec => []TypeOK
<1>1. IInv => TypeOK
  BY DEF IInv
<1> QED  BY <1>1, Inductive, PTL

\* No block that a step on the GPU still uses is ever in the pool.
THEOREM InFlightNeverPooled == Spec => []InFlightKept
<1>1. IInv => InFlightKept
  BY PoolUnused
<1> QED  BY <1>1, Inductive, PTL

\* A connector's load, which the GPU's order does not cover, never meets a step
\* that writes or copies from the same block.
THEOREM LoadsNeverDisturbed == Spec => []LoadsUndisturbed
<1>1. IInv => LoadsUndisturbed
  <2> SUFFICES ASSUME IInv, NEW i \in DOMAIN flight, NEW r \in Reqs
               PROVE  flight[i].uses \cap loading[r] = {}
    BY DEF LoadsUndisturbed
  <2>1. CASE loading[r] = {}
    BY <2>1
  <2>2. CASE loading[r] # {}
    BY <2>2 DEF IInv, LoadsFresh, Unscheduled
  <2> QED  BY <2>1, <2>2
<1> QED  BY <1>1, Inductive, PTL

\* With nothing on the GPU every stamp has been answered, so nothing is fenced.
LEMMA QuietFree ==
  ASSUME IInv, NothingStranded, flight = <<>>, NEW rs \in SUBSET Reqs
  PROVE  FreeBlocks(deferred, rs, processed) = <<>>
<1>1. processed = sched
  BY EmptySeq DEF IInv, TypeOK, StepsNumbered
<1>2. \A r \in Reqs : ~(last[r] > processed)
  BY <1>1 DEF IInv, TypeOK, FencesDispatched
<1>3. Fenced(rs, processed) = {}
  BY <1>2 DEF Fenced
<1> QED  BY <1>3 DEF FreeBlocks, NothingStranded

\* When nothing is on the GPU no block is left behind a fence.
THEOREM NeverStranded == Spec => []NothingStranded
<1>1. Init => NothingStranded
  BY DEF Init, NothingStranded
<1>2. ASSUME IInv, NothingStranded, [Next]_vars PROVE NothingStranded'
  <2> SUFFICES ASSUME flight' = <<>> PROVE deferred' = <<>>
    BY DEF NothingStranded
  <2>1. CASE UNCHANGED <<deferred, flight>>
    BY <1>2, <2>1 DEF NothingStranded
  <2>2. ASSUME NEW rs \in SUBSET Reqs, deferred' = FreeBlocks(deferred, rs, processed),
               flight' = flight
        PROVE  deferred' = <<>>
    BY <1>2, <2>2, QuietFree
  <2>3. CASE Dispatch
    <3>1. CASE step.reqs = {}
      BY <1>2, <2>3, <3>1 DEF Dispatch, Retain, IInv, StepOK, NothingStranded
    <3>2. CASE step.reqs # {}
      <4>1. PICK e \in FlightStep : flight' = Append(flight, e)
        BY <1>2, <2>3, <3>2 DEF Dispatch, FlightStep, IInv, TypeOK
      <4>2. flight \in Seq(FlightStep)
        BY <1>2 DEF IInv, TypeOK, FlightStep
      <4>3. Append(flight, e) # <<>>
        BY <4>2, AppendProperties
      <4> QED  BY <4>1, <4>3
    <3> QED  BY <3>1, <3>2
  <2>4. CASE Update
    <3>1. IInv'
      BY <1>2, NextKeeps
    <3>2. PICK rs : deferred' = FreeBlocks(Drained(deferred, processed'), rs, processed')
                    /\ rs \subseteq Head(flight).reqs
      BY <2>4 DEF Update
    <3>3. /\ flight # <<>> /\ flight' = Tail(flight) /\ UNCHANGED <<last, sched>>
          /\ processed' = processed + 1
      BY <2>4 DEF Update
    <3>4. processed' = sched /\ processed' \in Nat
      BY <3>1, <3>3, EmptySeq DEF IInv, TypeOK, StepsNumbered
    <3>5. rs \subseteq Reqs
      <4>1. Head(flight) \in FlightStep
        BY <1>2, <3>3, HeadTailProperties DEF IInv, TypeOK, FlightStep
      <4> QED  BY <3>2, <4>1 DEF FlightStep
    <3>6. Fenced(rs, processed') = {}
      BY <1>2, <3>4, <3>5 DEF Fenced, IInv, TypeOK, FencesDispatched
    <3>7. \A e \in Entries(deferred) : e.fence <= processed'
      BY <1>2, <3>4 DEF IInv, FencesDispatched
    <3>8. Drained(deferred, processed') = <<>>
      BY <1>2, <3>4, <3>7, DrainedEntries DEF IInv, TypeOK, Entry
    <3> QED  BY <3>2, <3>6, <3>8 DEF FreeBlocks
  <2>5. CASE ResetPrefixCache
    BY <2>2, <2>5 DEF ResetPrefixCache
  <2>6. ASSUME NEW r \in Reqs,
               Preempt(r) \/ LoadDone(r) \/ StoreDone(r) \/ Abort(r)
        PROVE  deferred' = <<>>
    <3>1. flight' = flight /\ (deferred' = deferred \/ deferred' = FreeBlocks(deferred, {r}, processed))
      BY <2>6 DEF Preempt, LoadDone, StoreDone, Abort
    <3>2. {r} \in SUBSET Reqs
      OBVIOUS
    <3> QED  BY <2>1, <2>2, <3>1, <3>2
  <2>7. CASE \/ BeginSchedule
             \/ \E r \in Reqs :
                  \/ ScheduleRunning(r) \/ Admit(r) \/ AdmitLoad(r)
                  \/ Promote(r) \/ PromoteFailed(r) \/ AdmitPromoted(r)
    BY <2>1, <2>7 DEF BeginSchedule, ScheduleRunning, Admit, AdmitLoad, Promote,
                      PromoteFailed, AdmitPromoted
  <2>8. CASE UNCHANGED vars
    BY <2>1, <2>8 DEF vars
  <2> QED  BY <1>2, <2>3, <2>4, <2>5, <2>6, <2>7, <2>8 DEF Next
<1> QED  BY <1>1, <1>2, Inductive, PTL DEF Spec

----------------------------------------------------------------------------
(* DeferredFree implements SafeReclaim.                                    *)

\* The blocks used by the steps on the GPU, as SafeReclaim sees them.
FlightUses == [i \in DOMAIN flight |-> flight[i].uses]

\* References only added, or only dropped, move the pool one way.
LEMMA PoolShrinks ==
  ASSUME Referenced(held, deferred, step) \subseteq Referenced(held, deferred, step)'
  PROVE  Pool' \subseteq Pool
BY DEF Pool

LEMMA PoolGrows ==
  ASSUME Referenced(held, deferred, step)' \subseteq Referenced(held, deferred, step)
  PROVE  Pool \subseteq Pool' /\ Pool' \subseteq Blocks
BY DEF Pool

\* References are those of the requests, of the FIFO's entries and of the step.
LEMMA ReferencedByEntries ==
  ASSUME NEW h, NEW d, NEW s
  PROVE  Referenced(h, d, s) =
           (UNION {h[r] : r \in Reqs}) \cup (UNION {e.blocks : e \in Entries(d)}) \cup s.retained
BY DEF Referenced, Entries

\* Requests that give their blocks up, to nobody or to the FIFO, add no reference.
LEMMA FreeAddsNoReference ==
  ASSUME IInv, NEW rs \in SUBSET Reqs, NEW d \in Seq(Entry), NEW p \in Nat,
         Entries(d) \subseteq Entries(deferred),
         deferred' = FreeBlocks(d, rs, p), held' = Dropped(held, rs),
         step'.retained = step.retained
  PROVE  Referenced(held, deferred, step)' \subseteq Referenced(held, deferred, step)
<1>1. /\ Fenced(rs, p) = {} => deferred' = d
      /\ Fenced(rs, p) # {} => Entries(deferred') = Entries(d) \cup {LastEntry(rs, p)}
  BY FreeBlocksEntries DEF IInv
<1>2. LastEntry(rs, p).blocks \subseteq UNION {held[r] : r \in Reqs}
  BY DEF LastEntry, Fenced
<1>3. UNION {e.blocks : e \in Entries(deferred')} \subseteq
        (UNION {held[r] : r \in Reqs}) \cup (UNION {e.blocks : e \in Entries(deferred)})
  BY <1>1, <1>2
<1>4. UNION {held'[r] : r \in Reqs} \subseteq UNION {held[r] : r \in Reqs}
  BY DEF Dropped
<1>5. Referenced(held, deferred, step) =
        (UNION {held[r] : r \in Reqs}) \cup (UNION {e.blocks : e \in Entries(deferred)})
          \cup step.retained
  BY ReferencedByEntries
<1>6. Referenced(held', deferred', step') =
        (UNION {held'[r] : r \in Reqs}) \cup (UNION {e.blocks : e \in Entries(deferred')})
          \cup step'.retained
  BY ReferencedByEntries
<1> QED  BY <1>3, <1>4, <1>5, <1>6

\* The four kinds of abstract step.
LEMMA AbstractTake ==
  ASSUME Referenced(held, deferred, step) \subseteq Referenced(held, deferred, step)',
         flight' = flight
  PROVE  Reclaim!Next
<1>1. Pool' \subseteq Pool
  BY PoolShrinks
<1>2. Reclaim!Take
  BY <1>1 DEF Reclaim!Take
<1> QED  BY <1>2 DEF Reclaim!Next

LEMMA AbstractReturn ==
  ASSUME IInv',
         Referenced(held, deferred, step)' \subseteq Referenced(held, deferred, step),
         flight' = flight
  PROVE  Reclaim!Next
<1>1. Pool \subseteq Pool' /\ Pool' \subseteq Blocks
  BY PoolGrows
<1>2. InFlightKept'
  BY PoolUnused, PTL
<1> QED  BY <1>1, <1>2 DEF Reclaim!Next, Reclaim!Return, Reclaim!Busy, InFlightKept
\* FlightUses follows flight.
FlightUsesFollow ==
  /\ FlightUses \in Seq(SUBSET Blocks)
  /\ Len(FlightUses) = Len(flight) /\ Len(flight) \in Nat
  /\ DOMAIN flight = 1 .. Len(flight)
  /\ \A i \in 1 .. Len(flight) : FlightUses[i] = flight[i].uses

LEMMA FlightUsesSeq == ASSUME TypeOK PROVE FlightUsesFollow
<1> DEFINE e(i) == flight[i].uses
<1>1. /\ flight \in Seq(FlightStep)
      /\ Len(flight) \in Nat /\ DOMAIN flight = 1 .. Len(flight)
  BY LenProperties DEF TypeOK, FlightStep
<1>2. \A i \in 1 .. Len(flight) : e(i) \in SUBSET Blocks
  <2>1. \A i \in 1 .. Len(flight) : flight[i] \in FlightStep
    BY <1>1, ElementOfSeq
  <2> QED  BY <2>1 DEF FlightStep
<1>3. FlightUses = [i \in 1 .. Len(flight) |-> e(i)]
  BY <1>1 DEF FlightUses
<1>4. \A i \in 1 .. Len(flight) : e(i) = flight[i].uses
  OBVIOUS
<1> HIDE DEF e
<1>5. FlightUses \in Seq(SUBSET Blocks)
  BY <1>1, <1>2, <1>3, IsASeq
<1>6. DOMAIN FlightUses = 1 .. Len(flight)
  BY <1>3
<1>7. Len(FlightUses) = Len(flight)
  BY <1>1, <1>5, <1>6, LenProperties
<1> QED  BY <1>1, <1>3, <1>4, <1>5, <1>6, <1>7 DEF FlightUsesFollow

LEMMA AbstractStart ==
  ASSUME IInv, IInv', NEW new \in FlightStep, flight' = Append(flight, new),
         Referenced(held, deferred, step)' = Referenced(held, deferred, step)
  PROVE  Reclaim!Next
<1>1. Pool' = Pool
  BY DEF Pool
<1>2. InFlightKept'
  BY PoolUnused, PTL
<1>3. flight \in Seq(FlightStep)
  BY DEF IInv, TypeOK, FlightStep
<1>4. /\ FlightUses \in Seq(SUBSET Blocks)
      /\ Len(FlightUses) = Len(flight) /\ Len(flight) \in Nat
      /\ \A i \in 1 .. Len(flight) : FlightUses[i] = flight[i].uses
  BY FlightUsesSeq DEF IInv, FlightUsesFollow
<1>5. /\ FlightUses' \in Seq(SUBSET Blocks)
      /\ Len(FlightUses') = Len(flight') /\ DOMAIN flight' = 1 .. Len(flight')
      /\ \A i \in 1 .. Len(flight') : FlightUses'[i] = flight'[i].uses
  <2>1. TypeOK'
    BY DEF IInv
  <2>2. FlightUsesFollow'
    BY <2>1, FlightUsesSeq, PTL
  <2> QED  BY <2>2 DEF FlightUsesFollow
<1>6. /\ Len(flight') = Len(flight) + 1
      /\ \A i \in 1 .. Len(flight) : flight'[i] = flight[i]
      /\ flight'[Len(flight) + 1] = new
  BY <1>3, AppendProperties
<1>7. new.uses \in SUBSET Blocks
  BY DEF FlightStep
<1>8. /\ Append(FlightUses, new.uses) \in Seq(SUBSET Blocks)
      /\ Len(Append(FlightUses, new.uses)) = Len(flight) + 1
      /\ \A i \in 1 .. Len(flight) : Append(FlightUses, new.uses)[i] = FlightUses[i]
      /\ Append(FlightUses, new.uses)[Len(flight) + 1] = new.uses
  BY <1>4, <1>7, AppendProperties
<1>9. \A i \in 1 .. Len(flight) + 1 : FlightUses'[i] = Append(FlightUses, new.uses)[i]
  <2> SUFFICES ASSUME NEW i \in 1 .. Len(flight) + 1
               PROVE  FlightUses'[i] = Append(FlightUses, new.uses)[i]
    OBVIOUS
  <2>1. CASE i \in 1 .. Len(flight)
    BY <1>4, <1>5, <1>6, <1>8, <2>1
  <2>2. CASE i = Len(flight) + 1
    BY <1>4, <1>5, <1>6, <1>8, <2>2
  <2> QED  BY <1>4, <2>1, <2>2
<1>10. FlightUses' = Append(FlightUses, new.uses)
  BY <1>5, <1>6, <1>8, <1>9, SeqEqual
<1>11. new.uses \in SUBSET (Blocks \ Pool)
  <2>1. Len(flight) + 1 \in DOMAIN flight' /\ flight'[Len(flight) + 1].uses = new.uses
    BY <1>4, <1>5, <1>6
  <2> QED  BY <1>1, <1>2, <1>7, <2>1 DEF InFlightKept
<1> QED  BY <1>1, <1>10, <1>11 DEF Reclaim!Next, Reclaim!Start, FlightUses

LEMMA AbstractEnd ==
  ASSUME IInv, IInv', flight # <<>>, flight' = Tail(flight),
         Referenced(held, deferred, step)' \subseteq Referenced(held, deferred, step)
  PROVE  Reclaim!Next
<1>1. Pool \subseteq Pool' /\ Pool' \subseteq Blocks
  BY PoolGrows
<1>2. InFlightKept'
  BY PoolUnused, PTL
<1>3. flight \in Seq(FlightStep)
  BY DEF IInv, TypeOK, FlightStep
<1>4. /\ FlightUses \in Seq(SUBSET Blocks)
      /\ Len(FlightUses) = Len(flight) /\ Len(flight) \in Nat
      /\ \A i \in 1 .. Len(flight) : FlightUses[i] = flight[i].uses
  BY FlightUsesSeq DEF IInv, FlightUsesFollow
<1>5. /\ FlightUses' \in Seq(SUBSET Blocks)
      /\ Len(FlightUses') = Len(flight')
      /\ \A i \in 1 .. Len(flight') : FlightUses'[i] = flight'[i].uses
  <2>1. TypeOK'
    BY DEF IInv
  <2>2. FlightUsesFollow'
    BY <2>1, FlightUsesSeq, PTL
  <2> QED  BY <2>2 DEF FlightUsesFollow
<1>6. /\ Len(flight') = Len(flight) - 1
      /\ \A i \in 1 .. Len(flight') : flight'[i] = flight[i + 1]
  BY <1>3, HeadTailProperties
<1>7. FlightUses # <<>> /\ Len(flight) # 0
  BY <1>3, <1>4, EmptySeq
<1>8. /\ Tail(FlightUses) \in Seq(SUBSET Blocks)
      /\ Len(Tail(FlightUses)) = Len(flight) - 1
      /\ \A i \in 1 .. Len(flight) - 1 : Tail(FlightUses)[i] = FlightUses[i + 1]
  BY <1>4, <1>7, HeadTailProperties
<1>9. \A i \in 1 .. Len(flight) - 1 : FlightUses'[i] = Tail(FlightUses)[i]
  <2> SUFFICES ASSUME NEW i \in 1 .. Len(flight) - 1
               PROVE  FlightUses'[i] = Tail(FlightUses)[i]
    OBVIOUS
  <2>1. i + 1 \in 1 .. Len(flight)
    BY <1>4
  <2> QED  BY <1>4, <1>5, <1>6, <1>8, <2>1
<1>10. FlightUses' = Tail(FlightUses)
  BY <1>5, <1>6, <1>8, <1>9, SeqEqual
<1>11. (Pool' \ Pool) \cap Reclaim!Busy(FlightUses') = {}
  BY <1>2 DEF InFlightKept, Reclaim!Busy, FlightUses
<1> QED  BY <1>1, <1>7, <1>10, <1>11 DEF Reclaim!Next, Reclaim!End, FlightUses

LEMMA StepRefines ==
  ASSUME IInv, IInv', [Next]_vars
  PROVE  [Reclaim!Next]_Reclaim!vars
<1>1. deferred \in Seq(Entry) /\ processed \in Nat
  BY DEF IInv, TypeOK, Entry
<1>2. ASSUME UNCHANGED <<held, deferred, step, flight>>
      PROVE  UNCHANGED Reclaim!vars
  BY <1>2 DEF Pool, Referenced, Reclaim!vars
<1>3. ASSUME \A r \in Reqs : held[r] \subseteq held'[r],
             step.retained \subseteq step'.retained, UNCHANGED <<deferred, flight>>
      PROVE  Reclaim!Next
  BY <1>3, AbstractTake DEF Referenced
<1>4. ASSUME NEW rs \in SUBSET Reqs, deferred' = FreeBlocks(deferred, rs, processed),
             held' = Dropped(held, rs), step'.retained = step.retained, flight' = flight
      PROVE  Reclaim!Next
  BY <1>1, <1>4, FreeAddsNoReference, AbstractReturn
<1>5. CASE BeginSchedule
  <2>1. step.retained = {} /\ step'.retained = {}
    BY <1>5 DEF BeginSchedule, NoStep, IInv, StepOK
  <2> QED  BY <1>3, <1>5, <2>1 DEF BeginSchedule
<1>6. CASE \E r \in Reqs : ScheduleRunning(r) \/ Admit(r) \/ AdmitLoad(r) \/ AdmitPromoted(r)
  <2>1. PICK r \in Reqs : ScheduleRunning(r) \/ Admit(r) \/ AdmitLoad(r) \/ AdmitPromoted(r)
    BY <1>6
  <2>2. /\ \E hit, new : held' = [held EXCEPT ![r] = @ \cup hit \cup new]
        /\ UNCHANGED <<deferred, flight>>
    BY <2>1 DEF ScheduleRunning, Admit, AdmitLoad, AdmitPromoted, Allocate
  <2>3. step.retained \subseteq step'.retained
    <3>1. step \in StepType
      BY DEF IInv, TypeOK, StepType
    <3>2. CASE ScheduleRunning(r)
      BY <3>1, <3>2 DEF ScheduleRunning, StepType
    <3>3. CASE Admit(r)
      <4>1. PICK from : step' = [step EXCEPT !.phase = "waiting", !.reqs = @ \cup {r},
                                             !.retained = @ \cup from]
        BY <3>3 DEF Admit
      <4> QED  BY <3>1, <4>1 DEF StepType
    <3>4. CASE AdmitLoad(r)
      BY <3>1, <3>4 DEF AdmitLoad, StepType
    <3>5. CASE AdmitPromoted(r)
      BY <3>1, <3>5 DEF AdmitPromoted, StepType
    <3> QED  BY <2>1, <3>2, <3>3, <3>4, <3>5
  <2>4. \A q \in Reqs : held[q] \subseteq held'[q]
    BY <2>2 DEF IInv, TypeOK
  <2> QED  BY <1>3, <2>2, <2>3, <2>4
<1>7. CASE \E r \in Reqs : Promote(r)
  BY <1>3, <1>7 DEF Promote, IInv, TypeOK
<1>8. ASSUME NEW r \in Reqs, Preempt(r)
      PROVE  Reclaim!Next
  BY <1>4, <1>8, {r} \in SUBSET Reqs DEF Preempt, IInv, TypeOK
<1>9. ASSUME NEW r \in Reqs, PromoteFailed(r)
      PROVE  Reclaim!Next
  <2>1. Referenced(held, deferred, step)' \subseteq Referenced(held, deferred, step)
    BY <1>9 DEF PromoteFailed, Referenced, Dropped, IInv, TypeOK
  <2> QED  BY <1>9, <2>1, AbstractReturn DEF PromoteFailed
<1>10. ASSUME NEW r \in Reqs, LoadDone(r) \/ StoreDone(r) \/ Abort(r)
      PROVE  [Reclaim!Next]_Reclaim!vars
  <2>1. \/ UNCHANGED <<held, deferred, step, flight>>
        \/ /\ deferred' = FreeBlocks(deferred, {r}, processed)
           /\ held' = Dropped(held, {r}) /\ UNCHANGED <<step, flight>>
    BY <1>10 DEF LoadDone, StoreDone, Abort
  <2> QED  BY <1>2, <1>4, <2>1, {r} \in SUBSET Reqs
<1>11. CASE ResetPrefixCache
  BY <1>4, <1>11 DEF ResetPrefixCache
<1>12. CASE Dispatch
  <2>1. /\ deferred' = Retain(deferred, step.retained)
        /\ step'.retained = {} /\ UNCHANGED held
    BY <1>12 DEF Dispatch, NoStep
  <2>2. CASE step.reqs = {}
    <3>1. step.retained = {} /\ UNCHANGED <<deferred, flight>>
      BY <1>12, <2>1, <2>2 DEF Dispatch, Retain, IInv, StepOK
    <3> QED  BY <1>3, <2>1, <3>1
  <2>3. CASE step.reqs # {}
    <3> DEFINE kept == [fence |-> sched + 1, blocks |-> step.retained]
    <3>1. PICK new \in FlightStep : flight' = Append(flight, new)
      BY <1>12, <2>3 DEF Dispatch, FlightStep, IInv, TypeOK
    <3>2. UNION {e.blocks : e \in Entries(deferred')} =
            (UNION {e.blocks : e \in Entries(deferred)}) \cup step.retained
      <4>1. CASE step.retained = {}
        BY <2>1, <4>1 DEF Retain
      <4>2. CASE step.retained # {}
        <5>1. deferred' = Append(deferred, kept) /\ kept \in Entry /\ kept.blocks = step.retained
          BY <2>1, <4>2 DEF Retain, Entry, IInv, TypeOK
        <5> HIDE DEF kept
        <5>2. Entries(deferred') = Entries(deferred) \cup {kept}
          BY <1>1, <5>1, EntriesAppend
        <5> QED  BY <5>1, <5>2
      <4> QED  BY <4>1, <4>2
    <3>3. Referenced(held, deferred, step) =
            (UNION {held[r] : r \in Reqs}) \cup (UNION {e.blocks : e \in Entries(deferred)})
              \cup step.retained
      BY ReferencedByEntries
    <3>4. Referenced(held', deferred', step') =
            (UNION {held'[r] : r \in Reqs}) \cup (UNION {e.blocks : e \in Entries(deferred')})
              \cup step'.retained
      BY ReferencedByEntries
    <3>5. Referenced(held, deferred, step)' = Referenced(held, deferred, step)
      BY <2>1, <3>2, <3>3, <3>4
    <3> QED  BY <3>1, <3>5, AbstractStart
  <2> QED  BY <2>2, <2>3
<1>13. CASE Update
  <2>1. PICK rs : /\ deferred' = FreeBlocks(Drained(deferred, processed'), rs, processed')
                  /\ held' = Dropped(held, rs) /\ rs \subseteq Head(flight).reqs
    BY <1>13 DEF Update
  <2>2. /\ flight # <<>> /\ flight' = Tail(flight) /\ UNCHANGED step
        /\ processed' = processed + 1
    BY <1>13 DEF Update
  <2>3. processed' \in Nat
    BY <1>1, <2>2
  <2>4. rs \in SUBSET Reqs
    <3>1. flight \in Seq(FlightStep)
      BY DEF IInv, TypeOK, FlightStep
    <3>2. Head(flight) \in FlightStep
      BY <2>2, <3>1, HeadTailProperties
    <3> QED  BY <2>1, <3>2 DEF FlightStep
  <2>5. /\ Drained(deferred, processed') \in Seq(Entry)
        /\ Entries(Drained(deferred, processed')) \subseteq Entries(deferred)
    BY <1>1, <2>3, DrainedEntries
  <2>6. Referenced(held, deferred, step)' \subseteq Referenced(held, deferred, step)
    BY <2>1, <2>2, <2>3, <2>4, <2>5, FreeAddsNoReference
  <2> QED  BY <2>2, <2>6, AbstractEnd
<1>14. CASE UNCHANGED vars
  BY <1>2, <1>14 DEF vars
<1> QED  BY <1>5, <1>6, <1>7, <1>8, <1>9, <1>10, <1>11, <1>12, <1>13, <1>14 DEF Next

\* DeferredFree implements SafeReclaim: a block returns to the pool only when no
\* step on the GPU uses it.
THEOREM Refinement == Spec => ReclaimsSafely
<1>1. Init => Reclaim!Init
  BY DEF Init, Reclaim!Init, Pool, Referenced, NoStep
<1>2. IInv /\ IInv' /\ [Next]_vars => [Reclaim!Next]_Reclaim!vars
  BY StepRefines
<1> QED  BY <1>1, <1>2, Inductive, PTL DEF Spec, ReclaimsSafely, Reclaim!Spec
=============================================================================
