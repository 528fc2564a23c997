--------------------------- MODULE PipelineProofs ---------------------------
(***************************************************************************)
(* Theorems about Pipeline for every list of feeds, every set of ids, every *)
(* cap and every width of the counters, however the feeds' goroutines write *)
(* their decoders' tables during a tick.                                   *)
(***************************************************************************)
EXTENDS Pipeline, FiniteSetTheorems, TLAPS

-----------------------------------------------------------------------------
(***************************************************************************)
(* The operators of the model.                                             *)
(***************************************************************************)

\* What is reduced modulo M is a residue.
LEMMA Residue ==
  ASSUME NEW M \in Nat \ {0}, NEW n \in Nat
  PROVE  n % M \in 0 .. M - 1
OBVIOUS

\* A number below the modulus is its own residue.
LEMMA SmallResidue ==
  ASSUME NEW M \in Nat \ {0}, NEW n \in 0 .. M - 1
  PROVE  n % M = n
OBVIOUS

\* The tick counter moves at every tick, even where it wraps.
LEMMA NextSeqMoves ==
  ASSUME NEW n \in 0 .. SeqModulus - 1
  PROVE  NextSeq(n) \in 0 .. SeqModulus - 1 /\ NextSeq(n) # n
<1>1. SeqModulus \in Nat \ {0, 1} /\ n \in Nat
  BY BoundsAssumption
<1>2. CASE n + 1 = SeqModulus
  <2>1. (n + 1) % SeqModulus = 0
    BY <1>1, <1>2
  <2> QED BY <1>1, <1>2, <2>1 DEF NextSeq
<1>3. CASE n + 1 < SeqModulus
  <2>1. (n + 1) % SeqModulus = n + 1
    BY <1>1, <1>3, SmallResidue
  <2> QED BY <1>1, <1>3, <2>1 DEF NextSeq
<1> QED BY <1>1, <1>2, <1>3

\* Every feed has one place in the list.
LEMMA FeedPlaces ==
  /\ Len(Feeds) \in Nat
  /\ \A k \in 1 .. Len(Feeds) : Feeds[k] \in FeedNames /\ FeedRank(Feeds[k]) = k
  /\ \A f \in FeedNames :
       FeedRank(f) \in 1 .. Len(Feeds) /\ Feeds[FeedRank(f)] = f
<1>1. Len(Feeds) \in Nat
  BY FeedsAssumption DEF Feeds
<1>2. \A k \in 1 .. Len(Feeds) : Feeds[k] \in FeedNames
  BY DEF FeedNames
<1>3. \A i, j \in 1 .. Len(Feeds) : i # j => Feeds[i] # Feeds[j]
  BY FeedsAssumption
<1>4. ASSUME NEW f \in FeedNames
      PROVE  FeedRank(f) \in 1 .. Len(Feeds) /\ Feeds[FeedRank(f)] = f
  BY DEF FeedNames, FeedRank
<1>5. \A k \in 1 .. Len(Feeds) : FeedRank(Feeds[k]) = k
  BY <1>2, <1>3, <1>4
<1> QED BY <1>1, <1>2, <1>4, <1>5

\* The values of a function on a finite set are finitely many.
LEMMA FiniteImage ==
  ASSUME NEW S, NEW T, NEW g \in [S -> T], IsFiniteSet(S)
  PROVE  IsFiniteSet({g[x] : x \in S})
<1>1. g \in Surjection(S, {g[x] : x \in S})
  BY DEF Surjection
<1> QED BY <1>1, FS_Surjection

\* Sampling adds finitely many live records of the feed, with the tick's number.
LEMMA SampledRecords ==
  ASSUME NEW f \in FeedNames, IsFiniteSet(states)
  PROVE  /\ IsFiniteSet(Sampled(f))
         /\ \A r \in Sampled(f) :
              r \in states \/ (r.feed = f /\ r.id \in Active(f) /\ r.seq = seq
                               /\ r = Stamped(f, r.id))
         /\ states \subseteq Sampled(f)
         /\ \A i \in Active(f) : Stamped(f, i) \in Sampled(f)
<1> DEFINE g == [i \in Active(f) |-> Stamped(f, i)]
           new == {Stamped(f, i) : i \in Active(f)}
<1>1. IsFiniteSet(Active(f))
  BY FeedsAssumption, FS_Subset DEF Active
<1>2. new = {g[i] : i \in Active(f)}
  OBVIOUS
<1>3. IsFiniteSet({g[i] : i \in Active(f)})
  <2>1. g \in [Active(f) -> new]
    OBVIOUS
  <2> HIDE DEF g, new
  <2> QED BY <1>1, <2>1, FiniteImage
<1>4. IsFiniteSet(states \cup new)
  BY <1>2, <1>3, FS_Union
<1>5. Sampled(f) = states \cup new
  BY DEF Sampled
<1> QED BY <1>4, <1>5 DEF Stamped

\* The fallback has finitely many records, none of them live.
LEMMA FallbackRecords ==
  ASSUME NEW n
  PROVE  /\ IsFiniteSet(Fallback(n))
         /\ \A r \in Fallback(n) :
              ~Live(r) /\ r.id \in Synthetic /\ r.seq = n
              /\ r = [feed |-> None, id |-> r.id, seq |-> n]
<1> DEFINE g == [i \in Synthetic |-> [feed |-> None, id |-> i, seq |-> n]]
           T == {g[i] : i \in Synthetic}
<1>1. Fallback(n) = {g[i] : i \in Synthetic}
  BY DEF Fallback
<1>2. IsFiniteSet({g[i] : i \in Synthetic})
  <2>1. g \in [Synthetic -> T]
    OBVIOUS
  <2> HIDE DEF g, T
  <2> QED BY <2>1, FeedsAssumption, FiniteImage
<1> QED BY <1>1, <1>2 DEF Live, Fallback

\* The cap keeps a part of the list, no more than it allows.
LEMMA CappedPart ==
  ASSUME NEW list, IsFiniteSet(list), NEW s \in Capped(list)
  PROVE  /\ s \subseteq list /\ IsFiniteSet(s)
         /\ Cardinality(s) \in Nat /\ Cardinality(s) <= MaxEntities
<1>1. Cardinality(list) \in Nat /\ MaxEntities \in Nat
  BY FS_CardinalityType, BoundsAssumption
<1>2. s \subseteq list /\ Cardinality(s) <= MaxEntities
  BY <1>1 DEF Capped
<1> QED BY <1>2, FS_Subset, FS_CardinalityType

-----------------------------------------------------------------------------
(***************************************************************************)
(* Type correctness.  TypeOK needs to know that the list is finite: the    *)
(* header's count is its length.                                           *)
(***************************************************************************)

TypeInv == TypeOK /\ IsFiniteSet(states)

LEMMA TypeInit == Init => TypeInv
<1> SUFFICES ASSUME Init PROVE TypeInv
  OBVIOUS
<1>1. table \in [FeedNames -> [Ids -> Entry \cup {None}]]
  BY DEF Init
<1>2. at \in 1 .. Len(Feeds) + 1 /\ (pc = "sampling" => at <= Len(Feeds))
  BY FeedPlaces DEF Init
<1>3. /\ seq \in 0 .. SeqModulus - 1 /\ genSeq \in 0 .. SeqModulus - 1
      /\ frame.recs \subseteq Rec /\ frame.count \in 0 .. CountModulus - 1
      /\ Cardinality(frame.recs) <= MaxEntities
  BY BoundsAssumption, FS_EmptySet DEF Init, NoFrame
<1> QED BY <1>1, <1>2, <1>3, FS_EmptySet DEF Init, TypeInv, TypeOK

\* What an entry becomes, by message, clock and pruning, is an entry or none.
LEMMA TypeTable ==
  ASSUME TypeOK,
         \/ \E f \in FeedNames, i \in Ids, p \in BOOLEAN : Hear(f, i, p)
         \/ TimePasses \/ Prune
  PROVE  table' \in [FeedNames -> [Ids -> Entry \cup {None}]]
<1>1. table \in [FeedNames -> [Ids -> Entry \cup {None}]] /\ MaxAge \in Nat
  BY BoundsAssumption DEF TypeOK
<1>2. ASSUME NEW f \in FeedNames, NEW i \in Ids, NEW p \in BOOLEAN, Hear(f, i, p)
      PROVE  table' \in [FeedNames -> [Ids -> Entry \cup {None}]]
  <2>1. (p \/ (table[f][i] # None /\ table[f][i].pos)) \in BOOLEAN
    OBVIOUS
  <2>2. [age |-> 0, pos |-> p \/ (table[f][i] # None /\ table[f][i].pos)] \in Entry
    BY <1>1, <2>1 DEF Entry
  <2> QED BY <1>1, <1>2, <2>2 DEF Hear
<1>3. CASE TimePasses
  <2>1. ASSUME NEW e \in Entry, ~(e.age > MaxAge)
        PROVE  [e EXCEPT !.age = @ + 1] \in Entry
    BY <1>1, <2>1 DEF Entry
  <2>2. ASSUME NEW f \in FeedNames, NEW i \in Ids
        PROVE  (IF table[f][i] = None \/ table[f][i].age > MaxAge THEN table[f][i]
                ELSE [table[f][i] EXCEPT !.age = @ + 1]) \in Entry \cup {None}
    <3>1. table[f][i] \in Entry \cup {None}
      BY <1>1
    <3> QED BY <2>1, <3>1
  <2> QED BY <1>3, <2>2 DEF TimePasses
<1>4. CASE Prune
  <2>1. Feeds[at] \in FeedNames
    BY <1>4, FeedPlaces DEF Prune, TypeOK
  <2> QED BY <1>1, <1>4, <2>1 DEF Prune
<1> QED BY <1>2, <1>3, <1>4

LEMMA TypeTick ==
  ASSUME TypeInv, StartTick \/ Prune \/ Sample \/ Broadcast
  PROVE  TypeInv'
<1>1. CASE StartTick
  <2>1. 1 \in 1 .. Len(Feeds) + 1
    BY FeedPlaces
  <2>2. NextSeq(seq) \in 0 .. SeqModulus - 1
    BY NextSeqMoves DEF TypeInv, TypeOK
  <2>3. ActiveNow \subseteq FeedNames \X Ids
    BY DEF ActiveNow
  <2> QED BY <1>1, <2>1, <2>2, <2>3, FS_EmptySet DEF StartTick, TypeInv, TypeOK
<1>2. CASE Prune
  <2>1. table' \in [FeedNames -> [Ids -> Entry \cup {None}]]
    BY <1>2, TypeTable DEF TypeInv
  <2> QED BY <1>2, <2>1 DEF Prune, TypeInv, TypeOK
<1>3. CASE Sample
  <2>1. at \in 1 .. Len(Feeds) /\ Len(Feeds) \in Nat /\ Feeds[at] \in FeedNames
        /\ FeedRank(Feeds[at]) = at
    BY <1>3, FeedPlaces DEF Sample, TypeInv, TypeOK
  <2>2. IsFiniteSet(states')
    BY <1>3, <2>1, SampledRecords DEF Sample, TypeInv
  <2>3. ASSUME NEW r \in states'
        PROVE  r \in Rec /\ Live(r) /\ Rank(r) < at + 1
    <3>1. CASE r \in states
      <4>1. r \in Rec /\ Live(r) /\ Rank(r) < at
        BY <3>1 DEF TypeInv, TypeOK
      <4>2. Rank(r) \in Nat
        BY <4>1, FeedPlaces DEF Rank, Rec, Live
      <4> QED BY <2>1, <4>1, <4>2
    <3>2. CASE /\ r.feed = Feeds[at] /\ r.id \in Active(Feeds[at])
               /\ r.seq = seq /\ r = Stamped(Feeds[at], r.id)
      <4>1. r \in Rec
        BY <2>1, <3>2 DEF Rec, Stamped, Active, TypeInv, TypeOK
      <4>2. Live(r) /\ Rank(r) = at
        BY <2>1, <3>2, NoneAssumption DEF Live, Rank
      <4> QED BY <2>1, <4>1, <4>2
    <3> QED
      BY <1>3, <2>1, <2>3, <3>1, <3>2, SampledRecords DEF Sample, TypeInv
  <2>4. at' \in 1 .. Len(Feeds) + 1 /\ at' = at + 1 /\ pc' = "pruning"
    BY <1>3, <2>1 DEF Sample
  <2>5. \A r \in states' : Rank(r)' = Rank(r) /\ Live(r)' = Live(r)
    BY DEF Rank, Live, FeedRank
  <2> QED BY <1>3, <2>2, <2>3, <2>4, <2>5 DEF Sample, TypeInv, TypeOK
<1>4. CASE Broadcast
  <2>1. genSeq' \in 0 .. SeqModulus - 1
    <3>1. genSeq + 1 \in Nat /\ SeqModulus \in Nat \ {0}
      BY BoundsAssumption DEF TypeInv, TypeOK
    <3>2. (genSeq + 1) % SeqModulus \in 0 .. SeqModulus - 1
      BY <3>1, Residue
    <3> QED BY <1>4, <3>2 DEF Broadcast, TypeInv, TypeOK
  <2>2. PICK list \in {states, Fallback(genSeq')} :
          \E s \in Capped(list) : frame' = Encode(s)
    BY <1>4 DEF Broadcast
  <2>7. PICK s \in Capped(list) : frame' = Encode(s)
    BY <2>2
  <2>3. IsFiniteSet(list) /\ list \subseteq Rec
    <3>1. Fallback(genSeq') \subseteq Rec
      BY <2>1, FallbackRecords DEF Rec
    <3> QED BY <2>2, <3>1, FallbackRecords DEF TypeInv, TypeOK
  <2>4. /\ s \subseteq Rec /\ Cardinality(s) \in Nat
        /\ Cardinality(s) <= MaxEntities
    BY <2>3, CappedPart
  <2>5. Cardinality(s) % CountModulus \in 0 .. CountModulus - 1
    BY <2>4, Residue, BoundsAssumption
  <2>6. /\ frame'.recs \subseteq Rec /\ frame'.count \in 0 .. CountModulus - 1
        /\ Cardinality(frame'.recs) <= MaxEntities
    BY <2>7, <2>4, <2>5 DEF Encode
  <2> QED BY <1>4, <2>1, <2>6, FS_EmptySet DEF Broadcast, TypeInv, TypeOK
<1> QED BY <1>1, <1>2, <1>3, <1>4

LEMMA TypeNext == TypeInv /\ [Next]_vars => TypeInv'
<1> SUFFICES ASSUME TypeInv, [Next]_vars PROVE TypeInv'
  OBVIOUS
<1>1. CASE \E f \in FeedNames, i \in Ids, p \in BOOLEAN : Hear(f, i, p)
  <2>1. table' \in [FeedNames -> [Ids -> Entry \cup {None}]]
    BY <1>1, TypeTable DEF TypeInv
  <2> QED BY <1>1, <2>1 DEF Hear, local, TypeInv, TypeOK
<1>2. CASE TimePasses
  <2>1. table' \in [FeedNames -> [Ids -> Entry \cup {None}]]
    BY <1>2, TypeTable DEF TypeInv
  <2>2. steady' \subseteq FeedNames \X Ids
    BY <1>2 DEF TimePasses, TypeInv, TypeOK
  <2> QED BY <1>2, <2>1, <2>2 DEF TimePasses, local, TypeInv, TypeOK
<1>3. CASE TickerFires \/ Cancel \/ Leave
  BY <1>3 DEF TickerFires, Cancel, Leave, local, TypeInv, TypeOK
<1>4. CASE UNCHANGED vars
  BY <1>4 DEF vars, TypeInv, TypeOK
<1> QED BY <1>1, <1>2, <1>3, <1>4, TypeTick DEF Next, Tick

\* The pipeline's state keeps its types in every behaviour.
THEOREM TypeCorrect == Spec => []TypeOK
<1>1. TypeInv => TypeOK
  BY DEF TypeInv
<1> QED BY <1>1, TypeInit, TypeNext, PTL DEF Spec

-----------------------------------------------------------------------------
(***************************************************************************)
(* Complete frames.  During a tick the list bears the tick's number, which *)
(* no live record of the last frame bears; an entity that has been active  *)
(* since the tick began is still in its table, and in the list from the    *)
(* moment its feed has been visited.                                       *)
(***************************************************************************)

InTick == pc \in {"pruning", "sampling"}

\* Numbers: the list's are the tick's, the last frame's are an earlier one's.
NumberInv ==
  /\ \A r \in states : r.seq = seq
  /\ \A r \in frame.recs : Live(r) => (r.seq = seq <=> ~InTick)
  /\ ~InTick => states = {}

\* Coverage: who stays active is not pruned and is sampled with its feed.
SteadyInv ==
  InTick => /\ steady \subseteq ActiveNow
            /\ \A p \in steady :
                 FeedRank(p[1]) < at => Stamped(p[1], p[2]) \in states

TickInv == NumberInv /\ SteadyInv

\* A message, the clock and a pruning leave the steady entities active.
LEMMA SteadyStay ==
  ASSUME TypeOK, steady \subseteq ActiveNow,
         \/ \E f \in FeedNames, i \in Ids, p \in BOOLEAN : Hear(f, i, p)
         \/ TimePasses \/ Prune
  PROVE  steady' \subseteq ActiveNow'
<1>1. table \in [FeedNames -> [Ids -> Entry \cup {None}]] /\ MaxAge \in Nat \ {0}
  BY BoundsAssumption DEF TypeOK
<1>2. steady' \subseteq steady
  BY DEF Hear, TimePasses, Prune
<1> SUFFICES ASSUME NEW f \in FeedNames, NEW i \in Ids,
                    <<f, i>> \in steady, <<f, i>> \in steady'
             PROVE  /\ table'[f][i] # None /\ table'[f][i].age < MaxAge
                    /\ table'[f][i].pos
  BY <1>2 DEF ActiveNow, Active
<1>3. /\ table[f][i] # None /\ table[f][i] \in Entry
      /\ table[f][i].age < MaxAge /\ table[f][i].pos
  BY <1>1 DEF ActiveNow, Active
<1>4. ASSUME NEW g \in FeedNames, NEW j \in Ids, NEW p \in BOOLEAN, Hear(g, j, p)
      PROVE  /\ table'[f][i] # None /\ table'[f][i].age < MaxAge
             /\ table'[f][i].pos
  <2>1. CASE g = f /\ j = i
    <3> DEFINE b == p \/ (table[f][i] # None /\ table[f][i].pos)
    <3>1. table'[f][i] = [age |-> 0, pos |-> b]
      BY <1>1, <1>4, <2>1 DEF Hear
    <3>2. b \in BOOLEAN /\ b
      BY <1>3
    <3>3. [age |-> 0, pos |-> b] \in Entry
      BY <1>1, <3>2 DEF Entry
    <3> HIDE DEF b
    <3>4. table'[f][i].age = 0 /\ table'[f][i].pos
      BY <3>1, <3>2
    <3>5. table'[f][i] # None
      BY <3>1, <3>3, NoneAssumption
    <3> QED BY <1>1, <3>4, <3>5
  <2>2. CASE ~(g = f /\ j = i)
    <3>1. table'[f][i] = table[f][i]
      BY <1>1, <1>4, <2>2 DEF Hear
    <3> QED BY <1>3, <3>1
  <2> QED BY <2>1, <2>2
<1>5. CASE TimePasses
  <2>1. table'[f][i] = [table[f][i] EXCEPT !.age = @ + 1]
    <3>1. table'[f][i] = IF table[f][i] = None \/ table[f][i].age > MaxAge THEN table[f][i]
                         ELSE [table[f][i] EXCEPT !.age = @ + 1]
      BY ZenonT(60), <1>1, <1>5 DEF TimePasses
    <3>2. table[f][i] # None /\ ~(table[f][i].age > MaxAge)
      BY <1>1, <1>3, BoundsAssumption DEF Entry
    <3> QED BY <3>1, <3>2
  <2>2. table'[f][i] \in Entry /\ table'[f][i].pos
    BY <1>1, <1>3, <2>1 DEF Entry
  <2>3. table'[f][i].age < MaxAge
    BY <1>3, <1>5 DEF TimePasses
  <2> QED BY <2>2, <2>3, NoneAssumption
<1>6. CASE Prune
  <2>1. ~Stale(f, table[f][i])
    BY <1>1, <1>3 DEF Stale, Entry
  <2>2. table'[f][i] = table[f][i]
    BY <1>1, <1>6, <2>1, FeedPlaces DEF Prune, TypeOK
  <2> QED BY <1>3, <2>2
<1> QED BY <1>4, <1>5, <1>6

LEMMA TickInit == Init => TickInv
BY DEF Init, TickInv, NumberInv, SteadyInv, InTick, NoFrame

\* The frame is stamped with a number of this tick, or is synthetic.
LEMMA TickBroadcast ==
  ASSUME TypeInv, TickInv, Broadcast
  PROVE  \A r \in frame'.recs : Live(r) => r.seq = seq
<1>1. PICK list \in {states, Fallback(genSeq')} :
        \E s \in Capped(list) : frame' = Encode(s)
  BY DEF Broadcast
<1>2. PICK s \in Capped(list) : frame' = Encode(s)
  BY <1>1
<1>3. IsFiniteSet(list)
  BY <1>1, FallbackRecords DEF TypeInv
<1>4. frame'.recs \subseteq list
  BY <1>2, <1>3, CappedPart DEF Encode
<1> QED BY <1>1, <1>4, FallbackRecords DEF TickInv, NumberInv

LEMMA TickNext == TypeInv /\ TickInv /\ [Next]_vars => TickInv'
<1> SUFFICES ASSUME TypeInv, TickInv, [Next]_vars PROVE TickInv'
  OBVIOUS
<1>0. TypeOK /\ NumberInv /\ SteadyInv
  BY DEF TypeInv, TickInv
<1>1. CASE \/ \E f \in FeedNames, i \in Ids, p \in BOOLEAN : Hear(f, i, p)
           \/ TimePasses \/ Prune
  <2>1. UNCHANGED <<at, seq, states, frame>> /\ steady' \subseteq steady
        /\ (InTick' <=> InTick)
    BY <1>1 DEF Hear, TimePasses, Prune, local, InTick
  <2>2. NumberInv'
    BY <1>0, <2>1 DEF NumberInv, Live
  <2>3. SteadyInv'
    BY <1>0, <1>1, <2>1, SteadyStay DEF SteadyInv, Stamped, FeedRank
  <2> QED BY <2>2, <2>3 DEF TickInv
<1>2. CASE TickerFires \/ Cancel \/ Leave \/ UNCHANGED vars
  BY <1>0, <1>2
  DEF TickerFires, Cancel, Leave, vars, local, TickInv, NumberInv, SteadyInv,
      InTick, Live, ActiveNow, Active, Stamped, FeedRank
<1>3. CASE StartTick
  <2>1. /\ states' = {} /\ frame' = frame /\ pc = "waiting" /\ pc' = "pruning"
        /\ seq' # seq /\ at' = 1 /\ table' = table /\ steady' = ActiveNow
    BY <1>0, <1>3, NextSeqMoves DEF StartTick, TypeOK
  <2>2. NumberInv'
    BY <1>0, <2>1 DEF NumberInv, InTick, Live
  <2>3. \A p \in steady' : ~(FeedRank(p[1]) < at')
    BY <2>1, FeedPlaces DEF ActiveNow
  <2>4. ActiveNow' = ActiveNow
    BY <2>1 DEF ActiveNow, Active
  <2> QED BY <2>1, <2>2, <2>3, <2>4 DEF TickInv, SteadyInv, FeedRank
<1>4. CASE Sample
  <2>1. /\ at \in 1 .. Len(Feeds) /\ Len(Feeds) \in Nat /\ Feeds[at] \in FeedNames
        /\ FeedRank(Feeds[at]) = at
    BY <1>0, <1>4, FeedPlaces DEF Sample, TypeOK
  <2>2. /\ UNCHANGED <<table, seq, frame, steady>> /\ at' = at + 1
        /\ states' = Sampled(Feeds[at]) /\ InTick /\ InTick'
    BY <1>4 DEF Sample, InTick
  <2>3. NumberInv'
    BY <1>0, <2>1, <2>2, SampledRecords DEF NumberInv, Live, TypeInv
  <2>4. steady \subseteq ActiveNow /\ ActiveNow' = ActiveNow
    BY <1>0, <2>2 DEF SteadyInv, ActiveNow, Active
  <2>5. ASSUME NEW p \in steady, FeedRank(p[1]) < at + 1
        PROVE  Stamped(p[1], p[2]) \in states'
    <3>1. p[1] \in FeedNames /\ p[2] \in Active(p[1])
      BY <2>4 DEF ActiveNow
    <3>2. FeedRank(p[1]) \in 1 .. Len(Feeds) /\ Feeds[FeedRank(p[1])] = p[1]
      BY <3>1, FeedPlaces
    <3>3. CASE FeedRank(p[1]) < at
      BY <1>0, <2>1, <2>2, <3>3, SampledRecords DEF SteadyInv, TypeInv
    <3>4. CASE FeedRank(p[1]) = at
      BY <2>1, <2>2, <3>1, <3>2, <3>4, SampledRecords DEF TypeInv
    <3> QED BY <2>1, <2>5, <3>2, <3>3, <3>4
  <2>6. SteadyInv'
    BY <2>2, <2>4, <2>5 DEF SteadyInv, Stamped, FeedRank
  <2> QED BY <2>3, <2>6 DEF TickInv
<1>5. CASE Broadcast
  <2>1. /\ UNCHANGED <<seq, steady, table, at>> /\ states' = {} /\ ~InTick'
    BY <1>5 DEF Broadcast, InTick
  <2> QED BY <1>5, <2>1, TickBroadcast DEF TickInv, NumberInv, SteadyInv, Live
<1> QED BY <1>1, <1>2, <1>3, <1>4, <1>5 DEF Next, Tick

\* The only step that ends a tick is the broadcast.
LEMMA OnlyBroadcastFinishes == [Next]_vars /\ Finishes => Broadcast
BY DEF Next, vars, Finishes, Hear, TimePasses, TickerFires, Cancel, Tick,
       StartTick, Prune, Sample, Leave, local

\* What the frame at the end of a tick leaves out is what the cap cuts off.
LEMMA BroadcastComplete ==
  ASSUME TypeInv, TickInv, Broadcast
  PROVE  Complete
<1>1. /\ IsFiniteSet(states) /\ \A r \in states : Live(r)
      /\ pc = "pruning" /\ at > Len(Feeds) /\ at \in Nat /\ Len(Feeds) \in Nat
  BY FeedPlaces DEF TypeInv, TypeOK, Broadcast
<1> SUFFICES ASSUME NEW p \in steady
             PROVE  \/ \E r \in frame'.recs :
                          r.feed = p[1] /\ r.id = p[2] /\ r.seq = seq
                    \/ /\ Cardinality(frame'.recs) = MaxEntities
                       /\ \A r \in frame'.recs :
                            Live(r) /\ Rank(r) <= FeedRank(p[1])
  BY DEF Complete
<1> DEFINE q == Stamped(p[1], p[2])
<1>2. p[1] \in FeedNames /\ FeedRank(p[1]) \in 1 .. Len(Feeds)
  BY FeedPlaces DEF TypeInv, TypeOK
<1>3. q \in states
  BY <1>1, <1>2 DEF TickInv, SteadyInv, InTick
<1>4. /\ q.feed = p[1] /\ q.id = p[2] /\ q.seq = seq
      /\ Rank(q) = FeedRank(p[1])
  BY <1>2, NoneAssumption DEF Stamped, Rank, Live
<1>5. PICK s \in Capped(states) : frame' = Encode(s)
  BY <1>3 DEF Broadcast
<1> HIDE DEF q
<1>6. frame'.recs = s
  BY <1>5 DEF Encode
<1>7. CASE q \in s
  BY <1>4, <1>6, <1>7
<1>8. CASE q \notin s
  <2>1. /\ Cardinality(s) = MaxEntities /\ s \subseteq states
        /\ \A r \in s : Rank(r) <= Rank(q)
    BY <1>3, <1>5, <1>8 DEF Capped
  <2> QED BY <1>1, <1>4, <1>6, <2>1
<1> QED BY <1>7, <1>8

\* The header counts what follows it.
LEMMA BroadcastCounted ==
  ASSUME TypeInv, Broadcast
  PROVE  Counted
<1>1. PICK list \in {states, Fallback(genSeq')} :
        \E s \in Capped(list) : frame' = Encode(s)
  BY DEF Broadcast
<1>2. PICK s \in Capped(list) : frame' = Encode(s)
  BY <1>1
<1>3. Cardinality(s) \in Nat /\ Cardinality(s) <= MaxEntities
  BY <1>1, <1>2, FallbackRecords, CappedPart DEF TypeInv
<1>4. MaxEntities < CountModulus => Cardinality(s) % CountModulus = Cardinality(s)
  <2>1. MaxEntities \in Nat /\ CountModulus \in Nat \ {0}
    BY BoundsAssumption
  <2> QED BY <1>3, <2>1, SmallResidue
<1> QED BY <1>2, <1>4 DEF Counted, Encode

\* However the feeds' goroutines interleave with a tick, the frame at its end
\* leaves out no entity that stayed active, is counted right and bears numbers
\* the last frame did not.
THEOREM FramesComplete == Spec => CompleteFrames
<1>1. TypeInv /\ TickInv /\ [Next]_vars
        => [Finishes => Complete /\ Counted /\ Renumbered]_vars
  <2> SUFFICES ASSUME TypeInv, TickInv, [Next]_vars, Finishes
               PROVE  Complete /\ Counted /\ Renumbered
    OBVIOUS
  <2>1. Broadcast
    BY OnlyBroadcastFinishes
  <2>2. Renumbered
    BY <2>1, TickBroadcast
    DEF Renumbered, TickInv, NumberInv, Broadcast, InTick
  <2> QED BY <2>1, <2>2, BroadcastComplete, BroadcastCounted
<1> QED
  BY <1>1, TypeInit, TypeNext, TickInit, TickNext, PTL DEF Spec, CompleteFrames

=============================================================================
