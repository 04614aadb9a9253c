-------------------------- MODULE ProjectionProofs --------------------------
(***************************************************************************)
(* Theorems about what is shown of the system elsewhere, for all values of   *)
(* the constants: the read models and event streams of ReadModel, and the    *)
(* milestones that AdoProgress tells Azure DevOps; and about MCPlatform,      *)
(* which has the lifecycle and the flows beside them.                         *)
(***************************************************************************)
EXTENDS MCPlatform, LifecycleProofs, FlowRunProofs, SequenceTheorems, WellFoundedInduction,
        NaturalsInduction

-----------------------------------------------------------------------------
(* ReadModel: the log says what the rows are, and its readers have all of it. *)

\* A number that others do not exceed, or fall below, is their maximum, or their minimum.
LEMMA MaxIs ==
  ASSUME NEW S \in SUBSET Nat, NEW n \in S, \A x \in S : x <= n
  PROVE  Max(S) = n
<1>1. \A x \in S : n >= x
  OBVIOUS
<1>2. \A m \in S : (\A y \in S : m >= y) => m = n
  OBVIOUS
<1> QED
  BY <1>1, <1>2 DEF Max

\* Numbers have a least one, and bounded ones a greatest.
LEMMA NatMin ==
  ASSUME NEW S \in SUBSET Nat, S # {}
  PROVE  \E n \in S : \A x \in S : n <= x
<1>1. PICK n \in S : \A x \in S : ~ (<<x, n>> \in OpToRel(<, Nat))
  BY NatLessThanWellFounded, WFMin
<1>2. \A x \in S : ~ (x < n)
  BY <1>1 DEF OpToRel
<1> QED
  BY <1>2

\* Min and Max are the least and the greatest.
LEMMA MinOf ==
  ASSUME NEW S \in SUBSET Nat, S # {}
  PROVE  Min(S) \in S /\ \A x \in S : Min(S) <= x
BY NatMin DEF Min

\* The same for the greatest of bounded numbers.
LEMMA MaxOf ==
  ASSUME NEW k \in Nat, NEW S \in SUBSET (0..k), S # {}
  PROVE  Max(S) \in S /\ \A x \in S : x <= Max(S)
<1> DEFINE T == {k - x : x \in S}
<1>1. T \in SUBSET Nat /\ T # {}
  <2>1. \A x \in S : k - x \in Nat
    OBVIOUS
  <2> QED
    BY <2>1
<1>2. PICK t \in T : \A x \in T : t <= x
  BY <1>1, NatMin
<1>3. PICK n \in S : t = k - n
  OBVIOUS
<1>4. ASSUME NEW x \in S PROVE x <= n
  <2>1. k - n <= k - x
    BY <1>2, <1>3
  <2>2. x \in Nat /\ n \in Nat
    OBVIOUS
  <2> QED
    BY <2>1, <2>2
<1> QED
  BY <1>4 DEF Max

\* What comes before one of the first comes with it.
LEMMA FirstClosed ==
  ASSUME NEW S, IsFiniteSet(S), S \in SUBSET Nat, NEW limit \in Nat, NEW n \in First(limit, S),
         NEW m \in S, m < n
  PROVE  m \in First(limit, S)
<1> DEFINE M == {x \in S : x < m}
           N == {x \in S : x < n}
<1>1. M \subseteq N
  <2>1. m \in Nat /\ n \in Nat
    BY DEF First
  <2>2. ASSUME NEW x \in S, x < m PROVE x < n
    <3>1. x \in Nat
      OBVIOUS
    <3> QED
      BY <2>1, <2>2, <3>1
  <2> QED
    BY <2>2
<1>2. IsFiniteSet(N)
  BY FS_Subset, N \subseteq S
<1>3. Cardinality(M) <= Cardinality(N) /\ Cardinality(M) \in Nat /\ Cardinality(N) \in Nat
  BY <1>1, <1>2, FS_Subset, FS_CardinalityType
<1>4. Cardinality(N) < limit
  BY DEF First
<1> QED
  BY <1>3, <1>4 DEF First

-----------------------------------------------------------------------------
Contents == Values \cup {Absent}

\* The rows of the log, and of a transaction.
EventRow == UNION {[entity : {e}, payload : [PartsOf(e) -> Contents]] : e \in Entities}
TxnRow ==
  [rows : UNION {[D -> Contents] : D \in SUBSET Parts},
   events : UNION {[D -> EventRow] : D \in SUBSET Nat}]

SourceRows ==
  /\ source \in [Parts -> Contents] /\ txn \in [Writers -> TxnRow]
  /\ nextId \in 1..(MaxEvents + 1)
  /\ events \in UNION {[D -> EventRow] : D \in SUBSET (1..(nextId - 1))}

\* An id belongs to one transaction or to the log, and a row to one transaction.
DrawnOnce ==
  \A w \in Writers :
    /\ Drawn(w) \subseteq 1..(nextId - 1) \ DOMAIN events
    /\ \A v \in Writers \ {w} :
         Drawn(v) \cap Drawn(w) = {} /\ DOMAIN txn[v].rows \cap DOMAIN txn[w].rows = {}

Sole(p) == PartsOf(EntityOf[p]) = {p}
OwnDrawn(w, p) == {n \in Drawn(w) : txn[w].events[n].entity = EntityOf[p]}

\* The last event of own has the value.
LastSays(own, log, p, value) ==
  \E n \in own : (\A m \in own : m <= n) /\ log[n].payload[p] = value

\* A row that is an entity of its own is what its newest event says, in the log and in the
\* transaction that changed it, which holds the only events of it that are to come.
SourceLogged ==
  \A p \in Parts : Sole(p) =>
    LET own == EventsOf(EntityOf[p]) IN
    IF own = {} THEN source[p] = Absent ELSE LastSays(own, events, p, source[p])

TxnLogged ==
  \A w \in Writers, p \in Parts : Sole(p) =>
    LET own == OwnDrawn(w, p) IN
    /\ p \notin DOMAIN txn[w].rows => own = {}
    /\ p \in DOMAIN txn[w].rows => LastSays(own, txn[w].events, p, txn[w].rows[p])
    /\ \A n \in own, m \in EventsOf(EntityOf[p]) : m < n

SourceInv == SourceRows /\ DrawnOnce /\ SourceLogged /\ TxnLogged

\* Who has no transaction has an empty one.
LEMMA NoTxnRow == NoTxn \in TxnRow
<1>1. <<>> \in [{} -> Contents] /\ <<>> \in [{} -> EventRow]
  OBVIOUS
<1>2. {} \in SUBSET Parts /\ {} \in SUBSET Nat
  OBVIOUS
<1> QED
  BY <1>1, <1>2 DEF NoTxn, TxnRow

\* Nothing was written at first.
LEMMA SourceBegins == ReadModelInit => SourceInv
<1> SUFFICES ASSUME ReadModelInit PROVE SourceInv
  OBVIOUS
<1> USE ReadModelAssumption DEF ReadModelInit
<1>1. DOMAIN NoTxn.rows = {} /\ DOMAIN NoTxn.events = {} /\ DOMAIN events = {}
  BY DEF NoTxn
<1>2. NoTxn \in TxnRow
  BY NoTxnRow
<1>3. SourceRows
  <2>1. events \in [{} -> EventRow] /\ {} \in SUBSET (1..(nextId - 1))
    OBVIOUS
  <2>2. 1 \in 1..(MaxEvents + 1)
    OBVIOUS
  <2> QED
    BY <1>2, <2>1, <2>2 DEF SourceRows, Contents
<1>4. DrawnOnce
  BY <1>1 DEF DrawnOnce, Drawn
<1>5. SourceLogged
  BY <1>1 DEF SourceLogged, EventsOf
<1>6. TxnLogged
  BY <1>1 DEF TxnLogged, OwnDrawn, Drawn
<1> QED
  BY <1>3, <1>4, <1>5, <1>6 DEF SourceInv

\* A transaction is a row of partial functions.
LEMMA TxnIs ==
  ASSUME SourceRows, NEW w \in Writers
  PROVE  \E P \in SUBSET Parts, D \in SUBSET Nat :
           txn[w].rows \in [P -> Contents] /\ txn[w].events \in [D -> EventRow]
<1>1. txn[w] \in TxnRow
  BY DEF SourceRows
<1> QED
  BY <1>1 DEF TxnRow

\* The log is a partial function of the ids drawn.
LEMMA LogIs ==
  ASSUME SourceRows
  PROVE  \E D \in SUBSET (1..(nextId - 1)) : events \in [D -> EventRow]
BY DEF SourceRows

\* An event is of one entity, with its payload.
LEMMA EventIs ==
  ASSUME NEW n \in EventRow
  PROVE  /\ n.entity \in Entities /\ n.payload \in [PartsOf(n.entity) -> Contents]
         /\ n = [entity |-> n.entity, payload |-> n.payload]
BY DEF EventRow

\* The event that a transaction draws comes after all others, and says what its row holds.
LEMMA WriteKept ==
  ASSUME SourceInv, NEW w \in Writers, NEW p \in Parts, NEW value \in Contents, Write(w, p, value)
  PROVE  SourceInv'
<1> DEFINE rows == Over(txn[w].rows, [q \in {p} |-> value])
           e == EntityOf[p]
           event == [entity |-> e, payload |-> [q \in PartsOf(e) |-> Over(source, rows)[q]]]
           log == Over(txn[w].events, [n \in {nextId} |-> event])
<1>1. /\ Unlocked(w, p) /\ nextId <= MaxEvents /\ nextId' = nextId + 1
      /\ txn' = [txn EXCEPT ![w] = [rows |-> rows, events |-> log]]
      /\ UNCHANGED <<source, events, model, cursor, stream, late>>
      /\ nextId \in 1..(MaxEvents + 1) /\ MaxEvents \in Nat /\ e \in Entities
      /\ source \in [Parts -> Contents] /\ txn \in [Writers -> TxnRow]
  BY ReadModelAssumption DEF Write, SourceInv, SourceRows
<1> PICK P \in SUBSET Parts, D \in SUBSET Nat :
           txn[w].rows \in [P -> Contents] /\ txn[w].events \in [D -> EventRow]
  BY TxnIs DEF SourceInv
<1>2. /\ rows \in [P \cup {p} -> Contents] /\ P \cup {p} \in SUBSET Parts /\ rows[p] = value
      /\ \A q \in P \ {p} : rows[q] = txn[w].rows[q]
  BY DEF Over
<1> HIDE DEF rows
<1>3. /\ Over(source, rows) \in [Parts -> Contents] /\ Over(source, rows)[p] = value
  BY <1>1, <1>2 DEF Over
<1>4. event \in EventRow /\ event.entity = e /\ (p \in PartsOf(e) => event.payload[p] = value)
  <2>1. PartsOf(e) \subseteq Parts
    BY DEF PartsOf
  <2>2. [q \in PartsOf(e) |-> Over(source, rows)[q]] \in [PartsOf(e) -> Contents]
    BY <1>3, <2>1
  <2>3. event \in [entity : {e}, payload : [PartsOf(e) -> Contents]]
    BY <2>2
  <2> QED
    BY <1>1, <1>3, <2>3 DEF EventRow
<1> HIDE DEF event
<1>5. /\ log \in [D \cup {nextId} -> EventRow] /\ D \cup {nextId} \in SUBSET Nat
      /\ log[nextId] = event /\ \A n \in D \ {nextId} : log[n] = txn[w].events[n]
  BY <1>1, <1>4 DEF Over
<1> HIDE DEF log
<1>6. /\ txn' \in [Writers -> TxnRow] /\ txn'[w].rows = rows /\ txn'[w].events = log
      /\ \A v \in Writers \ {w} : txn'[v] = txn[v]
  <2>1. [rows |-> rows, events |-> log] \in TxnRow
    BY <1>2, <1>5 DEF TxnRow
  <2> QED
    BY <1>1, <2>1
<1>7. /\ Drawn(w) = D /\ D \subseteq 1..(nextId - 1) /\ Drawn(w)' = D \cup {nextId}
      /\ \A v \in Writers \ {w} : Drawn(v)' = Drawn(v) /\ Drawn(v) \subseteq 1..(nextId - 1)
  BY <1>5, <1>6 DEF Drawn, SourceInv, DrawnOnce
<1>8. DOMAIN events \subseteq 1..(nextId - 1) /\ nextId \notin 1..(nextId - 1)
      /\ 1..(nextId - 1) \subseteq 1..(nextId' - 1) /\ nextId \in 1..(nextId' - 1)
      /\ nextId' \in 1..(MaxEvents + 1)
  <2>1. PICK L \in SUBSET (1..(nextId - 1)) : events \in [L -> EventRow]
    BY LogIs DEF SourceInv
  <2>2. DOMAIN events = L
    BY <2>1
  <2> QED
    BY <1>1, <2>2
<1>9. SourceRows'
  <2>1. PICK L \in SUBSET (1..(nextId - 1)) : events \in [L -> EventRow]
    BY LogIs DEF SourceInv
  <2>2. events' \in [L -> EventRow] /\ L \in SUBSET (1..(nextId' - 1))
    BY <1>1, <1>8, <2>1
  <2> QED
    BY <1>1, <1>6, <1>8, <2>2 DEF SourceRows
<1>10. DrawnOnce'
  <2> SUFFICES ASSUME NEW v \in Writers
               PROVE  /\ Drawn(v)' \subseteq 1..(nextId' - 1) \ DOMAIN events'
                      /\ \A u \in Writers \ {v} :
                           /\ Drawn(u)' \cap Drawn(v)' = {}
                           /\ DOMAIN txn'[u].rows \cap DOMAIN txn'[v].rows = {}
    BY DEF DrawnOnce
  <2>1. Drawn(v)' \subseteq 1..(nextId' - 1) \ DOMAIN events'
    BY <1>1, <1>7, <1>8 DEF SourceInv, DrawnOnce
  <2>2. ASSUME NEW u \in Writers \ {v}
        PROVE  Drawn(u)' \cap Drawn(v)' = {}
    BY <1>7, <1>8 DEF SourceInv, DrawnOnce
  <2>3. ASSUME NEW u \in Writers \ {v}
        PROVE  DOMAIN txn'[u].rows \cap DOMAIN txn'[v].rows = {}
    <3>1. DOMAIN txn[u].rows \cap DOMAIN txn[v].rows = {}
      BY DEF SourceInv, DrawnOnce
    <3>2. \A x \in Writers \ {w} : p \notin DOMAIN txn[x].rows
      BY <1>1 DEF Unlocked
    <3>3. DOMAIN txn[w].rows = P /\ DOMAIN txn'[w].rows = P \cup {p}
      BY <1>2, <1>6
    <3> QED
      BY <1>6, <3>1, <3>2, <3>3
  <2> QED
    BY <2>1, <2>2, <2>3
<1>11. SourceLogged'
  BY <1>1 DEF SourceInv, SourceLogged, EventsOf, LastSays
<1>12. TxnLogged'
  <2> SUFFICES ASSUME NEW v \in Writers, NEW q \in Parts, Sole(q)
               PROVE  /\ q \notin DOMAIN txn'[v].rows => OwnDrawn(v, q)' = {}
                      /\ q \in DOMAIN txn'[v].rows =>
                           LastSays(OwnDrawn(v, q)', txn'[v].events, q, txn'[v].rows[q])
                      /\ \A n \in OwnDrawn(v, q)', m \in EventsOf(EntityOf[q])' : m < n
    BY DEF TxnLogged
  <2>1. /\ EventsOf(EntityOf[q])' = EventsOf(EntityOf[q])
        /\ EventsOf(EntityOf[q]) \subseteq 1..(nextId - 1)
    BY <1>1, <1>8 DEF EventsOf
  <2>2. /\ q \notin DOMAIN txn[v].rows => OwnDrawn(v, q) = {}
        /\ q \in DOMAIN txn[v].rows =>
             LastSays(OwnDrawn(v, q), txn[v].events, q, txn[v].rows[q])
        /\ \A n \in OwnDrawn(v, q), m \in EventsOf(EntityOf[q]) : m < n
    BY DEF SourceInv, TxnLogged
  <2>3. CASE v # w
    <3>1. OwnDrawn(v, q)' = OwnDrawn(v, q) /\ txn'[v] = txn[v]
      BY <2>3, <1>6 DEF OwnDrawn, Drawn
    <3> QED
      BY <2>1, <2>2, <3>1
  <2>4. CASE v = w /\ EntityOf[q] # e
    <3>1. OwnDrawn(w, q)' = OwnDrawn(w, q)
      BY <2>4, <1>4, <1>5, <1>6, <1>7, <1>8 DEF OwnDrawn
    <3>2. q # p /\ DOMAIN txn[w].rows = P /\ DOMAIN txn'[w].rows = P \cup {p}
      BY <2>4, <1>2, <1>6
    <3>3. \A n \in OwnDrawn(w, q) : txn'[w].events[n] = txn[w].events[n]
      BY <1>5, <1>6, <1>7, <1>8 DEF OwnDrawn
    <3>4. q \in P => txn'[w].rows[q] = txn[w].rows[q]
      BY <1>2, <1>6, <3>2
    <3> QED
      BY <2>1, <2>2, <2>4, <3>1, <3>2, <3>3, <3>4 DEF LastSays
  <2>5. CASE v = w /\ EntityOf[q] = e
    <3>1. p = q
      <4>1. p \in PartsOf(EntityOf[q])
        BY <2>5 DEF PartsOf
      <4> QED
        BY <4>1 DEF Sole
    <3>2. p \in PartsOf(e)
      BY DEF PartsOf
    <3>3. nextId \in OwnDrawn(w, q)' /\ OwnDrawn(w, q)' \subseteq OwnDrawn(w, q) \cup {nextId}
      BY <2>5, <1>4, <1>5, <1>6, <1>7, <1>8 DEF OwnDrawn
    <3>4. OwnDrawn(w, q) \subseteq 1..(nextId - 1)
      BY <1>7 DEF OwnDrawn
    <3>5. q \in DOMAIN txn'[w].rows /\ txn'[w].rows[q] = value
      BY <1>2, <1>6, <3>1
    <3>6. txn'[w].events[nextId].payload[q] = value
      BY <1>4, <1>5, <1>6, <3>1, <3>2
    <3>7. \A m \in 1..(nextId - 1) : m < nextId
      BY <1>1
    <3>8. nextId <= nextId
      BY <1>1
    <3>9. ASSUME NEW m \in OwnDrawn(w, q)' PROVE m <= nextId
      <4>1. m = nextId \/ (m \in 1..(nextId - 1) /\ m < nextId)
        BY <3>3, <3>4, <3>7
      <4> QED
        BY <1>1, <4>1
    <3>10. LastSays(OwnDrawn(w, q)', txn'[w].events, q, txn'[w].rows[q])
      BY <3>3, <3>5, <3>6, <3>9 DEF LastSays
    <3>11. \A n \in OwnDrawn(w, q)', m \in EventsOf(EntityOf[q])' : m < n
      BY <2>1, <2>2, <2>5, <3>3, <3>7
    <3> QED
      BY <2>5, <3>5, <3>10, <3>11
  <2> QED
    BY <2>3, <2>4, <2>5
<1> QED
  BY <1>9, <1>10, <1>11, <1>12 DEF SourceInv

\* What a commit adds to the log is what the transaction drew.
LEMMA CommitIs ==
  ASSUME SourceInv, NEW w \in Writers, Commit(w)
  PROVE  /\ DOMAIN events' = DOMAIN events \cup Drawn(w) /\ DOMAIN events \cap Drawn(w) = {}
         /\ \A n \in DOMAIN events : events'[n] = events[n]
         /\ \A n \in Drawn(w) : events'[n] = txn[w].events[n]
<1>1. events' = Over(events, txn[w].events)
  BY DEF Commit
<1>2. DOMAIN events \cap Drawn(w) = {}
  BY DEF SourceInv, DrawnOnce
<1>3. /\ DOMAIN events' = DOMAIN events \cup DOMAIN txn[w].events
      /\ \A n \in DOMAIN txn[w].events : events'[n] = txn[w].events[n]
      /\ \A n \in DOMAIN events \ DOMAIN txn[w].events : events'[n] = events[n]
  BY <1>1 DEF Over
<1> QED
  BY <1>2, <1>3 DEF Drawn

\* Where a row is changed by no transaction, the log has all its events.
LEMMA CommitKept ==
  ASSUME SourceInv, NEW w \in Writers, Commit(w)
  PROVE  SourceInv'
<1>1. /\ source' = Over(source, txn[w].rows) /\ events' = Over(events, txn[w].events)
      /\ txn' = [txn EXCEPT ![w] = NoTxn] /\ UNCHANGED <<nextId, model, cursor, stream>>
      /\ source \in [Parts -> Contents] /\ txn \in [Writers -> TxnRow]
      /\ nextId \in 1..(MaxEvents + 1)
  BY DEF Commit, Visible, SourceInv, SourceRows
<1> PICK P \in SUBSET Parts, D \in SUBSET Nat :
           txn[w].rows \in [P -> Contents] /\ txn[w].events \in [D -> EventRow]
  BY TxnIs DEF SourceInv
<1> PICK L \in SUBSET (1..(nextId - 1)) : events \in [L -> EventRow]
  BY LogIs DEF SourceInv
<1>2. /\ DOMAIN events = L /\ Drawn(w) = D /\ D \subseteq 1..(nextId - 1) /\ L \cap D = {}
      /\ DOMAIN events' = L \cup D
      /\ \A n \in L : events'[n] = events[n]
      /\ \A n \in D : events'[n] = txn[w].events[n]
  BY CommitIs DEF Drawn, SourceInv, DrawnOnce
<1>3. /\ source' \in [Parts -> Contents]
      /\ \A p \in P : source'[p] = txn[w].rows[p]
      /\ \A p \in Parts \ P : source'[p] = source[p]
      /\ DOMAIN txn[w].rows = P
  BY <1>1 DEF Over
<1>4. /\ txn' \in [Writers -> TxnRow] /\ DOMAIN txn'[w].rows = {} /\ Drawn(w)' = {}
      /\ \A v \in Writers \ {w} : txn'[v] = txn[v] /\ Drawn(v)' = Drawn(v)
  <2>1. NoTxn \in TxnRow
    BY NoTxnRow
  <2>2. txn'[w] = NoTxn /\ \A v \in Writers \ {w} : txn'[v] = txn[v]
    BY <1>1
  <2>3. DOMAIN NoTxn.rows = {} /\ DOMAIN NoTxn.events = {}
    BY DEF NoTxn
  <2> QED
    BY <1>1, <2>1, <2>2, <2>3 DEF Drawn
<1>5. SourceRows'
  <2>1. events' \in [L \cup D -> EventRow]
    BY <1>1 DEF Over
  <2>2. L \cup D \in SUBSET (1..(nextId' - 1))
    BY <1>1, <1>2
  <2> QED
    BY <1>1, <1>3, <1>4, <2>1, <2>2 DEF SourceRows
<1>6. DrawnOnce'
  <2>1. \A v \in Writers : Drawn(v)' \subseteq 1..(nextId' - 1) \ DOMAIN events'
    <3>1. \A v \in Writers \ {w} : Drawn(v) \subseteq 1..(nextId - 1) \ (DOMAIN events \cup D)
      BY <1>2 DEF SourceInv, DrawnOnce
    <3> QED
      BY <1>1, <1>2, <1>4, <3>1
  <2>2. ASSUME NEW v \in Writers, NEW u \in Writers \ {v}
        PROVE  Drawn(u)' \cap Drawn(v)' = {} /\ DOMAIN txn'[u].rows \cap DOMAIN txn'[v].rows = {}
    BY <1>4 DEF SourceInv, DrawnOnce
  <2> QED
    BY <2>1, <2>2 DEF DrawnOnce
<1>7. ASSUME NEW p \in Parts, Sole(p)
      PROVE  /\ EventsOf(EntityOf[p])' = EventsOf(EntityOf[p]) \cup OwnDrawn(w, p)
             /\ p \notin P => OwnDrawn(w, p) = {}
             /\ p \in P => LastSays(OwnDrawn(w, p), txn[w].events, p, txn[w].rows[p])
             /\ \A n \in OwnDrawn(w, p), m \in EventsOf(EntityOf[p]) : m < n
             /\ OwnDrawn(w, p) \subseteq D /\ EventsOf(EntityOf[p]) \subseteq L
  <2>1. EventsOf(EntityOf[p])' = EventsOf(EntityOf[p]) \cup OwnDrawn(w, p)
    BY <1>2 DEF EventsOf, OwnDrawn
  <2> QED
    BY <1>2, <1>3, <1>7, <2>1 DEF SourceInv, TxnLogged, EventsOf, OwnDrawn
<1>8. SourceLogged'
  <2> SUFFICES ASSUME NEW p \in Parts, Sole(p)
               PROVE  IF EventsOf(EntityOf[p])' = {} THEN source'[p] = Absent
                      ELSE LastSays(EventsOf(EntityOf[p])', events', p, source'[p])
    BY DEF SourceLogged
  <2>1. CASE p \notin P
    <3>1. EventsOf(EntityOf[p])' = EventsOf(EntityOf[p]) /\ source'[p] = source[p]
      BY <2>1, <1>3, <1>7
    <3>2. \A n \in EventsOf(EntityOf[p]) : events'[n] = events[n]
      BY <1>2, <1>7
    <3> QED
      BY <3>1, <3>2 DEF SourceInv, SourceLogged, LastSays
  <2>2. CASE p \in P
    <3>1. PICK n \in OwnDrawn(w, p) : /\ \A m \in OwnDrawn(w, p) : m <= n
                                     /\ txn[w].events[n].payload[p] = txn[w].rows[p]
      BY <2>2, <1>7 DEF LastSays
    <3>2. n \in D /\ events'[n] = txn[w].events[n] /\ source'[p] = txn[w].rows[p]
      BY <2>2, <3>1, <1>2, <1>3, <1>7
    <3>3. ASSUME NEW m \in EventsOf(EntityOf[p])' PROVE m <= n
      <4>1. m \in OwnDrawn(w, p) \/ m < n
        BY <1>7, <3>1
      <4>2. m \in Nat /\ n \in Nat
        <5>1. EventsOf(EntityOf[p])' \subseteq L \cup D
          BY <1>7
        <5>2. L \subseteq Nat /\ D \subseteq Nat
          OBVIOUS
        <5> QED
          BY <1>7, <5>1, <5>2
      <4> QED
        BY <4>1, <4>2, <3>1
    <3>4. n \in EventsOf(EntityOf[p])'
      BY <1>7
    <3> QED
      BY <3>1, <3>2, <3>3, <3>4 DEF LastSays
  <2> QED
    BY <2>1, <2>2
<1>9. TxnLogged'
  <2> SUFFICES ASSUME NEW v \in Writers, NEW p \in Parts, Sole(p)
               PROVE  /\ p \notin DOMAIN txn'[v].rows => OwnDrawn(v, p)' = {}
                      /\ p \in DOMAIN txn'[v].rows =>
                           LastSays(OwnDrawn(v, p)', txn'[v].events, p, txn'[v].rows[p])
                      /\ \A n \in OwnDrawn(v, p)', m \in EventsOf(EntityOf[p])' : m < n
    BY DEF TxnLogged
  <2>1. CASE v = w
    BY <2>1, <1>4 DEF OwnDrawn
  <2>2. CASE v # w
    <3>1. OwnDrawn(v, p)' = OwnDrawn(v, p) /\ txn'[v] = txn[v]
      BY <2>2, <1>4 DEF OwnDrawn
    <3>2. /\ p \notin DOMAIN txn[v].rows => OwnDrawn(v, p) = {}
          /\ p \in DOMAIN txn[v].rows =>
               LastSays(OwnDrawn(v, p), txn[v].events, p, txn[v].rows[p])
          /\ \A n \in OwnDrawn(v, p), m \in EventsOf(EntityOf[p]) : m < n
      BY DEF SourceInv, TxnLogged
    <3>3. p \in DOMAIN txn[v].rows => p \notin P
      BY <2>2, <1>3 DEF SourceInv, DrawnOnce
    <3> QED
      BY <3>1, <3>2, <3>3, <1>7
  <2> QED
    BY <2>1, <2>2
<1> QED
  BY <1>5, <1>6, <1>8, <1>9 DEF SourceInv

\* A rollback leaves its ids to nobody.
LEMMA RollbackKept ==
  ASSUME SourceInv, NEW w \in Writers, Rollback(w)
  PROVE  SourceInv'
<1>1. /\ txn' = [txn EXCEPT ![w] = NoTxn] /\ txn \in [Writers -> TxnRow]
      /\ UNCHANGED <<source, events, nextId, model, cursor, stream, late>>
  BY DEF Rollback, SourceInv, SourceRows
<1>2. DOMAIN NoTxn.rows = {} /\ DOMAIN NoTxn.events = {}
  BY DEF NoTxn
<1>3. /\ txn' \in [Writers -> TxnRow] /\ DOMAIN txn'[w].rows = {} /\ Drawn(w)' = {}
      /\ \A v \in Writers \ {w} : txn'[v] = txn[v] /\ Drawn(v)' = Drawn(v)
  BY <1>1, <1>2, NoTxnRow DEF Drawn
<1>4. SourceRows' /\ SourceLogged'
  BY <1>1, <1>3 DEF SourceInv, SourceRows, SourceLogged, EventsOf, LastSays
<1>5. DrawnOnce'
  <2>1. \A v \in Writers : Drawn(v)' \subseteq 1..(nextId' - 1) \ DOMAIN events'
    BY <1>1, <1>3 DEF SourceInv, DrawnOnce
  <2>2. ASSUME NEW v \in Writers, NEW u \in Writers \ {v}
        PROVE  Drawn(u)' \cap Drawn(v)' = {} /\ DOMAIN txn'[u].rows \cap DOMAIN txn'[v].rows = {}
    BY <1>3 DEF SourceInv, DrawnOnce
  <2> QED
    BY <2>1, <2>2 DEF DrawnOnce
<1>6. TxnLogged'
  <2> SUFFICES ASSUME NEW v \in Writers, NEW p \in Parts, Sole(p)
               PROVE  /\ p \notin DOMAIN txn'[v].rows => OwnDrawn(v, p)' = {}
                      /\ p \in DOMAIN txn'[v].rows =>
                           LastSays(OwnDrawn(v, p)', txn'[v].events, p, txn'[v].rows[p])
                      /\ \A n \in OwnDrawn(v, p)', m \in EventsOf(EntityOf[p])' : m < n
    BY DEF TxnLogged
  <2>1. CASE v = w
    BY <2>1, <1>3 DEF OwnDrawn
  <2>2. CASE v # w
    <3>1. /\ OwnDrawn(v, p)' = OwnDrawn(v, p) /\ txn'[v] = txn[v]
          /\ EventsOf(EntityOf[p])' = EventsOf(EntityOf[p])
      BY <2>2, <1>1, <1>3 DEF OwnDrawn, EventsOf
    <3> QED
      BY <3>1 DEF SourceInv, TxnLogged
  <2> QED
    BY <2>1, <2>2
<1> QED
  BY <1>4, <1>5, <1>6 DEF SourceInv

\* Readers change nothing of the rows.
LEMMA SourceKept == SourceInv /\ [ReadModelNext]_readModelVars => SourceInv'
<1> SUFFICES ASSUME SourceInv, [ReadModelNext]_readModelVars
             PROVE  SourceInv'
  OBVIOUS
<1>1. CASE UNCHANGED <<source, txn, events, nextId>>
  BY <1>1 DEF SourceInv, SourceRows, DrawnOnce, Drawn, SourceLogged, TxnLogged, EventsOf, OwnDrawn,
     LastSays
<1>2. CASE UNCHANGED readModelVars
  BY <1>1, <1>2 DEF readModelVars
<1>3. CASE ReadModelNext
  BY <1>1, <1>3, WriteKept, CommitKept, RollbackKept
     DEF ReadModelNext, AdvanceStore, Rebuild, Fetch, Deliver, Reconnect, Contents
<1> QED
  BY <1>2, <1>3

\* The newest event of an own row says what it is, so the property holds.
LEMMA NewestFollows == SourceInv => NewestIsSource
<1> SUFFICES ASSUME SourceInv, NEW p \in Parts, Sole(p)
             PROVE  LET own == EventsOf(EntityOf[p]) IN
                    source[p] = IF own = {} THEN Absent ELSE events[Max(own)].payload[p]
  BY DEF NewestIsSource, Sole
<1>1. CASE EventsOf(EntityOf[p]) = {}
  BY <1>1 DEF SourceInv, SourceLogged
<1>2. CASE EventsOf(EntityOf[p]) # {}
  <2>1. PICK n \in EventsOf(EntityOf[p]) :
          (\A m \in EventsOf(EntityOf[p]) : m <= n) /\ events[n].payload[p] = source[p]
    BY <1>2 DEF SourceInv, SourceLogged, LastSays
  <2>2. EventsOf(EntityOf[p]) \in SUBSET Nat
    <3>1. PICK L \in SUBSET (1..(nextId - 1)) : events \in [L -> EventRow]
      BY LogIs DEF SourceInv
    <3>2. L \subseteq Nat /\ DOMAIN events = L
      BY <3>1
    <3> QED
      BY <3>2 DEF EventsOf
  <2>3. Max(EventsOf(EntityOf[p])) = n
    BY <2>1, <2>2, MaxIs
  <2> QED
    BY <1>2, <2>1, <2>3
<1> QED
  BY <1>1, <1>2

\* Whoever commits or rolls back in between, a row that is an entity of its own is what its
\* newest event says (migration 0005, emit_read_model_event), for any number of rows, sessions
\* and events.
THEOREM NewestShown == ReadModelSpec => []NewestIsSource
BY SourceBegins, SourceKept, NewestFollows, PTL DEF ReadModelSpec

-----------------------------------------------------------------------------
\* What an entity's row is after event n.
Shown(e, n) ==
  IF ~Aggregate(e) /\ \A p \in PartsOf(e) : events[n].payload[p] = Absent THEN NoRow
  ELSE [id |-> n, payload |-> events[n].payload]

OwnOf(e, batch) == {n \in batch : events[n].entity = e}

\* What one replay of the ids makes of an entity.
Replayed(e, ids) == IF OwnOf(e, ids) = {} THEN NoRow ELSE Shown(e, Max(OwnOf(e, ids)))

UpTo(id) == {n \in DOMAIN events : n <= id}

ReaderRows ==
  /\ cursor \in 0..(nextId - 1)
  /\ stream \in [Streams -> [last : 0..(nextId - 1), got : SUBSET (1..(nextId - 1)),
                             batch : SUBSET (1..(nextId - 1))]]
  /\ late \in [Streams \cup {Store} -> SUBSET (1..(nextId - 1))]
  /\ DOMAIN model = Entities
  /\ \A e \in Entities : model[e] = NoRow \/ model[e].id \in DOMAIN events

\* But for the entities with late events, the store shows a replay up to its cursor.
StoreShows ==
  \A e \in Entities :
    EventsOf(e) \cap late[Store] = {} => model[e] = Replayed(e, UpTo(cursor))

\* But for late events, a client has all up to the last it received, and the rest of its batch
\* is all from there to any of it.
StreamHas ==
  \A s \in Streams :
    /\ \A m \in stream[s].batch : stream[s].last < m /\ m \in DOMAIN events
    /\ \A n \in DOMAIN events \ late[s] :
         /\ n <= stream[s].last => n \in stream[s].got
         /\ \A m \in stream[s].batch :
              stream[s].last < n /\ n <= m => n \in stream[s].batch

\* The inductive invariant of the read model.
ReadInv == SourceInv /\ ReaderRows /\ StoreShows /\ StreamHas

\* An entity takes the newest of its events.
LEMMA AppliedIs ==
  ASSUME NEW rows, NEW ids, NEW e \in Entities
  PROVE  Applied(rows, ids)[e] =
           IF OwnOf(e, ids) = {} THEN rows[e] ELSE Shown(e, Max(OwnOf(e, ids)))
BY DEF Applied, OwnOf, Shown

\* There was nothing to read at first.
LEMMA ReadBegins == ReadModelInit => ReadInv
<1> SUFFICES ASSUME ReadModelInit PROVE ReadInv
  OBVIOUS
<1>1. SourceInv
  BY SourceBegins
<1>2. ReaderRows
  BY ReadModelAssumption DEF ReadModelInit, ReaderRows, Store
<1>3. DOMAIN events = {}
  BY DEF ReadModelInit
<1>4. StoreShows /\ StreamHas
  BY <1>3 DEF ReadModelInit, StoreShows, StreamHas, Replayed, OwnOf, UpTo
<1> QED
  BY <1>1, <1>2, <1>4 DEF ReadInv

\* The ids of the log are numbers that were drawn.
LEMMA LogIds ==
  ASSUME SourceInv
  PROVE  /\ DOMAIN events \subseteq 1..(nextId - 1) /\ IsFiniteSet(DOMAIN events)
         /\ nextId - 1 \in Nat /\ DOMAIN events \in SUBSET Nat
         /\ \A n \in DOMAIN events : events[n] \in EventRow
<1>1. PICK L \in SUBSET (1..(nextId - 1)) : events \in [L -> EventRow]
  BY LogIs DEF SourceInv
<1>2. nextId - 1 \in Nat
  BY ReadModelAssumption DEF SourceInv, SourceRows
<1>3. DOMAIN events = L
  BY <1>1
<1>4. IsFiniteSet(1..(nextId - 1))
  BY <1>2, FS_Interval
<1>5. IsFiniteSet(L)
  BY <1>4, FS_Subset
<1> QED
  BY <1>1, <1>2, <1>3, <1>5

\* A batch takes its reader from where it is to its last id, with all there is in between.
LEMMA BatchIs ==
  ASSUME SourceInv, NEW id \in Nat, NEW limit \in Limits
  PROVE  /\ First(limit, After(id)) \subseteq After(id)
         /\ \A n \in DOMAIN events, m \in First(limit, After(id)) :
              id < n /\ n <= m => n \in First(limit, After(id))
<1>1. After(id) \subseteq DOMAIN events
  BY DEF After
<1>2. IsFiniteSet(After(id)) /\ After(id) \in SUBSET Nat
  BY <1>1, LogIds, FS_Subset
<1>3. First(limit, After(id)) \subseteq After(id)
  BY DEF First
<1>4. ASSUME NEW n \in DOMAIN events, NEW m \in First(limit, After(id)), id < n, n <= m
      PROVE  n \in First(limit, After(id))
  <2>1. n \in After(id) /\ n \in Nat /\ m \in Nat
    BY <1>2, <1>3, <1>4, LogIds DEF After
  <2>2. n = m \/ n < m
    BY <1>4, <2>1
  <2>3. limit \in Nat
    BY ReadModelAssumption
  <2> QED
    BY <1>2, <1>4, <2>1, <2>2, <2>3, FirstClosed
<1> QED
  BY <1>3, <1>4

\* Replayed on top of what is replayed up to here, later events make what one replay makes.
LEMMA ReplayOn ==
  ASSUME SourceInv, NEW e \in Entities, NEW old, NEW new,
         old \subseteq DOMAIN events, new \subseteq DOMAIN events, \A n \in old, m \in new : n < m,
         NEW rows, rows[e] = Replayed(e, old)
  PROVE  Applied(rows, new)[e] = Replayed(e, old \cup new)
<1>1. OwnOf(e, old \cup new) = OwnOf(e, old) \cup OwnOf(e, new)
  BY DEF OwnOf
<1>2. CASE OwnOf(e, new) = {}
  BY <1>1, <1>2, AppliedIs DEF Replayed
<1>3. CASE OwnOf(e, new) # {}
  <2>1. /\ OwnOf(e, new) \in SUBSET (0..(nextId - 1)) /\ nextId - 1 \in Nat
        /\ OwnOf(e, old \cup new) \in SUBSET Nat
    BY LogIds DEF OwnOf
  <2>2. PICK n \in OwnOf(e, new) : n = Max(OwnOf(e, new)) /\ \A m \in OwnOf(e, new) : m <= n
    BY <1>3, <2>1, MaxOf
  <2>3. ASSUME NEW m \in OwnOf(e, old \cup new) PROVE m <= n
    <3>1. m \in Nat /\ n \in Nat
      BY <2>1
    <3>2. CASE m \in OwnOf(e, new)
      BY <2>2, <3>2
    <3>3. CASE m \in OwnOf(e, old)
      BY <3>1, <3>3 DEF OwnOf
    <3> QED
      BY <1>1, <3>2, <3>3
  <2>4. n \in OwnOf(e, old \cup new)
    BY <1>1
  <2>5. Max(OwnOf(e, old \cup new)) = n
    BY <2>1, <2>3, <2>4, MaxIs
  <2> QED
    BY <1>3, <2>2, <2>4, <2>5, AppliedIs DEF Replayed
<1> QED
  BY <1>2, <1>3

\* Rows of the model name an event of the log.
LEMMA ReplayTyped ==
  ASSUME SourceInv, NEW e \in Entities, NEW ids, ids \subseteq DOMAIN events
  PROVE  OwnOf(e, ids) # {} =>
           Shown(e, Max(OwnOf(e, ids))) = NoRow \/ Shown(e, Max(OwnOf(e, ids))).id \in DOMAIN events
<1> SUFFICES ASSUME OwnOf(e, ids) # {}
             PROVE  Max(OwnOf(e, ids)) \in DOMAIN events
  BY DEF Shown
<1>1. OwnOf(e, ids) \in SUBSET (0..(nextId - 1)) /\ nextId - 1 \in Nat
  BY LogIds DEF OwnOf
<1>2. Max(OwnOf(e, ids)) \in OwnOf(e, ids)
  BY <1>1, MaxOf
<1> QED
  BY <1>2 DEF OwnOf

\* A batch of the store is all that comes next.
LEMMA AdvanceKept ==
  ASSUME ReadInv, NEW limit \in Limits, AdvanceStore(limit)
  PROVE  ReaderRows' /\ StoreShows' /\ StreamHas'
<1> DEFINE batch == First(limit, After(cursor))
<1>1. /\ batch # {} /\ model' = Applied(model, batch) /\ cursor' = Max(batch)
      /\ UNCHANGED <<source, txn, events, nextId, stream, late>> /\ SourceInv /\ ReaderRows
      /\ cursor \in Nat
  BY DEF AdvanceStore, Furthest, ReadInv, ReaderRows
<1>2. /\ batch \subseteq After(cursor)
      /\ \A n \in DOMAIN events, m \in batch : cursor < n /\ n <= m => n \in batch
  BY <1>1, BatchIs
<1> HIDE DEF batch
<1>3. /\ batch \subseteq DOMAIN events /\ batch \in SUBSET (0..(nextId - 1)) /\ nextId - 1 \in Nat
      /\ \A n \in batch : cursor < n /\ DOMAIN events \in SUBSET Nat
  BY <1>1, <1>2, LogIds DEF After
<1>4. cursor' \in batch /\ \A n \in batch : n <= cursor'
  BY <1>1, <1>3, MaxOf
<1>5. UpTo(cursor)' = UpTo(cursor) \cup batch
  <2>1. ASSUME NEW n \in DOMAIN events PROVE n <= cursor' <=> n <= cursor \/ n \in batch
    <3>1. n \in Nat /\ cursor' \in Nat /\ cursor \in Nat /\ cursor < cursor'
      BY <1>1, <1>3, <1>4
    <3> QED
      BY <1>2, <1>4, <3>1
  <2> QED
    BY <1>1, <1>3, <2>1 DEF UpTo
<1>6. ReaderRows'
  <2>1. DOMAIN model' = Entities
    BY <1>1 DEF Applied
  <2>2. \A e \in Entities : model'[e] = NoRow \/ model'[e].id \in DOMAIN events
    BY <1>1, <1>3, AppliedIs, ReplayTyped DEF ReaderRows
  <2>3. cursor' \in 0..(nextId - 1)
    BY <1>3, <1>4
  <2> QED
    BY <1>1, <2>1, <2>2, <2>3 DEF ReaderRows
<1>7. StoreShows'
  <2> SUFFICES ASSUME NEW e \in Entities, EventsOf(e) \cap late[Store] = {}
               PROVE  model'[e] = Replayed(e, UpTo(cursor))'
    BY <1>1 DEF StoreShows, EventsOf
  <2>1. model[e] = Replayed(e, UpTo(cursor))
    BY DEF ReadInv, StoreShows
  <2>2. UpTo(cursor) \subseteq DOMAIN events /\ \A n \in UpTo(cursor), m \in batch : n < m
    <3>1. ASSUME NEW n \in UpTo(cursor), NEW m \in batch PROVE n < m
      <4>1. n \in Nat /\ m \in Nat /\ n <= cursor /\ cursor < m
        BY <1>3 DEF UpTo
      <4> QED
        BY <1>1, <4>1
    <3> QED
      BY <3>1 DEF UpTo
  <2>3. model'[e] = Replayed(e, UpTo(cursor) \cup batch)
    BY <1>1, <1>3, <2>1, <2>2, ReplayOn
  <2>4. Replayed(e, UpTo(cursor))' = Replayed(e, UpTo(cursor) \cup batch)
    BY <1>1, <1>5 DEF Replayed, OwnOf, Shown
  <2> QED
    BY <2>3, <2>4
<1>8. StreamHas'
  BY <1>1 DEF ReadInv, StreamHas
<1> QED
  BY <1>6, <1>7, <1>8

\* A rebuild is one replay of the whole log.
LEMMA RebuildKept ==
  ASSUME ReadInv, Rebuild
  PROVE  /\ ReaderRows' /\ StoreShows' /\ StreamHas'
         /\ \A n \in DOMAIN events : n <= cursor'
         /\ \A e \in Entities : model'[e] = Replayed(e, DOMAIN events)
<1> DEFINE empty == [e \in Entities |-> NoRow]
<1>1. /\ model' = Applied(empty, DOMAIN events) /\ cursor' = Furthest(0, DOMAIN events)
      /\ late' = [late EXCEPT ![Store] = {}]
      /\ UNCHANGED <<source, txn, events, nextId, stream>> /\ SourceInv /\ ReaderRows
  BY DEF Rebuild, ReadInv
<1>2. /\ cursor' \in 0..(nextId - 1) /\ \A n \in DOMAIN events : n <= cursor'
  <2>1. DOMAIN events \in SUBSET (0..(nextId - 1)) /\ nextId - 1 \in Nat
    BY <1>1, LogIds
  <2>2. CASE DOMAIN events = {}
    BY <1>1, <2>1, <2>2 DEF Furthest
  <2>3. CASE DOMAIN events # {}
    BY <1>1, <2>1, <2>3, MaxOf DEF Furthest
  <2> QED
    BY <2>2, <2>3
<1>3. \A e \in Entities : model'[e] = Replayed(e, DOMAIN events)
  BY <1>1, AppliedIs DEF Replayed
<1>4. ReaderRows'
  <2>1. DOMAIN model' = Entities
    BY <1>1 DEF Applied
  <2>2. \A e \in Entities : model'[e] = NoRow \/ model'[e].id \in DOMAIN events
    BY <1>1, <1>3, ReplayTyped DEF Replayed
  <2> QED
    BY <1>1, <1>2, <2>1, <2>2 DEF ReaderRows
<1>5. StoreShows'
  <2>1. UpTo(cursor)' = DOMAIN events
    BY <1>1, <1>2 DEF UpTo
  <2>2. \A e \in Entities : Replayed(e, UpTo(cursor))' = Replayed(e, DOMAIN events)
    BY <1>1, <2>1 DEF Replayed, OwnOf, Shown
  <2> QED
    BY <1>3, <2>2 DEF StoreShows
<1>6. StreamHas'
  <2>1. \A s \in Streams : late'[s] = late[s]
    BY <1>1, ReadModelAssumption DEF Store, ReaderRows
  <2> QED
    BY <1>1, <2>1 DEF ReadInv, StreamHas
<1> QED
  BY <1>2, <1>3, <1>4, <1>5, <1>6

\* How far a stream's server has read.
LEMMA FetchedIs ==
  ASSUME ReadInv, NEW s \in Streams
  PROVE  /\ stream[s].last <= Fetched(s) /\ Fetched(s) \in Nat
         /\ \A m \in stream[s].batch : m <= Fetched(s)
<1>1. /\ stream[s].batch \in SUBSET (0..(nextId - 1)) /\ stream[s].last \in Nat
      /\ nextId - 1 \in Nat
  BY LogIds DEF ReadInv, ReaderRows
<1>2. CASE stream[s].batch = {}
  BY <1>1, <1>2 DEF Fetched, Furthest
<1>3. CASE stream[s].batch # {}
  <2>1. /\ Fetched(s) \in stream[s].batch /\ \A m \in stream[s].batch : m <= Fetched(s)
    BY <1>1, <1>3, MaxOf DEF Fetched, Furthest
  <2>2. stream[s].last < Fetched(s)
    BY <2>1 DEF ReadInv, StreamHas
  <2> QED
    BY <1>1, <2>1, <2>2
<1> QED
  BY <1>2, <1>3

\* What becomes visible behind a reader is late for it.
LEMMA CommitRead ==
  ASSUME ReadInv, NEW w \in Writers, Commit(w)
  PROVE  ReaderRows' /\ StoreShows' /\ StreamHas'
<1>1. /\ DOMAIN events' = DOMAIN events \cup Drawn(w) /\ DOMAIN events \cap Drawn(w) = {}
      /\ \A n \in DOMAIN events : events'[n] = events[n]
  BY CommitIs DEF ReadInv
<1>2. /\ Drawn(w) \subseteq 1..(nextId - 1) /\ UNCHANGED <<nextId, model, cursor, stream>>
      /\ late' = [r \in Streams \cup {Store} |->
           late[r] \cup {n \in Drawn(w) : n <= Position(r)}]
      /\ ReaderRows
  BY DEF Commit, ReadInv, SourceInv, DrawnOnce
<1>3. /\ late'[Store] = late[Store] \cup {n \in Drawn(w) : n <= cursor}
      /\ \A s \in Streams : late'[s] = late[s] \cup {n \in Drawn(w) : n <= Fetched(s)}
  BY <1>2, ReadModelAssumption DEF Position, Store
<1>4. ReaderRows'
  <2>1. late' \in [Streams \cup {Store} -> SUBSET (1..(nextId - 1))]
    BY <1>2 DEF ReaderRows
  <2> QED
    BY <1>1, <1>2, <2>1 DEF ReaderRows
<1>5. StoreShows'
  <2> SUFFICES ASSUME NEW e \in Entities, EventsOf(e)' \cap late'[Store] = {}
               PROVE  model'[e] = Replayed(e, UpTo(cursor))'
    BY DEF StoreShows
  <2>1. EventsOf(e) \subseteq EventsOf(e)' /\ late[Store] \subseteq late'[Store]
    BY <1>1, <1>3 DEF EventsOf
  <2>2. model[e] = Replayed(e, UpTo(cursor))
    BY <2>1 DEF ReadInv, StoreShows
  <2>3. OwnOf(e, UpTo(cursor))' = OwnOf(e, UpTo(cursor))
    <3>1. ASSUME NEW n \in OwnOf(e, UpTo(cursor))' PROVE n \in DOMAIN events
      <4>1. n \in DOMAIN events' /\ n <= cursor /\ n \in EventsOf(e)'
        BY <1>2 DEF OwnOf, UpTo, EventsOf
      <4>2. n \notin Drawn(w)
        BY <1>3, <4>1
      <4> QED
        BY <1>1, <4>1, <4>2
    <3> QED
      BY <1>1, <1>2, <3>1 DEF OwnOf, UpTo
  <2>4. \A n \in DOMAIN events : Shown(e, n)' = Shown(e, n)
    BY <1>1 DEF Shown
  <2>5. OwnOf(e, UpTo(cursor)) # {} => Max(OwnOf(e, UpTo(cursor))) \in DOMAIN events
    <3>1. OwnOf(e, UpTo(cursor)) \in SUBSET (0..(nextId - 1)) /\ nextId - 1 \in Nat
      BY LogIds DEF OwnOf, UpTo, ReadInv
    <3>2. OwnOf(e, UpTo(cursor)) \subseteq DOMAIN events
      BY DEF OwnOf, UpTo
    <3> QED
      BY <3>1, <3>2, MaxOf
  <2>6. Replayed(e, UpTo(cursor))' = Replayed(e, UpTo(cursor))
    BY <2>3, <2>4, <2>5 DEF Replayed, Shown
  <2> QED
    BY <1>2, <2>2, <2>6
<1>6. StreamHas'
  <2> SUFFICES ASSUME NEW s \in Streams
               PROVE  /\ \A m \in stream[s].batch : stream[s].last < m /\ m \in DOMAIN events'
                      /\ \A n \in DOMAIN events' \ late'[s] :
                           /\ n <= stream[s].last => n \in stream[s].got
                           /\ \A m \in stream[s].batch :
                                stream[s].last < n /\ n <= m => n \in stream[s].batch
    BY <1>2 DEF StreamHas
  <2>1. \A m \in stream[s].batch : stream[s].last < m /\ m \in DOMAIN events'
    BY <1>1 DEF ReadInv, StreamHas
  <2>2. ASSUME NEW n \in DOMAIN events' \ late'[s], NEW m \in stream[s].batch \cup {stream[s].last},
               n <= m
        PROVE  n \in DOMAIN events \ late[s]
    <3>1. n \notin late[s] /\ (n \in Drawn(w) => ~ (n <= Fetched(s)))
      BY <1>3
    <3>2. n \in Nat /\ m \in Nat /\ m <= Fetched(s) /\ Fetched(s) \in Nat
      BY <1>1, <1>2, FetchedIs, LogIds DEF ReaderRows, ReadInv
    <3> QED
      BY <1>1, <2>2, <3>1, <3>2
  <2>3. \A n \in DOMAIN events' \ late'[s] : n <= stream[s].last => n \in stream[s].got
    BY <1>1, <2>2 DEF ReadInv, StreamHas
  <2>4. ASSUME NEW n \in DOMAIN events' \ late'[s], NEW m \in stream[s].batch,
               stream[s].last < n, n <= m
        PROVE  n \in stream[s].batch
    BY <1>1, <2>2, <2>4 DEF ReadInv, StreamHas
  <2> QED
    BY <2>1, <2>3, <2>4
<1> QED
  BY <1>4, <1>5, <1>6

\* A write or a rollback is seen by no reader.
LEMMA UnseenRead ==
  ASSUME ReadInv, UNCHANGED <<events, model, cursor, stream, late>>,
         nextId' \in {nextId, nextId + 1}
  PROVE  ReaderRows' /\ StoreShows' /\ StreamHas'
<1>1. 0..(nextId - 1) \subseteq 0..(nextId' - 1) /\ 1..(nextId - 1) \subseteq 1..(nextId' - 1)
  <2>1. nextId \in Nat
    BY ReadModelAssumption DEF ReadInv, SourceInv, SourceRows
  <2>2. nextId' \in Nat /\ nextId <= nextId'
    BY <2>1
  <2>3. \A a, b \in Nat : a <= b => 0..(a - 1) \subseteq 0..(b - 1) /\ 1..(a - 1) \subseteq 1..(b - 1)
    OBVIOUS
  <2> QED
    BY <2>1, <2>2, <2>3
<1>2. ReaderRows'
  BY <1>1 DEF ReadInv, ReaderRows
<1>3. StoreShows'
  BY DEF ReadInv, StoreShows, EventsOf, Replayed, OwnOf, Shown, UpTo
<1>4. StreamHas'
  BY DEF ReadInv, StreamHas
<1> QED
  BY <1>2, <1>3, <1>4

\* A step of one stream.
LEMMA StreamRead ==
  ASSUME ReadInv, NEW s \in Streams, UNCHANGED <<source, txn, events, nextId, model, cursor>>,
         stream' \in [Streams -> [last : 0..(nextId - 1), got : SUBSET (1..(nextId - 1)),
                             batch : SUBSET (1..(nextId - 1))]],
         \A r \in Streams \ {s} : stream'[r] = stream[r],
         late' \in [Streams \cup {Store} -> SUBSET (1..(nextId - 1))],
         \A r \in (Streams \cup {Store}) \ {s} : late'[r] = late[r],
         \A m \in stream'[s].batch : stream'[s].last < m /\ m \in DOMAIN events,
         \A n \in DOMAIN events \ late'[s] :
           /\ n <= stream'[s].last => n \in stream'[s].got
           /\ \A m \in stream'[s].batch :
                stream'[s].last < n /\ n <= m => n \in stream'[s].batch
  PROVE  ReaderRows' /\ StoreShows' /\ StreamHas'
<1>1. ReaderRows'
  BY DEF ReadInv, ReaderRows
<1>2. StoreShows'
  <2>1. late'[Store] = late[Store]
    BY ReadModelAssumption DEF Store
  <2> SUFFICES ASSUME NEW e \in Entities, EventsOf(e) \cap late[Store] = {}
               PROVE  model'[e] = Replayed(e, UpTo(cursor))'
    BY <2>1 DEF StoreShows, EventsOf
  <2>2. Replayed(e, UpTo(cursor))' = Replayed(e, UpTo(cursor))
    BY DEF Replayed, OwnOf, Shown, UpTo
  <2> QED
    BY <2>2 DEF ReadInv, StoreShows
<1>3. StreamHas'
  <2> SUFFICES ASSUME NEW r \in Streams
               PROVE  /\ \A m \in stream'[r].batch : stream'[r].last < m /\ m \in DOMAIN events
                      /\ \A n \in DOMAIN events \ late'[r] :
                           /\ n <= stream'[r].last => n \in stream'[r].got
                           /\ \A m \in stream'[r].batch :
                                stream'[r].last < n /\ n <= m => n \in stream'[r].batch
    BY DEF StreamHas
  <2>1. CASE r = s
    BY <2>1
  <2>2. CASE r # s
    BY <2>2 DEF ReadInv, StreamHas
  <2> QED
    BY <2>1, <2>2
<1> QED
  BY <1>1, <1>2, <1>3

\* A batch of a stream is all that comes next.
LEMMA FetchRead ==
  ASSUME ReadInv, NEW s \in Streams, NEW limit \in Limits, Fetch(s, limit)
  PROVE  ReaderRows' /\ StoreShows' /\ StreamHas'
<1> DEFINE batch == First(limit, After(stream[s].last))
<1>1. /\ stream' = [stream EXCEPT ![s].batch = batch]
      /\ UNCHANGED <<source, txn, events, nextId, model, cursor, late>>
      /\ SourceInv /\ ReaderRows /\ stream[s].last \in Nat
  BY DEF Fetch, ReadInv, ReaderRows
<1>2. /\ batch \subseteq After(stream[s].last)
      /\ \A n \in DOMAIN events, m \in batch : stream[s].last < n /\ n <= m => n \in batch
  BY <1>1, BatchIs
<1> HIDE DEF batch
<1>3. /\ batch \in SUBSET (1..(nextId - 1))
      /\ \A m \in batch : stream[s].last < m /\ m \in DOMAIN events
  BY <1>1, <1>2, LogIds DEF After
<1>4. /\ stream' \in [Streams -> [last : 0..(nextId - 1), got : SUBSET (1..(nextId - 1)),
                             batch : SUBSET (1..(nextId - 1))]]
      /\ \A r \in Streams \ {s} : stream'[r] = stream[r]
      /\ stream'[s].last = stream[s].last /\ stream'[s].got = stream[s].got
      /\ stream'[s].batch = batch
  BY <1>1, <1>3 DEF ReaderRows
<1>5. \A n \in DOMAIN events \ late[s] : n <= stream[s].last => n \in stream[s].got
  BY DEF ReadInv, StreamHas
<1>6. late' \in [Streams \cup {Store} -> SUBSET (1..(nextId - 1))] /\ late' = late
  BY <1>1 DEF ReaderRows
<1> QED
  BY <1>1, <1>2, <1>3, <1>4, <1>5, <1>6, StreamRead

\* The next row of the batch is the next there is, but for late ones.
LEMMA DeliverRead ==
  ASSUME ReadInv, NEW s \in Streams, Deliver(s)
  PROVE  ReaderRows' /\ StoreShows' /\ StreamHas'
<1>1. /\ stream[s].batch # {} /\ stream[s].batch \in SUBSET (1..(nextId - 1))
      /\ stream[s].last \in Nat /\ stream[s].got \in SUBSET (1..(nextId - 1))
      /\ stream \in [Streams -> [last : 0..(nextId - 1), got : SUBSET (1..(nextId - 1)),
                             batch : SUBSET (1..(nextId - 1))]]
      /\ UNCHANGED <<source, txn, events, nextId, model, cursor, late>>
      /\ late \in [Streams \cup {Store} -> SUBSET (1..(nextId - 1))] /\ SourceInv
  BY DEF Deliver, ReadInv, ReaderRows
<1>2. PICK k \in stream[s].batch : k = Min(stream[s].batch) /\ \A m \in stream[s].batch : k <= m
  <2>1. stream[s].batch \in SUBSET Nat
    BY <1>1
  <2> QED
    BY <1>1, <2>1, MinOf
<1>3. k \in 0..(nextId - 1) /\ k \in 1..(nextId - 1) /\ stream[s].last < k
  BY <1>1 DEF ReadInv, StreamHas
<1>4. stream' = [stream EXCEPT ![s] =
        [last |-> k, got |-> stream[s].got \cup {k}, batch |-> stream[s].batch \ {k}]]
  BY <1>1, <1>2 DEF Deliver
<1>5. /\ stream' \in [Streams -> [last : 0..(nextId - 1), got : SUBSET (1..(nextId - 1)),
                             batch : SUBSET (1..(nextId - 1))]]
      /\ \A r \in Streams \ {s} : stream'[r] = stream[r]
      /\ stream'[s].last = k /\ stream'[s].got = stream[s].got \cup {k}
      /\ stream'[s].batch = stream[s].batch \ {k}
  <2>1. [last |-> k, got |-> stream[s].got \cup {k}, batch |-> stream[s].batch \ {k}]
          \in [last : 0..(nextId - 1), got : SUBSET (1..(nextId - 1)),
               batch : SUBSET (1..(nextId - 1))]
    BY <1>1, <1>3
  <2> QED
    BY <1>1, <1>4, <2>1
<1>6. ASSUME NEW m \in stream'[s].batch PROVE k < m /\ m \in DOMAIN events
  <2>1. m \in stream[s].batch /\ m # k /\ m \in Nat /\ k \in Nat
    BY <1>1, <1>3, <1>5
  <2>2. k <= m /\ m \in DOMAIN events
    BY <1>2, <2>1 DEF ReadInv, StreamHas
  <2> QED
    BY <2>1, <2>2
<1>7. ASSUME NEW n \in DOMAIN events \ late[s]
      PROVE  /\ n <= k => n \in stream'[s].got
             /\ \A m \in stream'[s].batch : k < n /\ n <= m => n \in stream'[s].batch
  <2>1. n \in Nat /\ k \in Nat
    BY <1>1, <1>3, LogIds
  <2>2. /\ n <= stream[s].last => n \in stream[s].got
        /\ \A m \in stream[s].batch : stream[s].last < n /\ n <= m => n \in stream[s].batch
    BY DEF ReadInv, StreamHas
  <2>3. ASSUME n <= k PROVE n \in stream'[s].got
    <3>1. CASE n <= stream[s].last
      BY <1>5, <2>2, <3>1
    <3>2. CASE stream[s].last < n
      <4>1. n \in stream[s].batch
        BY <2>2, <2>3, <3>2
      <4>2. k <= n
        BY <1>2, <4>1
      <4>3. n = k
        BY <2>1, <2>3, <4>2
      <4> QED
        BY <1>5, <4>3
    <3> QED
      BY <1>1, <2>1, <3>1, <3>2
  <2>4. ASSUME NEW m \in stream'[s].batch, k < n, n <= m PROVE n \in stream'[s].batch
    <3>1. m \in stream[s].batch /\ stream[s].last < n /\ n # k
      BY <1>1, <1>3, <1>5, <2>1, <2>4
    <3> QED
      BY <1>5, <2>2, <2>4, <3>1
  <2> QED
    BY <2>3, <2>4
<1> QED
  BY <1>1, <1>5, <1>6, <1>7, StreamRead

\* A client that comes back is where it was.
LEMMA ReconnectRead ==
  ASSUME ReadInv, NEW s \in Streams, Reconnect(s)
  PROVE  ReaderRows' /\ StoreShows' /\ StreamHas'
<1>1. /\ stream' = [stream EXCEPT ![s].batch = {}]
      /\ late' = [late EXCEPT ![s] = {n \in late[s] : n <= stream[s].last}]
      /\ UNCHANGED <<source, txn, events, nextId, model, cursor>> /\ ReaderRows
  BY DEF Reconnect, ReadInv, ReaderRows
<1>2. /\ stream' \in [Streams -> [last : 0..(nextId - 1), got : SUBSET (1..(nextId - 1)),
                             batch : SUBSET (1..(nextId - 1))]]
      /\ \A r \in Streams \ {s} : stream'[r] = stream[r]
      /\ stream'[s].last = stream[s].last /\ stream'[s].got = stream[s].got
      /\ stream'[s].batch = {}
  <2>1. {} \in SUBSET (1..(nextId - 1))
    OBVIOUS
  <2> QED
    BY <1>1, <2>1 DEF ReaderRows
<1>3. /\ late' \in [Streams \cup {Store} -> SUBSET (1..(nextId - 1))]
      /\ \A r \in (Streams \cup {Store}) \ {s} : late'[r] = late[r]
      /\ late'[s] = {n \in late[s] : n <= stream[s].last}
  BY <1>1 DEF ReaderRows
<1>4. \A n \in DOMAIN events \ late'[s] : n <= stream[s].last => n \in stream[s].got
  BY <1>3 DEF ReadInv, StreamHas
<1> QED
  BY <1>1, <1>2, <1>3, <1>4, StreamRead

\* Every step of writers and readers keeps the invariant.
LEMMA ReadKept == ReadInv /\ [ReadModelNext]_readModelVars => ReadInv'
<1> SUFFICES ASSUME ReadInv, [ReadModelNext]_readModelVars
             PROVE  ReadInv'
  OBVIOUS
<1>1. SourceInv'
  BY SourceKept DEF ReadInv
<1> SUFFICES ReaderRows' /\ StoreShows' /\ StreamHas'
  BY <1>1 DEF ReadInv
<1>2. CASE UNCHANGED readModelVars
  BY <1>2, UnseenRead DEF readModelVars
<1>3. ASSUME NEW w \in Writers, NEW p \in Parts, NEW value \in Contents, Write(w, p, value)
      PROVE  ReaderRows' /\ StoreShows' /\ StreamHas'
  BY <1>3, UnseenRead DEF Write
<1>4. ASSUME NEW w \in Writers, Rollback(w)
      PROVE  ReaderRows' /\ StoreShows' /\ StreamHas'
  BY <1>4, UnseenRead DEF Rollback
<1>5. CASE ReadModelNext
  BY <1>3, <1>4, <1>5, CommitRead, AdvanceKept, RebuildKept, FetchRead, DeliverRead, ReconnectRead
     DEF ReadModelNext, Contents
<1> QED
  BY <1>2, <1>5

\* The store arrives at what one replay up to its cursor gives, and a client has all up to the
\* last it received, but for what became visible behind them (read_models.py advance, rebuild;
\* api.py live_events), for any number of rows, sessions, clients and batch limits.
THEOREM ReadersHaveAll == ReadModelSpec => [](ReadModelTypeOK /\ ReadersComplete)
<1>1. ASSUME ReadInv PROVE ReadModelTypeOK
  <2>1. /\ 0..(nextId - 1) \subseteq 0..MaxEvents /\ 1..(nextId - 1) \subseteq Ids
        /\ nextId \in 1..(MaxEvents + 1)
    BY <1>1, ReadModelAssumption DEF ReadInv, SourceInv, SourceRows, Ids
  <2>2. \A n \in EventRow : n \in Event
    <3>1. ASSUME NEW n \in EventRow PROVE n \in Event
      <4>1. n.entity \in Entities /\ n.payload \in [PartsOf(n.entity) -> Values \cup {Absent}]
            /\ n = [entity |-> n.entity, payload |-> n.payload]
        BY EventIs DEF Contents
      <4>2. n.payload \in Payloads
        BY <4>1 DEF Payloads
      <4> QED
        BY <4>1, <4>2 DEF Event
    <3> QED
      BY <3>1
  <2>3. \A w \in Writers : DOMAIN txn[w].rows \subseteq Parts
    BY <1>1, TxnIs DEF ReadInv, SourceInv
  <2>4. /\ DOMAIN events \subseteq 1..(nextId - 1) /\ \A n \in DOMAIN events : events[n] \in Event
    BY <1>1, <2>2, LogIds DEF ReadInv
  <2>5. \A w \in Writers :
          /\ Drawn(w) \subseteq 1..(nextId - 1) \ DOMAIN events
          /\ \A v \in Writers \ {w} : Drawn(v) \cap Drawn(w) = {}
    BY <1>1 DEF ReadInv, SourceInv, DrawnOnce
  <2>6. /\ cursor \in 0..MaxEvents /\ DOMAIN model = Entities
        /\ \A e \in Entities : model[e] = NoRow \/ model[e].id \in DOMAIN events
        /\ \A s \in Streams : stream[s].last \in 0..MaxEvents /\ stream[s].got \subseteq Ids
        /\ late \in [Streams \cup {Store} -> SUBSET Ids]
    BY <1>1, <2>1 DEF ReadInv, ReaderRows
  <2>7. source \in [Parts -> Values \cup {Absent}]
    BY <1>1 DEF ReadInv, SourceInv, SourceRows, Contents
  <2> QED
    BY <2>1, <2>3, <2>4, <2>5, <2>6, <2>7 DEF ReadModelTypeOK
<1>2. ASSUME ReadInv PROVE ReadersComplete
  <2> DEFINE empty == [e \in Entities |-> NoRow]
  <2>1. \A e \in Entities : Applied(empty, UpTo(cursor))[e] = Replayed(e, UpTo(cursor))
    BY AppliedIs DEF Replayed
  <2>2. \A e \in Entities : EventsOf(e) \cap late[Store] = {} =>
          model[e] = Applied(empty, {n \in DOMAIN events : n <= cursor})[e]
    BY <1>2, <2>1 DEF ReadInv, StoreShows, UpTo
  <2>3. \A s \in Streams :
          \A n \in DOMAIN events \ late[s] : n <= stream[s].last => n \in stream[s].got
    BY <1>2 DEF ReadInv, StreamHas
  <2> QED
    BY <2>2, <2>3 DEF ReadersComplete
<1> QED
  BY <1>1, <1>2, ReadBegins, ReadKept, PTL DEF ReadModelSpec

\* A rebuild with no transaction open also makes up for what was late (read_models.py rebuild).
THEOREM RebuildsRepair == ReadModelSpec => RebuildRepairs
<1>1. ASSUME ReadInv, Rebuild
      PROVE  /\ \A n \in DOMAIN events : n <= cursor'
             /\ \A p \in Parts : PartsOf(EntityOf[p]) = {p} =>
                  model'[EntityOf[p]].payload =
                    IF source[p] = Absent THEN Absent ELSE [q \in {p} |-> source[p]]
  <2>1. /\ \A n \in DOMAIN events : n <= cursor'
        /\ \A e \in Entities : model'[e] = Replayed(e, DOMAIN events)
    BY <1>1, RebuildKept
  <2>2. ASSUME NEW p \in Parts, PartsOf(EntityOf[p]) = {p}
        PROVE  model'[EntityOf[p]].payload =
                 IF source[p] = Absent THEN Absent ELSE [q \in {p} |-> source[p]]
    <3> DEFINE e == EntityOf[p]
               own == EventsOf(e)
    <3>1. e \in Entities /\ own = OwnOf(e, DOMAIN events)
      BY ReadModelAssumption DEF EventsOf, OwnOf
    <3>2. source[p] = IF own = {} THEN Absent ELSE events[Max(own)].payload[p]
      BY <1>1, <2>2, NewestFollows DEF ReadInv, NewestIsSource
    <3>3. CASE own = {}
      BY <2>1, <3>1, <3>2, <3>3 DEF Replayed, NoRow
    <3>4. CASE own # {}
      <4>1. own \in SUBSET (0..(nextId - 1)) /\ nextId - 1 \in Nat
        BY <1>1, LogIds DEF ReadInv, EventsOf
      <4>2. PICK n \in own : n = Max(own)
        BY <3>4, <4>1, MaxOf
      <4>3. events[n] \in EventRow /\ events[n].entity = e
        BY <1>1, LogIds DEF ReadInv, EventsOf
      <4>4. events[n].payload \in [{p} -> Contents]
        BY <2>2, <4>3, EventIs
      <4>5. events[n].payload = [q \in {p} |-> source[p]]
        BY <3>2, <3>4, <4>2, <4>4
      <4>6. ~Aggregate(e)
        <5>1. Cardinality({p}) = 1
          BY FS_Singleton
        <5> QED
          BY <2>2, <5>1 DEF Aggregate
      <4>7. model'[e] = Shown(e, n)
        BY <2>1, <3>1, <3>4, <4>2 DEF Replayed
      <4>8. Shown(e, n) = IF source[p] = Absent THEN NoRow
                          ELSE [id |-> n, payload |-> events[n].payload]
        BY <2>2, <4>5, <4>6 DEF Shown
      <4> QED
        BY <4>5, <4>7, <4>8 DEF NoRow
    <3> QED
      BY <3>3, <3>4
  <2> QED
    BY <2>1, <2>2
<1> QED
  BY <1>1, ReadBegins, ReadKept, PTL DEF ReadModelSpec, RebuildRepairs

-----------------------------------------------------------------------------
(* AdoProgress: milestones are told in their order, and people's edits stay. *)

\* The rows of milestone and of publisher; how far a comment is known is in the step.
MilestoneRow ==
  [st : {"none", "pending", "published", "suppressed"},
   disposition : Dispositions \cup {"none", "suppressed"}]
Steps ==
  {"idle", "read", "scan", "post", "decide", "fetch", "patch", "reread"} \cup Dispositions
Told == {"decide", "fetch", "patch", "reread"} \cup Dispositions
PublisherRow ==
  [pc : Steps, of : Milestones \cup {"none"}, seen : AdoStates \cup {"none"}, rev : Nat,
   tries : 0..MaxTries, locks : SUBSET {"item", "update"}]

Begun(m) == milestone[m].st \in {"pending", "published"}

AdoRows ==
  /\ milestone \in [Milestones -> MilestoneRow]
  /\ update \in [Milestones -> {"none", "pending", "succeeded", "conflicted"}]
  /\ ado \in [state : AdoStates, rev : Nat] /\ comments \in Seq(Milestones)
  /\ publisher \in [Publishers -> PublisherRow]
  /\ edits \in 0..MaxHumanEdits /\ lost \in 0..MaxLost

\* Of two milestones that were begun the earlier one is not waiting, because none is begun
\* before those that wait nor after a later one; what an execution tells was begun, and it goes
\* on only once there is the comment; and the item it would patch is as it was fetched unless
\* its revision was changed.
Ordered ==
  \A m, n \in Milestones :
    SequenceOf[m] < SequenceOf[n] /\ Begun(n) => milestone[m].st # "pending"

Telling ==
  \A p \in Publishers : publisher[p].pc # "idle" =>
    /\ publisher[p].of \in Milestones /\ Begun(publisher[p].of)
    /\ publisher[p].pc \in Told => Marked(publisher[p].of)

SeenSound ==
  \A p \in Publishers :
    /\ publisher[p].rev <= ado.rev
    /\ publisher[p].pc \in {"fetch", "patch"} => TargetOf[publisher[p].of] # "none"
    /\ publisher[p].pc = "patch" /\ publisher[p].rev = ado.rev
         => ado.state = Predecessor[TargetOf[publisher[p].of]]

LocksApart ==
  \A p, q \in Publishers :
    p # q => "item" \notin publisher[p].locks \cap publisher[q].locks

RowsAgree ==
  \A m \in Milestones :
    /\ milestone[m].st \in {"none", "pending"} <=> milestone[m].disposition = "none"
    /\ milestone[m].st = "suppressed" <=> milestone[m].disposition = "suppressed"
    /\ update[m] # "none" => TargetOf[m] # "none" /\ milestone[m].st # "none"

\* The inductive invariant of the publisher.
AdoInv ==
  AdoRows /\ Ordered /\ Telling /\ SeenSound /\ LocksApart /\ RowsAgree /\ MilestonesInOrder

\* Who does not run has no row of its own to speak of.
LEMMA IdleRow == Idle \in PublisherRow
BY AdoAssumption DEF Idle, PublisherRow, Steps

\* At first nothing was told.
LEMMA AdoBegins == AdoInit => AdoInv
<1> SUFFICES ASSUME AdoInit PROVE AdoInv
  OBVIOUS
<1> USE AdoAssumption DEF AdoInit
<1>2. AdoRows
  BY IdleRow DEF AdoRows, MilestoneRow, AdoStates
<1>3. Ordered /\ Telling /\ SeenSound /\ LocksApart
  BY DEF Ordered, Telling, SeenSound, LocksApart, Begun, Idle
<1>4. RowsAgree
  BY DEF RowsAgree
<1>5. MilestonesInOrder
  BY DEF MilestonesInOrder, Marked
<1> QED
  BY <1>2, <1>3, <1>4, <1>5 DEF AdoInv

\* The milestone is begun, or was; nothing else of the invariant is about a new one.
LEMMA SuppressKept ==
  ASSUME AdoInv, NEW p \in Publishers, NEW m \in Milestones, Suppress(p, m)
  PROVE  AdoInv'
<1> USE DEF AdoInv, Suppress
<1>1. /\ milestone' \in [Milestones -> MilestoneRow]
      /\ milestone'[m] = [st |-> "suppressed", disposition |-> "suppressed"]
      /\ \A n \in Milestones \ {m} : milestone'[n] = milestone[n]
      /\ milestone[m].st = "none"
      /\ UNCHANGED <<update, ado, comments, publisher, edits, lost>>
  BY DEF AdoRows, MilestoneRow
<1> HIDE DEF Suppress
<1>2. AdoRows'
  BY <1>1 DEF AdoRows
<1>3. \A n \in Milestones : Begun(n)' <=> Begun(n)
  BY <1>1 DEF Begun
<1>4. Ordered'
  BY <1>1, <1>3 DEF Ordered
<1>5. Telling'
  BY <1>1, <1>3 DEF Telling, Marked
<1>6. SeenSound' /\ LocksApart'
  BY <1>1 DEF SeenSound, LocksApart
<1>7. RowsAgree'
  BY <1>1 DEF RowsAgree, AdoRows
<1>8. MilestonesInOrder'
  BY <1>1, <1>3 DEF MilestonesInOrder, Marked, Begun, AdoRows
<1> QED
  BY <1>2, <1>4, <1>5, <1>6, <1>7, <1>8

\* One that is begun has no later one, and no comment comes from a later one.
LEMMA StartMilestoneKept ==
  ASSUME AdoInv, NEW p \in Publishers, NEW m \in Milestones, StartMilestone(p, m)
  PROVE  AdoInv'
<1> USE DEF AdoInv
<1>1. /\ milestone' \in [Milestones -> MilestoneRow]
      /\ milestone'[m] = [st |-> "pending", disposition |-> "none"]
      /\ \A n \in Milestones \ {m} : milestone'[n] = milestone[n]
      /\ UNCHANGED <<update, ado, comments, edits, lost>>
  <2>1. milestone[m].disposition = "none" /\ milestone[m] \in MilestoneRow
    BY DEF StartMilestone, RowsAgree, AdoRows
  <2>2. milestone' = [milestone EXCEPT ![m].st = "pending"]
    BY DEF StartMilestone
  <2> QED
    BY <2>1, <2>2 DEF StartMilestone, AdoRows, MilestoneRow
<1>2. /\ publisher' \in [Publishers -> PublisherRow]
      /\ publisher'[p].pc = "read" /\ publisher'[p].of = m /\ publisher'[p].rev = 0
      /\ publisher'[p].locks = {"item"}
      /\ \A q \in Publishers \ {p} : publisher'[q] = publisher[q]
  <2> DEFINE row == [Idle EXCEPT !.pc = "read", !.of = m, !.locks = {"item"}]
  <2>1. {"item"} \in SUBSET {"item", "update"} /\ "read" \in Steps
    BY DEF Steps
  <2>2. row \in PublisherRow
    BY <2>1, IdleRow DEF PublisherRow
  <2>3. row.pc = "read" /\ row.of = m /\ row.rev = 0 /\ row.locks = {"item"}
    BY DEF Idle
  <2> HIDE DEF row
  <2>4. publisher' = [publisher EXCEPT ![p] = row]
    BY Zenon DEF StartMilestone, row
  <2> QED
    BY <2>2, <2>3, <2>4 DEF AdoRows
<1>3. \A q \in Publishers \ {p} : "item" \notin publisher[q].locks
  BY DEF StartMilestone, Locked
<1>4. AdoRows'
  BY <1>1, <1>2 DEF AdoRows
<1>5. \A n \in Milestones \ {m} : Begun(n)' <=> Begun(n)
  BY <1>1 DEF Begun
<1>6. /\ \/ milestone[m].st = "pending"
         \/ milestone[m].st = "none" /\ ~Stale(m) /\ ~Blocked(m)
      /\ milestone'[m].st = "pending"
  BY <1>1 DEF StartMilestone
<1>7. Ordered'
  <2> SUFFICES ASSUME NEW k \in Milestones, NEW n \in Milestones,
                      SequenceOf[k] < SequenceOf[n], Begun(n)'
               PROVE  milestone'[k].st # "pending"
    BY DEF Ordered
  <2>1. k # n
    BY AdoAssumption
  <2>2. CASE k = m
    <3>1. Begun(n) /\ milestone[n].st # "none"
      BY <2>1, <2>2, <1>5 DEF Begun
    <3>2. milestone[m].st # "pending"
      BY <3>1, <2>2 DEF Ordered
    <3> QED
      BY <3>1, <3>2, <2>2, <1>6 DEF Stale
  <2>3. CASE k # m /\ n = m
    BY <2>3, <1>1, <1>6 DEF Blocked, Ordered, Begun
  <2>4. CASE k # m /\ n # m
    BY <2>4, <1>1, <1>5 DEF Ordered
  <2> QED
    BY <2>2, <2>3, <2>4
<1>8. Telling'
  <2> SUFFICES ASSUME NEW q \in Publishers, publisher'[q].pc # "idle"
               PROVE  /\ publisher'[q].of \in Milestones /\ Begun(publisher[q].of)'
                      /\ publisher'[q].pc \in Told => Marked(publisher[q].of)'
    BY DEF Telling
  <2>1. CASE q = p
    BY <2>1, <1>2, <1>6 DEF Begun, Told, Dispositions
  <2>2. CASE q # p
    BY <2>2, <1>1, <1>2, <1>5, <1>6 DEF Telling, Marked, Begun
  <2> QED
    BY <2>1, <2>2
<1>9. SeenSound'
  BY <1>1, <1>2 DEF SeenSound, AdoRows
<1>10. LocksApart'
  BY <1>2, <1>3 DEF LocksApart
<1>11. RowsAgree'
  BY <1>1, <1>6 DEF RowsAgree
<1>12. MilestonesInOrder'
  <2>1. ASSUME NEW i \in DOMAIN comments, NEW k \in Milestones, Begun(k)',
               SequenceOf[k] < SequenceOf[comments[i]]
        PROVE  \E j \in 1..(i - 1) : comments[j] = k
    <3>1. comments[i] \in Milestones
      BY DEF AdoRows
    <3>2. Marked(comments[i]) /\ milestone[comments[i]].st # "none"
      BY <3>1 DEF MilestonesInOrder, Marked
    <3>3. k # m \/ milestone[m].st = "pending"
      BY <3>1, <3>2, <2>1, <1>6 DEF Stale
    <3>4. Begun(k)
      BY <3>3, <1>5, <2>1 DEF Begun
    <3> QED
      BY <3>4, <2>1 DEF MilestonesInOrder, Begun
  <2>2. \A k \in Milestones : /\ milestone'[k].st = "published" => Marked(k)
                              /\ milestone'[k].st \in {"none", "suppressed"} => ~Marked(k)
    BY <1>1 DEF MilestonesInOrder
  <2>3. \A k \in Milestones : Marked(k)' <=> Marked(k)
    BY <1>1 DEF Marked
  <2> QED
    BY <1>1, <2>1, <2>2, <2>3 DEF MilestonesInOrder, Begun
<1> QED
  BY <1>4, <1>7, <1>8, <1>9, <1>10, <1>11, <1>12

\* How an execution goes on, when nothing that others told of is lost: it stays with its
\* milestone, and has its comment when it goes on from there.
Onward(p) ==
  /\ publisher' \in [Publishers -> PublisherRow]
  /\ \A q \in Publishers \ {p} : publisher'[q] = publisher[q]
  /\ publisher'[p].pc # "idle" =>
       publisher[p].pc # "idle" /\ publisher'[p].of = publisher[p].of
  /\ publisher'[p].locks \subseteq publisher[p].locks \cup {"update"}

\* An execution that goes on keeps what is known of its milestone.
LEMMA OnwardTelling ==
  ASSUME AdoInv, NEW p \in Publishers, Onward(p),
         \A m \in Milestones : (Begun(m) => Begun(m)') /\ (Marked(m) => Marked(m)'),
         publisher'[p].pc \in Told => Marked(publisher[p].of)'
  PROVE  Telling' /\ LocksApart'
<1>1. Telling'
  <2> SUFFICES ASSUME NEW q \in Publishers, publisher'[q].pc # "idle"
               PROVE  /\ publisher'[q].of \in Milestones /\ Begun(publisher[q].of)'
                      /\ publisher'[q].pc \in Told => Marked(publisher[q].of)'
    BY DEF Telling
  <2>1. CASE q = p
    BY <2>1 DEF AdoInv, Onward, Telling, Begun, Marked
  <2>2. CASE q # p
    BY <2>2 DEF AdoInv, Onward, Telling, Begun, Marked
  <2> QED
    BY <2>1, <2>2
<1>2. LocksApart'
  BY DEF AdoInv, Onward, LocksApart
<1> QED
  BY <1>1, <1>2

\* A step of p that only moves p on and records something about the update of its milestone.
LEMMA OnwardKept ==
  ASSUME AdoInv, NEW p \in Publishers, Onward(p), UNCHANGED <<milestone, ado, comments, edits>>,
         publisher'[p].pc \in Told => Marked(publisher[p].of),
         publisher'[p].rev <= ado.rev,
         publisher'[p].pc \in {"fetch", "patch"} => TargetOf[publisher'[p].of] # "none",
         publisher'[p].pc = "patch" /\ publisher'[p].rev = ado.rev
           => ado.state = Predecessor[TargetOf[publisher'[p].of]],
         lost' \in 0..MaxLost,
         update' \in [Milestones -> {"none", "pending", "succeeded", "conflicted"}],
         \A m \in Milestones : update'[m] # "none" =>
           \/ update[m] # "none"
           \/ publisher[p].pc # "idle" /\ m = publisher[p].of /\ TargetOf[m] # "none"
  PROVE  AdoInv'
<1>1. AdoRows'
  BY DEF AdoInv, AdoRows, Onward
<1>2. \A m \in Milestones : (Begun(m)' <=> Begun(m)) /\ (Marked(m)' <=> Marked(m))
  BY DEF Begun, Marked
<1>3. publisher'[p].pc \in Told => Marked(publisher[p].of)'
  <2>1. publisher'[p].pc \in Told =>
          publisher[p].of \in Milestones /\ publisher'[p].of = publisher[p].of
    BY DEF AdoInv, Onward, Telling, Told, Dispositions
  <2> QED
    BY <2>1, <1>2 DEF Marked
<1>4. Telling' /\ LocksApart'
  BY <1>2, <1>3, OnwardTelling
<1>5. Ordered'
  BY <1>2 DEF AdoInv, Ordered
<1>6. SeenSound'
  BY DEF AdoInv, SeenSound, Onward
<1>7. RowsAgree'
  BY DEF AdoInv, RowsAgree, Telling, Begun
<1>8. MilestonesInOrder'
  BY <1>2 DEF AdoInv, MilestonesInOrder
<1> QED
  BY <1>1, <1>4, <1>5, <1>6, <1>7, <1>8 DEF AdoInv

\* What the three ways of going on leave of a row.
LEMMA GoesOnward ==
  ASSUME AdoInv, NEW p \in Publishers, NEW pc \in Steps, publisher[p].pc # "idle", Goes(p, pc)
  PROVE  /\ Onward(p)
         /\ publisher'[p].pc = pc /\ publisher'[p].of = publisher[p].of
         /\ publisher'[p].rev = publisher[p].rev
<1>1. publisher[p] \in PublisherRow /\ publisher \in [Publishers -> PublisherRow]
  BY DEF AdoInv, AdoRows
<1> DEFINE row == [publisher[p] EXCEPT !.pc = pc, !.tries = 0]
<1>2. row \in PublisherRow
  <2>1. 0 \in 0..MaxTries
    BY AdoAssumption
  <2> QED
    BY <1>1, <2>1 DEF PublisherRow
<1>3. /\ row.pc = pc /\ row.of = publisher[p].of /\ row.rev = publisher[p].rev
      /\ row.locks = publisher[p].locks
  BY <1>1 DEF PublisherRow
<1>4. publisher' = [publisher EXCEPT ![p] = row]
  BY <1>1 DEF Goes
<1> HIDE DEF row
<1> QED
  BY <1>1, <1>2, <1>3, <1>4 DEF Onward

\* One that settles keeps its milestone and gives up the lock of the update.
LEMMA SettlesOnward ==
  ASSUME AdoInv, NEW p \in Publishers, NEW pc \in Steps, publisher[p].pc # "idle", Settles(p, pc)
  PROVE  /\ Onward(p)
         /\ publisher'[p].pc = pc /\ publisher'[p].of = publisher[p].of
         /\ publisher'[p].rev = 0
<1>1. publisher[p] \in PublisherRow /\ publisher \in [Publishers -> PublisherRow]
  BY DEF AdoInv, AdoRows
<1> DEFINE row == [Idle EXCEPT !.pc = pc, !.of = publisher[p].of,
                               !.locks = publisher[p].locks \ {"update"}]
<1>2. row \in PublisherRow
  <2>1. /\ publisher[p].of \in Milestones \cup {"none"}
        /\ publisher[p].locks \ {"update"} \in SUBSET {"item", "update"}
    BY <1>1 DEF PublisherRow
  <2> QED
    BY <2>1, IdleRow DEF PublisherRow
<1>3. /\ row.pc = pc /\ row.of = publisher[p].of /\ row.rev = 0
      /\ row.locks \subseteq publisher[p].locks
  BY <1>1 DEF Idle
<1>4. publisher' = [publisher EXCEPT ![p] = row]
  BY DEF Settles
<1> HIDE DEF row
<1> QED
  BY <1>1, <1>2, <1>3, <1>4 DEF Onward

\* One that repeats a request stays where it is.
LEMMA RepeatsOnward ==
  ASSUME AdoInv, NEW p \in Publishers, publisher[p].pc # "idle", Repeats(p)
  PROVE  /\ Onward(p)
         /\ publisher'[p].pc = publisher[p].pc /\ publisher'[p].of = publisher[p].of
         /\ publisher'[p].rev = publisher[p].rev
<1>1. publisher[p] \in PublisherRow /\ publisher \in [Publishers -> PublisherRow]
  BY DEF AdoInv, AdoRows
<1>2. publisher[p].tries + 1 \in 0..MaxTries
  BY <1>1, AdoAssumption DEF Repeats, PublisherRow
<1> QED
  BY <1>1, <1>2 DEF Repeats, Onward, PublisherRow

\* Abort and Finish end the execution.
LEMMA EndsOnward ==
  ASSUME AdoInv, NEW p \in Publishers, publisher' = [publisher EXCEPT ![p] = Idle]
  PROVE  Onward(p) /\ publisher'[p].pc = "idle" /\ publisher'[p].rev = 0
BY IdleRow DEF AdoInv, AdoRows, Onward, Idle

\* The steps that only the execution and its update see.
LEMMA ReadStateKept ==
  ASSUME AdoInv, NEW p \in Publishers, ReadState(p)
  PROVE  AdoInv'
<1>1. publisher[p] \in PublisherRow /\ publisher \in [Publishers -> PublisherRow]
      /\ ado.state \in AdoStates /\ publisher[p].pc = "read"
  BY DEF AdoInv, AdoRows, ReadState
<1>2. Onward(p) /\ publisher'[p].pc = "scan" /\ publisher'[p].of = publisher[p].of
      /\ publisher'[p].rev = publisher[p].rev
  BY <1>1 DEF ReadState, Onward, PublisherRow, Steps
<1> QED
  BY <1>2, OnwardKept DEF ReadState, AdoInv, AdoRows, SeenSound, Told, Dispositions

\* Where the marker was found, the comment is there.
LEMMA ScanKept ==
  ASSUME AdoInv, NEW p \in Publishers, ScanComments(p)
  PROVE  AdoInv'
<1> DEFINE next == IF Marked(publisher[p].of) THEN "decide" ELSE "post"
<1>1. next \in Steps /\ publisher[p].pc # "idle" /\ Goes(p, next)
  BY DEF ScanComments, Steps
<1>2. next \in Told => Marked(publisher[p].of)
  BY DEF Told, Dispositions
<1>3. next \notin {"fetch", "patch"}
  OBVIOUS
<1> HIDE DEF next
<1>4. Onward(p) /\ publisher'[p].pc = next /\ publisher'[p].rev = publisher[p].rev
  BY <1>1, GoesOnward
<1> QED
  BY <1>2, <1>3, <1>4, OnwardKept DEF ScanComments, AdoInv, AdoRows, SeenSound

\* An execution that ends tells of nothing.
LEMMA AbortKept ==
  ASSUME AdoInv, NEW p \in Publishers, Abort(p)
  PROVE  AdoInv'
<1>1. Onward(p) /\ publisher'[p].pc = "idle" /\ publisher'[p].rev = 0
  BY EndsOnward DEF Abort
<1> QED
  BY <1>1, OnwardKept DEF Abort, AdoInv, AdoRows, Told, Dispositions

\* Without its lock an execution goes on as before.
LEMMA LoseKept ==
  ASSUME AdoInv, NEW p \in Publishers, NEW lock \in {"item", "update"}, LoseLock(p, lock)
  PROVE  AdoInv'
<1>1. publisher[p] \in PublisherRow /\ publisher \in [Publishers -> PublisherRow]
  BY DEF AdoInv, AdoRows
<1>2. /\ Onward(p) /\ publisher'[p].pc = publisher[p].pc
      /\ publisher'[p].of = publisher[p].of /\ publisher'[p].rev = publisher[p].rev
  BY <1>1 DEF LoseLock, Onward, PublisherRow
<1>3. lost' \in 0..MaxLost
  BY AdoAssumption DEF LoseLock, AdoInv, AdoRows
<1>4. publisher[p].pc \in Told => Marked(publisher[p].of)
  BY DEF AdoInv, Telling, Told, Dispositions
<1> QED
  BY <1>2, <1>3, <1>4, OnwardKept DEF LoseLock, AdoInv, AdoRows, SeenSound

\* A comment comes after those of the milestones that were published before.
LEMMA PostKept ==
  ASSUME AdoInv, NEW p \in Publishers, NEW arrives \in BOOLEAN, NEW answered \in BOOLEAN,
         PostComment(p, arrives, answered)
  PROVE  AdoInv'
<1>0. publisher[p].of \in Milestones
  BY DEF PostComment, AdoInv, Telling
<1> PICK m \in Milestones : m = publisher[p].of
  BY <1>0
<1>1. /\ publisher[p].pc = "post" /\ Begun(m)
      /\ UNCHANGED <<milestone, update, ado, edits, lost>>
  BY DEF PostComment, AdoInv, Telling
<1>2. "decide" \in Steps /\ publisher[p].pc # "idle"
  BY <1>1 DEF Steps
<1>3. /\ Onward(p) /\ publisher'[p].of = m /\ publisher'[p].rev = publisher[p].rev
      /\ publisher'[p].pc = IF answered THEN "decide" ELSE "post"
  <2>1. CASE answered
    BY <2>1, <1>2, GoesOnward DEF PostComment
  <2>2. CASE ~answered
    BY <2>2, <1>1, <1>2, RepeatsOnward DEF PostComment
  <2> QED
    BY <2>1, <2>2
<1>4. /\ comments' \in Seq(Milestones) /\ Len(comments') \in {Len(comments), Len(comments) + 1}
      /\ DOMAIN comments' = 1..Len(comments') /\ DOMAIN comments = 1..Len(comments)
      /\ Len(comments) \in Nat
      /\ \A i \in DOMAIN comments : i \in DOMAIN comments' /\ comments'[i] = comments[i]
      /\ \A i \in DOMAIN comments' \ DOMAIN comments : i = Len(comments) + 1 /\ comments'[i] = m
      /\ answered => \E i \in DOMAIN comments' : comments'[i] = m
  <2>1. comments \in Seq(Milestones)
    BY DEF AdoInv, AdoRows
  <2>2. CASE arrives
    <3>1. comments' = Append(comments, m)
      BY <2>2 DEF PostComment
    <3> QED
      BY <2>1, <3>1, <1>1
  <2>3. CASE ~arrives
    BY <2>1, <2>3 DEF PostComment
  <2> QED
    BY <2>2, <2>3
<1>5. \A n \in Milestones : /\ Begun(n) <=> Begun(n)'
                            /\ Marked(n) => Marked(n)'
                            /\ Marked(n)' => Marked(n) \/ n = m
  BY <1>1, <1>4 DEF Begun, Marked
<1>6. answered => Marked(m)'
  BY <1>4 DEF Marked
<1>7. publisher'[p].pc \in Told => Marked(publisher[p].of)'
  <2>1. publisher'[p].pc \in Told => answered
    BY <1>3 DEF Told, Dispositions
  <2>2. Marked(m)' => Marked(publisher[p].of)'
    BY <1>3 DEF Marked
  <2> QED
    BY <2>1, <2>2, <1>6
<1>8. Telling' /\ LocksApart'
  BY <1>3, <1>5, <1>7, OnwardTelling
<1>9. AdoRows'
  BY <1>1, <1>3, <1>4 DEF AdoInv, AdoRows, Onward
<1>10. Ordered' /\ RowsAgree'
  BY <1>1, <1>5 DEF AdoInv, Ordered, RowsAgree
<1>11. SeenSound'
  BY <1>1, <1>3 DEF AdoInv, SeenSound, Onward
<1>12. MilestonesInOrder'
  <2>1. ASSUME NEW i \in DOMAIN comments', NEW n \in Milestones, Begun(n),
               SequenceOf[n] < SequenceOf[comments'[i]]
        PROVE  \E j \in 1..(i - 1) : comments'[j] = n
    <3>1. CASE i \in DOMAIN comments
      <4>1. SequenceOf[n] < SequenceOf[comments[i]]
        BY <3>1, <2>1, <1>4
      <4>2. PICK j \in 1..(i - 1) : comments[j] = n
        BY <4>1, <3>1, <2>1 DEF AdoInv, MilestonesInOrder, Begun
      <4>3. j \in DOMAIN comments
        <5>1. i \in 1..Len(comments) /\ j \in 1..(i - 1) /\ Len(comments) \in Nat
          BY <4>2, <3>1, <1>4
        <5>2. j \in 1..Len(comments)
          BY <5>1
        <5> QED
          BY <5>2, <1>4
      <4> QED
        BY <4>2, <4>3, <1>4
    <3>2. CASE i \notin DOMAIN comments
      <4>1. comments'[i] = m /\ i = Len(comments) + 1
        BY <3>2, <1>4
      <4>2. milestone[n].st = "published"
        BY <4>1, <2>1, <1>1 DEF AdoInv, Ordered, Begun
      <4>3. Marked(n)
        BY <4>2 DEF AdoInv, MilestonesInOrder
      <4>4. PICK j \in DOMAIN comments : comments[j] = n
        BY <4>3 DEF Marked
      <4>5. j \in 1..(i - 1)
        <5>1. j \in 1..Len(comments)
          BY <4>4, <1>4
        <5>2. i = Len(comments) + 1 /\ Len(comments) \in Nat
          BY <4>1, <1>4
        <5> QED
          BY <5>1, <5>2
      <4> QED
        BY <4>4, <4>5, <1>4
    <3> QED
      BY <3>1, <3>2
  <2>2. \A n \in Milestones : /\ milestone[n].st = "published" => Marked(n)'
                              /\ milestone[n].st \in {"none", "suppressed"} => ~Marked(n)'
    <3>1. milestone[m].st \notin {"none", "suppressed"}
      BY <1>1 DEF Begun
    <3> QED
      BY <1>5, <3>1 DEF AdoInv, MilestonesInOrder
  <2> QED
    BY <1>1, <2>1, <2>2 DEF MilestonesInOrder, Begun
<1> QED
  BY <1>8, <1>9, <1>10, <1>11, <1>12 DEF AdoInv

\* An operation is begun for the milestone that the execution tells of.
LEMMA DecisionKept ==
  ASSUME AdoInv, NEW p \in Publishers, Decide(p)
  PROVE  AdoInv'
<1> DEFINE m == publisher[p].of
<1>1. /\ publisher[p].pc = "decide" /\ m \in Milestones /\ Begun(m) /\ Marked(m)
      /\ UNCHANGED <<milestone, ado, comments, edits, lost>>
      /\ publisher[p] \in PublisherRow /\ publisher \in [Publishers -> PublisherRow]
      /\ update \in [Milestones -> {"none", "pending", "succeeded", "conflicted"}]
      /\ ado.rev \in Nat /\ lost \in 0..MaxLost
  BY DEF Decide, AdoInv, AdoRows, Telling, Told
<1>2. ASSUME NEW pc \in Dispositions, Settles(p, pc), UNCHANGED update
      PROVE  AdoInv'
  <2>1. pc \in Steps /\ pc \notin {"fetch", "patch"} /\ publisher[p].pc # "idle"
    BY <1>1 DEF Steps, Dispositions
  <2>2. Onward(p) /\ publisher'[p].pc = pc /\ publisher'[p].rev = 0
    BY <1>2, <2>1, SettlesOnward
  <2> QED
    BY <1>1, <1>2, <2>1, <2>2, OnwardKept
<1>3. CASE /\ TargetOf[m] # "none"
           /\ update' = [update EXCEPT ![m] = IF @ = "none" THEN "pending" ELSE @]
           /\ publisher' = [publisher EXCEPT
                ![p].pc = CASE update[m] = "succeeded" -> "updated"
                            [] update[m] = "conflicted" -> "reread"
                            [] OTHER -> "fetch",
                ![p].seen = "none",
                ![p].locks = IF update[m] \in {"succeeded", "conflicted"} THEN @
                             ELSE @ \cup {"update"}]
  <2> DEFINE next == CASE update[m] = "succeeded" -> "updated"
                       [] update[m] = "conflicted" -> "reread"
                       [] OTHER -> "fetch"
             locks == IF update[m] \in {"succeeded", "conflicted"} THEN publisher[p].locks
                      ELSE publisher[p].locks \cup {"update"}
             row == [publisher[p] EXCEPT !.pc = next, !.seen = "none", !.locks = locks]
  <2>1. next \in {"updated", "reread", "fetch"}
    OBVIOUS
  <2>2. /\ next \in Steps /\ next # "patch"
    BY <2>1 DEF Steps, Dispositions
  <2>3. locks \in SUBSET {"item", "update"} /\ locks \subseteq publisher[p].locks \cup {"update"}
    BY <1>1 DEF PublisherRow
  <2>4. publisher' = [publisher EXCEPT ![p] = row]
    BY <1>1, <1>3
  <2> HIDE DEF next, locks
  <2>5. row \in PublisherRow
    BY <1>1, <2>2, <2>3 DEF PublisherRow
  <2>6. /\ row.pc = next /\ row.of = m /\ row.rev = publisher[p].rev /\ row.locks = locks
    BY <1>1 DEF PublisherRow
  <2> HIDE DEF row
  <2>7. /\ Onward(p) /\ publisher'[p].pc = next /\ publisher'[p].of = m
        /\ publisher'[p].rev = publisher[p].rev
    BY <1>1, <2>3, <2>4, <2>5, <2>6 DEF Onward
  <2>8. publisher[p].rev <= ado.rev
    BY DEF AdoInv, SeenSound
  <2>9. /\ update' \in [Milestones -> {"none", "pending", "succeeded", "conflicted"}]
        /\ \A n \in Milestones : update'[n] # "none" => update[n] # "none" \/ n = m
    BY <1>1, <1>3
  <2> QED
    BY <1>1, <1>3, <2>2, <2>7, <2>8, <2>9, OnwardKept
<1> QED
  BY <1>2, <1>3 DEF Decide, Dispositions

\* The item is as it was fetched, or settled.
LEMMA FetchKept ==
  ASSUME AdoInv, NEW p \in Publishers, FetchItem(p)
  PROVE  AdoInv'
<1> DEFINE m == publisher[p].of
<1>1. /\ publisher[p].pc = "fetch" /\ m \in Milestones /\ Begun(m) /\ Marked(m)
      /\ UNCHANGED <<milestone, ado, comments, edits, lost>> /\ TargetOf[m] # "none"
      /\ publisher[p] \in PublisherRow /\ publisher \in [Publishers -> PublisherRow]
      /\ update \in [Milestones -> {"none", "pending", "succeeded", "conflicted"}]
      /\ ado.rev \in Nat /\ lost \in 0..MaxLost
  BY DEF FetchItem, AdoInv, AdoRows, Telling, Told, SeenSound
<1>2. ASSUME NEW pc \in {"updated", "reread"}, NEW status \in {"succeeded", "conflicted"},
             Settles(p, pc), update' = [update EXCEPT ![m] = IF @ = "pending" THEN status ELSE @]
      PROVE  AdoInv'
  <2>1. pc \in Steps /\ pc \notin {"fetch", "patch"} /\ publisher[p].pc # "idle"
    BY <1>1 DEF Steps, Dispositions
  <2>2. Onward(p) /\ publisher'[p].pc = pc /\ publisher'[p].rev = 0
    BY <1>2, <2>1, SettlesOnward
  <2>3. /\ update' \in [Milestones -> {"none", "pending", "succeeded", "conflicted"}]
        /\ \A n \in Milestones : update'[n] # "none" => update[n] # "none"
    BY <1>1, <1>2
  <2> QED
    BY <1>1, <2>1, <2>2, <2>3, OnwardKept
<1>3. CASE /\ ado.state = Predecessor[TargetOf[m]]
           /\ publisher' = [publisher EXCEPT ![p].pc = "patch", ![p].rev = ado.rev]
           /\ UNCHANGED update
  <2> DEFINE row == [publisher[p] EXCEPT !.pc = "patch", !.rev = ado.rev]
  <2>1. row \in PublisherRow
    BY <1>1 DEF PublisherRow, Steps
  <2>2. row.pc = "patch" /\ row.of = m /\ row.rev = ado.rev /\ row.locks = publisher[p].locks
    BY <1>1 DEF PublisherRow
  <2>3. publisher' = [publisher EXCEPT ![p] = row]
    BY <1>1, <1>3
  <2> HIDE DEF row
  <2>4. /\ Onward(p) /\ publisher'[p].pc = "patch" /\ publisher'[p].of = m
        /\ publisher'[p].rev = ado.rev
    BY <1>1, <2>1, <2>2, <2>3 DEF Onward
  <2> QED
    BY <1>1, <1>3, <2>4, OnwardKept
<1> QED
  BY <1>2, <1>3 DEF FetchItem

\* Only an item that nobody changed since it was fetched is changed.
LEMMA PatchKept ==
  ASSUME AdoInv, NEW p \in Publishers, NEW answered \in BOOLEAN, PatchApplies(p, answered)
  PROVE  AdoInv'
<1>0. publisher[p].of \in Milestones
  BY DEF PatchApplies, AdoInv, Telling
<1> PICK m \in Milestones : m = publisher[p].of
  BY <1>0
<1>1. /\ publisher[p].pc = "patch" /\ Begun(m) /\ Marked(m) /\ TargetOf[m] # "none"
      /\ publisher[p].rev = ado.rev /\ ado.rev \in Nat
      /\ UNCHANGED <<milestone, comments, edits, lost>>
      /\ ado' = [state |-> TargetOf[m], rev |-> ado.rev + 1]
      /\ publisher \in [Publishers -> PublisherRow]
      /\ update \in [Milestones -> {"none", "pending", "succeeded", "conflicted"}]
  BY DEF PatchApplies, Unrevised, AdoInv, AdoRows, Telling, Told, SeenSound
<1>2. /\ Onward(p) /\ publisher'[p].of = m
      /\ \/ publisher'[p].pc = "updated" /\ publisher'[p].rev = 0
         \/ publisher'[p].pc = "patch" /\ publisher'[p].rev = ado.rev
  <2>1. "updated" \in Steps /\ publisher[p].pc # "idle"
    BY <1>1 DEF Steps, Dispositions
  <2>2. CASE answered
    BY <2>1, <2>2, SettlesOnward DEF PatchApplies
  <2>3. CASE ~answered
    BY <1>1, <2>1, <2>3, RepeatsOnward DEF PatchApplies
  <2> QED
    BY <2>2, <2>3
<1>3. /\ update' \in [Milestones -> {"none", "pending", "succeeded", "conflicted"}]
      /\ \A n \in Milestones : update'[n] # "none" => update[n] # "none"
  BY <1>1 DEF PatchApplies
<1>4. AdoRows'
  <2>1. TargetOf[m] \in AdoStates
    BY <1>1, AdoAssumption
  <2> QED
    BY <1>1, <1>2, <1>3, <2>1 DEF AdoInv, AdoRows, Onward
<1>5. \A n \in Milestones : (Begun(n)' <=> Begun(n)) /\ (Marked(n)' <=> Marked(n))
  BY <1>1 DEF Begun, Marked
<1>6. Telling' /\ LocksApart'
  <2>1. Marked(publisher[p].of)'
    BY <1>1, <1>2 DEF Marked
  <2> QED
    BY <1>2, <1>5, <2>1, OnwardTelling
<1>7. Ordered'
  BY <1>1, <1>5 DEF AdoInv, Ordered
<1>8. SeenSound'
  <2>1. \A q \in Publishers : publisher[q].rev \in Nat /\ publisher[q].rev <= ado.rev
    BY <1>1 DEF AdoInv, SeenSound, PublisherRow
  <2>2. \A q \in Publishers : publisher'[q].rev \in Nat /\ publisher'[q].rev <= ado.rev
    BY <1>1, <1>2, <2>1 DEF Onward
  <2>3. ado'.rev = ado.rev + 1
    BY <1>1
  <2>4. \A q \in Publishers :
          publisher'[q].pc \in {"fetch", "patch"} => TargetOf[publisher'[q].of] # "none"
    BY <1>1, <1>2 DEF AdoInv, SeenSound, Onward
  <2> QED
    BY <1>1, <2>2, <2>3, <2>4 DEF SeenSound
<1>9. RowsAgree'
  BY <1>1, <1>3 DEF AdoInv, RowsAgree
<1>10. MilestonesInOrder'
  BY <1>1, <1>5 DEF AdoInv, MilestonesInOrder
<1> QED
  BY <1>4, <1>6, <1>7, <1>8, <1>9, <1>10 DEF AdoInv

\* A patch that is refused changes nothing of the item.
LEMMA ConflictKept ==
  ASSUME AdoInv, NEW p \in Publishers, PatchConflicts(p)
  PROVE  AdoInv'
<1>1. /\ publisher[p].pc = "patch" /\ publisher[p].of \in Milestones
      /\ Marked(publisher[p].of) /\ "reread" \in Steps
      /\ update \in [Milestones -> {"none", "pending", "succeeded", "conflicted"}]
      /\ UNCHANGED <<milestone, ado, comments, edits, lost>>
      /\ ado.rev \in Nat /\ lost \in 0..MaxLost
  BY DEF PatchConflicts, AdoInv, AdoRows, Telling, Told, Steps
<1>2. Onward(p) /\ publisher'[p].pc = "reread" /\ publisher'[p].rev = 0
  BY <1>1, SettlesOnward DEF PatchConflicts
<1>3. /\ update' \in [Milestones -> {"none", "pending", "succeeded", "conflicted"}]
      /\ \A n \in Milestones : update'[n] # "none" => update[n] # "none"
  BY <1>1 DEF PatchConflicts
<1> QED
  BY <1>1, <1>2, <1>3, OnwardKept

\* The state that is read after a conflict only says how the milestone ended.
LEMMA ReadAgainKept ==
  ASSUME AdoInv, NEW p \in Publishers, ReadAgain(p)
  PROVE  AdoInv'
<1>1. /\ publisher[p].pc = "reread" /\ Marked(publisher[p].of)
      /\ UNCHANGED <<milestone, update, ado, comments, edits, lost>>
      /\ update \in [Milestones -> {"none", "pending", "succeeded", "conflicted"}]
      /\ ado.rev \in Nat /\ lost \in 0..MaxLost
  BY DEF ReadAgain, AdoInv, AdoRows, Telling, Told
<1> DEFINE next == IF ado.state = TargetOf[publisher[p].of] THEN "already-current"
                   ELSE "preserved-manual"
<1>2. next \in Steps /\ next \notin {"idle", "fetch", "patch"} /\ Settles(p, next)
  BY DEF ReadAgain, Steps, Dispositions
<1> HIDE DEF next
<1>3. Onward(p) /\ publisher'[p].pc = next /\ publisher'[p].rev = 0
  BY <1>1, <1>2, SettlesOnward
<1> QED
  BY <1>1, <1>2, <1>3, OnwardKept

\* A milestone is published by an execution that has told of it.
LEMMA FinishKept ==
  ASSUME AdoInv, NEW p \in Publishers, Finish(p)
  PROVE  AdoInv'
<1>0. publisher[p].of \in Milestones
  BY DEF Finish, AdoInv, Telling, Dispositions
<1> PICK m \in Milestones : m = publisher[p].of
  BY <1>0
<1>1. /\ publisher[p].pc \in Dispositions /\ publisher[p].pc # "idle" /\ Begun(m) /\ Marked(m)
      /\ UNCHANGED <<update, ado, comments, edits, lost>> /\ ado.rev \in Nat
      /\ milestone \in [Milestones -> MilestoneRow]
      /\ milestone' = [milestone EXCEPT ![m] =
           IF @.st = "pending" THEN [st |-> "published", disposition |-> publisher[p].pc] ELSE @]
  BY DEF Finish, AdoInv, AdoRows, Telling, Told, Dispositions
<1>2. /\ milestone' \in [Milestones -> MilestoneRow]
      /\ \A n \in Milestones \ {m} : milestone'[n] = milestone[n]
      /\ milestone'[m].st = "published" /\ milestone'[m].disposition \notin {"none", "suppressed"}
  <2>1. CASE milestone[m].st = "pending"
    BY <1>1, <2>1 DEF MilestoneRow, Dispositions
  <2>2. CASE milestone[m].st = "published"
    <3>1. milestone' = milestone
      BY <1>1, <2>2
    <3> QED
      BY <1>1, <2>2, <3>1 DEF AdoInv, RowsAgree
  <2> QED
    BY <1>1, <2>1, <2>2 DEF Begun
<1>3. Onward(p) /\ publisher'[p].pc = "idle" /\ publisher'[p].rev = 0
  BY EndsOnward DEF Finish
<1>4. \A n \in Milestones : (Begun(n)' <=> Begun(n)) /\ (Marked(n)' <=> Marked(n))
  BY <1>1, <1>2 DEF Begun, Marked
<1>5. Telling' /\ LocksApart'
  BY <1>3, <1>4, OnwardTelling DEF Told, Dispositions
<1>6. AdoRows'
  BY <1>1, <1>2, <1>3 DEF AdoInv, AdoRows, Onward
<1>7. Ordered'
  BY <1>2, <1>4 DEF AdoInv, Ordered
<1>8. SeenSound'
  BY <1>1, <1>3 DEF AdoInv, SeenSound, Onward
<1>9. RowsAgree'
  BY <1>1, <1>2 DEF AdoInv, RowsAgree
<1>10. MilestonesInOrder'
  BY <1>1, <1>2, <1>4 DEF AdoInv, MilestonesInOrder, Begun
<1> QED
  BY <1>5, <1>6, <1>7, <1>8, <1>9, <1>10 DEF AdoInv

\* People change the revision with the item, so no patch is for what they changed.
LEMMA HumanKept ==
  ASSUME AdoInv, NEW state \in AdoStates, HumanEdit(state)
  PROVE  AdoInv'
<1>1. /\ UNCHANGED <<milestone, update, comments, publisher, lost>>
      /\ ado' = [state |-> state, rev |-> ado.rev + 1] /\ ado.rev \in Nat
      /\ edits' \in 0..MaxHumanEdits
  BY AdoAssumption DEF HumanEdit, AdoInv, AdoRows
<1>2. AdoRows'
  BY <1>1 DEF AdoInv, AdoRows
<1>3. \A n \in Milestones : (Begun(n)' <=> Begun(n)) /\ (Marked(n)' <=> Marked(n))
  BY <1>1 DEF Begun, Marked
<1>4. Telling' /\ LocksApart' /\ Ordered' /\ RowsAgree'
  BY <1>1, <1>3 DEF AdoInv, Telling, LocksApart, Ordered, RowsAgree
<1>5. SeenSound'
  <2>1. \A q \in Publishers : publisher[q].rev \in Nat /\ publisher[q].rev <= ado.rev
    BY DEF AdoInv, AdoRows, SeenSound, PublisherRow
  <2>2. ado'.rev = ado.rev + 1
    BY <1>1
  <2> QED
    BY <1>1, <2>1, <2>2 DEF AdoInv, SeenSound
<1>6. MilestonesInOrder'
  BY <1>1, <1>3 DEF AdoInv, MilestonesInOrder
<1> QED
  BY <1>2, <1>4, <1>5, <1>6 DEF AdoInv

\* Every step of the executions and of the people keeps the invariant.
LEMMA AdoKept == AdoInv /\ [AdoNext]_adoVars => AdoInv'
<1> SUFFICES ASSUME AdoInv, [AdoNext]_adoVars
             PROVE  AdoInv'
  OBVIOUS
<1>1. CASE UNCHANGED adoVars
  BY <1>1 DEF adoVars, AdoInv, AdoRows, Ordered, Telling, SeenSound, LocksApart, RowsAgree,
     MilestonesInOrder, Begun, Marked
<1>2. CASE AdoNext
  BY <1>2, SuppressKept, StartMilestoneKept, ReadStateKept, ScanKept, PostKept, DecisionKept, FetchKept,
     PatchKept, ConflictKept, ReadAgainKept, FinishKept, AbortKept, LoseKept, HumanKept DEF AdoNext
<1> QED
  BY <1>1, <1>2

\* The rows have the columns' types, and the comments come in the order of the milestones, for
\* any number of milestones and publishers, however requests are lost and repeated
\* (ado_progress.py publish, _start; ado_adapter.py comment_once).
THEOREM ToldInOrder == AdoSpec => [](AdoTypeOK /\ MilestonesInOrder)
<1>1. ASSUME AdoInv PROVE AdoTypeOK /\ MilestonesInOrder
  <2>1. \A p \in Publishers : publisher[p].rev \in 0..ado.rev
    BY <1>1 DEF AdoInv, AdoRows, SeenSound, PublisherRow
  <2>2. publisher \in [Publishers ->
       [pc : {"idle", "read", "scan", "post", "decide", "fetch", "patch", "reread"} \cup
             Dispositions,
        of : Milestones \cup {"none"}, seen : AdoStates \cup {"none"},
        rev : 0..ado.rev, tries : 0..MaxTries, locks : SUBSET {"item", "update"}]]
    BY <1>1, <2>1 DEF AdoInv, AdoRows, PublisherRow, Steps
  <2>3. ado.state \in AdoStates /\ ado.rev \in Nat
    BY <1>1 DEF AdoInv, AdoRows
  <2> QED
    BY <1>1, <2>2, <2>3 DEF AdoInv, AdoRows, RowsAgree, LocksApart, AdoTypeOK, MilestoneRow
<1> QED
  BY <1>1, AdoBegins, AdoKept, PTL DEF AdoSpec

\* People's changes of the item stay: a publisher moves it only from the state before the one
\* its milestone asks for (ado_adapter.py, the patch's test of the revision).
THEOREM HumansKept == AdoSpec => HumanEditsKept
<1>1. ASSUME AdoInv, [AdoNext]_adoVars, ado'.state # ado.state, edits' = edits
      PROVE  \E p \in Publishers :
               LET target == TargetOf[publisher[p].of] IN
               /\ publisher[p].pc = "patch"
               /\ ado.state = Predecessor[target] /\ ado'.state = target
  <2>1. \A state \in AdoStates : ~HumanEdit(state)
    BY <1>1 DEF HumanEdit, AdoInv, AdoRows
  <2>2. ado' # ado
    BY <1>1
  <2>3. PICK p \in Publishers, answered \in BOOLEAN : PatchApplies(p, answered)
    BY <1>1, <2>1, <2>2 DEF AdoNext, adoVars, Suppress, StartMilestone, ReadState, ScanComments,
       PostComment, Decide, FetchItem, PatchConflicts, ReadAgain, Finish, Abort, LoseLock
  <2> QED
    BY <1>1, <2>3 DEF PatchApplies, Unrevised, AdoInv, SeenSound
<1> QED
  BY <1>1, AdoBegins, AdoKept, PTL DEF AdoSpec, HumanEditsKept

-----------------------------------------------------------------------------
(* The platform: lifecycle, flows, read models and milestones side by side *)

\* What one of them does leaves the others alone, so that each keeps to its own
\* specification: what is proved of a component holds of MCPlatform.
THEOREM PlatformApart ==
  PlatformSpec => LifecycleSpec /\ FlowSpec /\ ReadModelSpec /\ AdoSpec
<1>1. PlatformInit => LifecycleInit /\ FlowInit /\ ReadModelInit /\ AdoInit
  BY DEF PlatformInit
<1>2. ASSUME [PlatformNext]_platformVars
      PROVE  /\ [PolicyNext]_lifecycleVars /\ [FlowNext]_flowVars
             /\ [ReadModelNext]_readModelVars /\ [AdoNext]_adoVars
  BY <1>2 DEF PlatformNext, platformVars
<1> QED
  BY <1>1, <1>2, PTL DEF PlatformSpec, LifecycleSpec, FlowSpec, ReadModelSpec, AdoSpec

\* All rows of the platform have their types at all times, those of the lifecycle, of the
\* flow, of the read models and of the milestones.
THEOREM PlatformTyped == PlatformSpec => []PlatformTypeOK
<1>1. LifecycleInv => TypeOK
  BY DEF LifecycleInv, GateInv
<1>2. TypeOK /\ FlowTypeOK /\ ReadModelTypeOK /\ AdoTypeOK => PlatformTypeOK
  BY DEF PlatformTypeOK
<1> QED
  BY <1>1, <1>2, PlatformApart, LifecycleInvariance, FlowTypes, ReadersHaveAll, ToldInOrder, PTL

=============================================================================
