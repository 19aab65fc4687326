---------------------------- MODULE ScannerProofs ----------------------------
(***************************************************************************)
(* Proofs about Scanner and OwnerSearch, for any clusters, streams,        *)
(* consumers, filters and thresholds, and any use of the consumers while   *)
(* they are scanned or searched.                                           *)
(***************************************************************************)
EXTENDS OwnerSearch, JetStreamProofs, FiniteSetTheorems

-----------------------------------------------------------------------------
(* What a row is made of.                                                   *)
LEMMA RowFields ==
  ASSUME NEW r \in Row
  PROVE  /\ r.stream \in Streams /\ r.consumer \in Consumers \cup {NoName}
         /\ r.status \in {"ACTIVE", "STALE", "OK", "ERR"}
         /\ r.pending \in Nat /\ r.lastAck \in Nat
         /\ r.renamedTo \in Consumers \cup {NoName}
         /\ r.peer \in {"", "ACTIVE", "STALE", "ABSENT", "ERR"}
  BY DEF Row

(* The loops over rows, as recursive functions of the number of rows read.  *)

(* The rows proposed are rows, and satisfy the caller's condition.          *)
LEMMA ProposedAreRows ==
  ASSUME NEW R, NEW rs \in Seq(R)
  PROVE  /\ ProposedRows(rs) \in Seq(R)
         /\ \A k \in DOMAIN ProposedRows(rs) :
              \E i \in DOMAIN rs : ProposedRows(rs)[k] = rs[i] /\ Proposed(rs[i])
<1> DEFINE N == Len(rs)
           Def(f, n) == f = [i \in 0 .. n |->
                              IF i = 0 THEN << >>
                              ELSE IF Proposed(rs[i]) THEN Append(f[i - 1], rs[i])
                              ELSE f[i - 1]]
           Good(t) == /\ t \in Seq(R)
                      /\ \A k \in DOMAIN t : \E i \in DOMAIN rs : t[k] = rs[i] /\ Proposed(rs[i])
<1>0. N \in Nat /\ DOMAIN rs = 1 .. N /\ \A i \in 1 .. N : rs[i] \in R
  OBVIOUS
\* The recursive definition has a solution.
<1>1. \A n \in 0 .. N : \E f : Def(f, n)
  <2> DEFINE Bad == {n \in 0 .. N : ~ \E f : Def(f, n)}
  <2> SUFFICES ASSUME Bad # {} PROVE FALSE
    OBVIOUS
  <2>1. Bad \in SUBSET Nat
    BY <1>0
  <2>2. PICK n \in Bad : \A k \in Bad : n <= k
    BY <2>1, LeastNat
  <2>3. CASE n = 0
    <3>1. Def([i \in 0 .. 0 |-> << >>], 0)
      OBVIOUS
    <3> QED BY <3>1, <2>2, <2>3
  <2>4. CASE n # 0
    <3>0. n \in 0 .. N /\ n - 1 \in 0 .. N /\ ~(n <= n - 1)
      BY <1>0, <2>2, <2>4
    <3>1. n - 1 \in 0 .. N /\ n - 1 \notin Bad
      <4> HIDE DEF Bad
      <4> QED BY <3>0, <2>2
    <3>2. PICK f : Def(f, n - 1)
      BY <3>1
    <3> DEFINE g == [i \in 0 .. n |->
                      IF i # n THEN f[i]
                      ELSE IF Proposed(rs[n]) THEN Append(f[n - 1], rs[n]) ELSE f[n - 1]]
    <3>3. \A i \in 0 .. (n - 1) : f[i] = IF i = 0 THEN << >>
                              ELSE IF Proposed(rs[i]) THEN Append(f[i - 1], rs[i])
                              ELSE f[i - 1]
      BY <3>2
    <3>4. \A i \in 0 .. n : i = n \/ i \in 0 .. (n - 1)
      BY <2>2, <1>0
    <3>5. n \in Nat /\ n >= 1
      BY <2>2, <2>4, <1>0
    <3>6. \A i \in 0 .. n : i # 0 => g[i - 1] = f[i - 1]
      BY <3>5
    <3>7. \A i \in 0 .. n : g[i] = IF i = 0 THEN << >>
                              ELSE IF Proposed(rs[i]) THEN Append(g[i - 1], rs[i])
                              ELSE g[i - 1]
      BY <3>3, <3>4, <3>5, <3>6
    <3>8. Def(g, n)
      BY <3>7
    <3> QED BY <3>8, <2>2
  <2> QED BY <2>3, <2>4
<1> DEFINE kept == CHOOSE f : Def(f, N)
<1>2. Def(kept, N)
  <2>1. N \in 0 .. N
    BY <1>0
  <2> HIDE DEF Def
  <2>2. \E f : Def(f, N)
    BY <1>1, <2>1
  <2> QED BY <2>2, Zenon
<1>3. ProposedRows(rs) = kept[N]
  BY DEF ProposedRows
<1>4. \A i \in 0 .. N : kept[i] = IF i = 0 THEN << >>
                              ELSE IF Proposed(rs[i]) THEN Append(kept[i - 1], rs[i])
                              ELSE kept[i - 1]
  BY <1>2
<1> HIDE DEF kept
<1>5. \A n \in 0 .. N : Good(kept[n])
  <2> DEFINE Bad == {n \in 0 .. N : ~ Good(kept[n])}
  <2> SUFFICES ASSUME Bad # {} PROVE FALSE
    OBVIOUS
  <2>1. Bad \in SUBSET Nat
    BY <1>0
  <2>2. PICK n \in Bad : \A k \in Bad : n <= k
    BY <2>1, LeastNat
  <2>3. CASE n = 0
    <3>1. kept[0] = << >>
      BY <1>4, <1>0
    <3>2. Good(<< >>)
      OBVIOUS
    <3> QED BY <2>2, <2>3, <3>1, <3>2
  <2>4. CASE n # 0
    <3>1. n \in 1 .. N /\ n - 1 \in 0 .. N /\ n - 1 \notin Bad
      BY <1>0, <2>2, <2>4
    <3>2. Good(kept[n - 1])
      BY <3>1
    <3>3. kept[n] = IF Proposed(rs[n]) THEN Append(kept[n - 1], rs[n]) ELSE kept[n - 1]
      BY <1>4, <3>1
    <3>4. CASE Proposed(rs[n])
      <4> DEFINE t == kept[n - 1]
      <4> HIDE DEF t
      <4>1. t \in Seq(R) /\ rs[n] \in R
        BY <3>2, <3>1, <1>0 DEF t
      <4>2. \A k \in DOMAIN Append(t, rs[n]) :
              \/ Append(t, rs[n])[k] = rs[n]
              \/ k \in DOMAIN t /\ Append(t, rs[n])[k] = t[k]
        BY <4>1
      <4>3. Append(t, rs[n]) \in Seq(R)
        BY <4>1
      <4>4. Good(Append(t, rs[n]))
        BY <4>2, <4>3, <3>2, <3>1, <3>4, <1>0 DEF t
      <4> QED BY <4>4, <3>3, <3>4, <2>2 DEF t
    <3>5. CASE ~Proposed(rs[n])
      BY <3>2, <3>3, <3>5, <2>2
    <3> QED BY <3>4, <3>5
  <2> QED BY <2>3, <2>4
<1>6. Good(kept[N])
  BY <1>0, <1>5
<1> QED BY <1>3, <1>6

HeirsOf(rs, s, f) == {j \in DOMAIN rs : Heir(rs[j], s, f)}

(* The successor of a stream and filter is the row of an active consumer of *)
(* theirs that no other outdoes, if there is such a consumer.               *)
LEMMA SuccessorsFound ==
  ASSUME NEW rs \in Seq(Row), NEW s, NEW f
  PROVE  \/ Successors(rs, s, f) = << >> /\ HeirsOf(rs, s, f) = {}
         \/ \E j \in HeirsOf(rs, s, f) :
              /\ Successors(rs, s, f) = <<rs[j]>>
              /\ \A k \in HeirsOf(rs, s, f) : rs[k].lastAck <= rs[j].lastAck
<1> DEFINE N == Len(rs)
           Def(b, n) == b = [i \in 0 .. n |->
                              IF i = 0 THEN << >>
                              ELSE IF Heir(rs[i], s, f) /\ ~Outdone(rs[i], b[i - 1])
                              THEN <<rs[i]>> ELSE b[i - 1]]
           Read(n) == {j \in 1 .. n : Heir(rs[j], s, f)}
           Good(t, n) == \/ t = << >> /\ Read(n) = {}
                         \/ \E j \in Read(n) :
                              /\ t = <<rs[j]>>
                              /\ \A k \in Read(n) : rs[k].lastAck <= rs[j].lastAck
<1>0. N \in Nat /\ DOMAIN rs = 1 .. N /\ \A i \in 1 .. N : rs[i].lastAck \in Nat
  <2>1. N \in Nat /\ DOMAIN rs = 1 .. N /\ \A i \in 1 .. N : rs[i] \in Row
    OBVIOUS
  <2>2. \A r \in Row : r.lastAck \in Nat
    BY RowFields
  <2> QED BY <2>1, <2>2
\* The recursive definition has a solution.
<1>1. \A n \in 0 .. N : \E b : Def(b, n)
  <2> DEFINE Bad == {n \in 0 .. N : ~ \E b : Def(b, n)}
  <2> SUFFICES ASSUME Bad # {} PROVE FALSE
    OBVIOUS
  <2>1. Bad \in SUBSET Nat
    BY <1>0
  <2>2. PICK n \in Bad : \A k \in Bad : n <= k
    BY <2>1, LeastNat
  <2>3. CASE n = 0
    <3>1. Def([i \in 0 .. 0 |-> << >>], 0)
      OBVIOUS
    <3> QED BY <3>1, <2>2, <2>3
  <2>4. CASE n # 0
    <3>1. n \in 0 .. N /\ n - 1 \in 0 .. N /\ ~(n <= n - 1)
      BY <1>0, <2>2, <2>4
    <3>2. n - 1 \in 0 .. N /\ n - 1 \notin Bad
      <4> HIDE DEF Bad
      <4> QED BY <3>1, <2>2
    <3>3. PICK b : Def(b, n - 1)
      BY <3>2
    <3> DEFINE g == [i \in 0 .. n |->
                      IF i # n THEN b[i]
                      ELSE IF Heir(rs[n], s, f) /\ ~Outdone(rs[n], b[n - 1])
                      THEN <<rs[n]>> ELSE b[n - 1]]
    <3>4. \A i \in 0 .. (n - 1) : b[i] = IF i = 0 THEN << >>
                              ELSE IF Heir(rs[i], s, f) /\ ~Outdone(rs[i], b[i - 1])
                              THEN <<rs[i]>> ELSE b[i - 1]
      BY <3>3
    <3>5. n \in Nat /\ n >= 1 /\ \A i \in 0 .. n : i = n \/ i \in 0 .. (n - 1)
      BY <3>1, <2>4
    <3>6. \A i \in 0 .. n : i # 0 => g[i - 1] = b[i - 1]
      BY <3>5
    <3>7. \A i \in 0 .. n : g[i] = IF i = 0 THEN << >>
                              ELSE IF Heir(rs[i], s, f) /\ ~Outdone(rs[i], g[i - 1])
                              THEN <<rs[i]>> ELSE g[i - 1]
      BY <3>4, <3>5, <3>6
    <3>8. Def(g, n)
      BY <3>7
    <3> QED BY <3>8, <2>2
  <2> QED BY <2>3, <2>4
<1> DEFINE best == CHOOSE b : Def(b, N)
<1>2. Def(best, N)
  <2>1. N \in 0 .. N
    BY <1>0
  <2> HIDE DEF Def
  <2>2. \E b : Def(b, N)
    BY <1>1, <2>1
  <2> QED BY <2>2, Zenon
<1>3. Successors(rs, s, f) = best[N]
  BY DEF Successors
<1>4. \A i \in 0 .. N : best[i] = IF i = 0 THEN << >>
                              ELSE IF Heir(rs[i], s, f) /\ ~Outdone(rs[i], best[i - 1])
                              THEN <<rs[i]>> ELSE best[i - 1]
  BY <1>2
<1> HIDE DEF best
<1>5. \A n \in 0 .. N : Good(best[n], n)
  <2> DEFINE Bad == {n \in 0 .. N : ~ Good(best[n], n)}
  <2> SUFFICES ASSUME Bad # {} PROVE FALSE
    OBVIOUS
  <2>1. Bad \in SUBSET Nat
    BY <1>0
  <2>2. PICK n \in Bad : \A k \in Bad : n <= k
    BY <2>1, LeastNat
  <2>3. CASE n = 0
    <3>1. best[0] = << >>
      <4>1. 0 \in 0 .. N
        BY <1>0
      <4> HIDE DEF Bad, Good, Read
      <4> QED BY <1>4, <4>1
    <3>2. Good(<< >>, 0)
      OBVIOUS
    <3> QED BY <2>2, <2>3, <3>1, <3>2
  <2>4. CASE n # 0
    <3>1. n \in 1 .. N /\ n - 1 \in 0 .. N /\ ~(n <= n - 1)
      BY <1>0, <2>2, <2>4
    <3>2. Good(best[n - 1], n - 1)
      <4>1. n - 1 \notin Bad
        <5> HIDE DEF Bad
        <5> QED BY <3>1, <2>2
      <4> QED BY <3>1, <4>1
    <3>3. best[n] = IF Heir(rs[n], s, f) /\ ~Outdone(rs[n], best[n - 1])
                    THEN <<rs[n]>> ELSE best[n - 1]
      BY <1>4, <3>1
    <3>4. Read(n) = IF Heir(rs[n], s, f) THEN Read(n - 1) \cup {n} ELSE Read(n - 1)
      <4>1. 1 .. n = (1 .. (n - 1)) \cup {n}
        BY <3>1
      <4> QED BY <4>1
    <3>5. \A k \in Read(n) : rs[k].lastAck \in Nat
      BY <1>0, <3>1
    <3>6. Good(best[n], n)
      <4> HIDE DEF Read
      <4>1. CASE ~Heir(rs[n], s, f)
        BY <3>2, <3>3, <3>4, <4>1
      <4>2. CASE Heir(rs[n], s, f) /\ best[n - 1] = << >>
        BY <3>2, <3>3, <3>4, <3>5, <4>2 DEF Outdone
      <4>3. ASSUME Heir(rs[n], s, f), NEW j \in Read(n - 1), best[n - 1] = <<rs[j]>>,
                   \A k \in Read(n - 1) : rs[k].lastAck <= rs[j].lastAck
            PROVE  Good(best[n], n)
        <5>1. Outdone(rs[n], best[n - 1]) <=> rs[n].lastAck <= rs[j].lastAck
          BY <4>3 DEF Outdone
        <5> QED BY <3>3, <3>4, <3>5, <4>3, <5>1
      <4> QED BY <3>2, <4>1, <4>2, <4>3
    <3> QED BY <3>6, <2>2
  <2> QED BY <2>3, <2>4
<1>6. Good(best[N], N) /\ Read(N) = HeirsOf(rs, s, f)
  BY <1>0, <1>5 DEF HeirsOf
<1> QED BY <1>3, <1>6

(* One row more.                                                            *)
LEMMA AppendRow ==
  ASSUME NEW rs \in Seq(Row), NEW r \in Row
  PROVE  /\ Append(rs, r) \in Seq(Row)
         /\ DOMAIN rs = 1 .. Len(rs)
         /\ DOMAIN Append(rs, r) = DOMAIN rs \cup {Len(rs) + 1}
         /\ Len(rs) + 1 \notin DOMAIN rs
         /\ Append(rs, r)[Len(rs) + 1] = r
         /\ \A i \in DOMAIN rs : Append(rs, r)[i] = rs[i] /\ rs[i] \in Row
<1> DEFINE R == Row
<1> HIDE DEF R
<1>1. rs \in Seq(R) /\ r \in R
  BY DEF R
<1>2. Append(rs, r) \in Seq(R) /\ DOMAIN rs = 1 .. Len(rs) /\ Len(rs) \in Nat
  BY <1>1
<1>3. DOMAIN Append(rs, r) = 1 .. (Len(rs) + 1)
  BY <1>1
<1>4. Append(rs, r)[Len(rs) + 1] = r /\ \A i \in 1 .. Len(rs) : Append(rs, r)[i] = rs[i] /\ rs[i] \in R
  BY <1>1
<1>5. 1 .. (Len(rs) + 1) = (1 .. Len(rs)) \cup {Len(rs) + 1}
  BY <1>2
<1> QED BY <1>2, <1>3, <1>4, <1>5 DEF R

(* Whoever asks for a scan, its options have their types.                   *)
LEMMA OptionsTyped ==
  ASSUME request \in Requests
  PROVE  MinIdle \in Nat /\ MinPending \in Nat /\ Peer \in Clusters \cup {NoPeer}
<1>1. request \in Request
  BY RequestsAssumption
<1>2. \A v \in Nat \cup {Unset}, d \in Nat : Given(v, d) \in Nat
  BY DEF Given
<1>3. \A v \in Clusters \cup {Unset}, d \in Clusters \cup {NoPeer} :
        Given(v, d) \in Clusters \cup {NoPeer}
  BY DEF Given
<1>4. /\ request.minPending \in Nat \cup {Unset} /\ request.minIdle \in Nat \cup {Unset}
      /\ request.peer \in Clusters \cup {Unset}
      /\ request.caller \in {"cli", "bot", "chat", "owner"}
  BY <1>1 DEF Request
<1>5. Defaults.minPending \in Nat /\ Defaults.minIdle \in Nat
  <2>1. request.file \in Thresholds /\ request.env \in Thresholds
    BY <1>1 DEF Request
  <2>2. /\ request.file.minPending \in Nat \cup {Unset} /\ request.env.minPending \in Nat \cup {Unset}
        /\ request.file.minIdle \in Nat \cup {Unset} /\ request.env.minIdle \in Nat \cup {Unset}
    BY <2>1 DEF Thresholds
  <2>3. Given(request.file.minPending, 0) \in Nat /\ Given(request.file.minIdle, DayIdle) \in Nat
    BY <1>2, <2>2, ThresholdsAssumption
  <2> QED BY <1>2, <2>2, <2>3 DEF Defaults
<1>6. ContextPeer \in Clusters \cup {NoPeer} /\ DayIdle \in Nat /\ ChatMinPending \in Nat
  BY HomeAssumption, ThresholdsAssumption
<1>7. CASE request.caller = "cli"
  <2>1. Options = CliOptions(request)
    BY <1>7 DEF Options
  <2> QED BY <2>1, <1>2, <1>3, <1>4, <1>5, <1>6 DEF MinIdle, MinPending, Peer, CliOptions
<1>8. CASE request.caller = "bot"
  <2>1. Options = ScheduleOptions(request)
    BY <1>8 DEF Options
  <2>2. NoPeer \in Clusters \cup {NoPeer} /\ 0 \in Nat
    OBVIOUS
  <2> QED BY <2>1, <2>2, <1>2, <1>3, <1>4 DEF MinIdle, MinPending, Peer, ScheduleOptions
<1>9. CASE request.caller = "chat"
  <2>1. Options = ChatOptions
    BY <1>9 DEF Options
  <2> QED BY <2>1, <1>6 DEF MinIdle, MinPending, Peer, ChatOptions
<1>10. CASE request.caller = "owner"
  <2>1. Options = OwnerOptions
    BY <1>10 DEF Options
  <2> QED BY <2>1, <1>5 DEF MinIdle, MinPending, Peer, OwnerOptions
<1> QED BY <1>4, <1>7, <1>8, <1>9, <1>10

(* What is asked for does not change while it is answered.                  *)
LEMMA OptionsStay ==
  ASSUME request' = request
  PROVE  MinIdle' = MinIdle /\ MinPending' = MinPending /\ Peer' = Peer /\ Wanted' = Wanted
<1>1. Options' = Options
  BY DEF Options, CliOptions, ScheduleOptions, ChatOptions, OwnerOptions, Defaults
<1> QED BY <1>1 DEF MinIdle, MinPending, Peer, Wanted, OnlyStream

(* The two rows that the walk writes.                                       *)
LEMMA ErrorRowFacts ==
  ASSUME NEW s \in Streams, NEW n \in Consumers \cup {NoName}
  PROVE  /\ ErrorRow(s, n) \in Row
         /\ ErrorRow(s, n).stream = s /\ ErrorRow(s, n).consumer = n
         /\ ErrorRow(s, n).status = "ERR" /\ ErrorRow(s, n).renamedTo = NoName
  BY DEF ErrorRow, Row, SubjectFilters

LEMMA ClassifiedRowFacts ==
  ASSUME NEW s \in Streams, NEW n \in Consumers, NEW c \in ConsumerState, now \in Nat
  PROVE  /\ ClassifiedRow(s, n, c) \in Row
         /\ ClassifiedRow(s, n, c).stream = s /\ ClassifiedRow(s, n, c).consumer = n
         /\ ClassifiedRow(s, n, c).status = Status(c)
         /\ ClassifiedRow(s, n, c).renamedTo = NoName
<1> DEFINE i == Idle(c)
           f == FilterOf[<<s, n>>]
           m == Reason(Options.protect, s, n, c.meta)
           t == Status(c)
<1>1. c.pending \in Nat /\ c.lastAck \in Nat /\ c.created \in Nat
  BY DEF ConsumerState
<1>2. i \in Int
  BY <1>1 DEF Idle
<1>3. f \in SubjectFilters
  BY DEF SubjectFilters
<1>4. m \in {"", "metadata", "pattern"}
  BY DEF Reason
<1>5. t \in {"ACTIVE", "STALE", "OK", "ERR"}
  BY DEF Status
<1> HIDE DEF i, f, m, t
<1>6. [stream |-> s, consumer |-> n, status |-> t, pending |-> c.pending,
       lastAck |-> c.lastAck, idle |-> i, filter |-> f, managed |-> m,
       renamedTo |-> NoName, peer |-> ""] \in Row
  BY <1>1, <1>2, <1>3, <1>4, <1>5 DEF Row
<1>7. ClassifiedRow(s, n, c) \in Row
  BY <1>6 DEF ClassifiedRow, i, f, m, t
<1> QED BY <1>7 DEF ClassifiedRow

-----------------------------------------------------------------------------
(* Types.                                                                   *)

(* Only a row that could not be read has no consumer, so that what is       *)
(* proposed are consumers.                                                  *)
Named(rs) == \A i \in DOMAIN rs : rs[i].consumer = NoName => rs[i].status = "ERR"

ScanTyped ==
  /\ ScanTypeOK /\ ServerTypeOK
  /\ now <= clock
  /\ phase = "stream" => current \in Streams
  /\ Named(all) /\ Named(rows)

LEMMA InitScanTyped == ScannerInit => ScanTyped
<1> SUFFICES ASSUME ScannerInit PROVE ScanTyped
  OBVIOUS
<1>1. << >> \in Seq(Row) /\ << >> \in Seq(Entry) /\ Named(<< >>)
  BY DEF Named
<1>2. ServerTypeOK
  BY BoundsAssumption, InitialAssumption DEF ScannerInit, ServerInit, ServerTypeOK
<1>3. now <= clock
  BY BoundsAssumption DEF ScannerInit, ServerInit, ScanInit
<1> QED BY <1>1, <1>2, <1>3 DEF ScannerInit, ScanInit, ScanTyped, ScanTypeOK, Manifest, NoProposal

LEMMA AppendNamed ==
  ASSUME NEW rs \in Seq(Row), Named(rs), NEW r \in Row,
         r.consumer = NoName => r.status = "ERR"
  PROVE  Append(rs, r) \in Seq(Row) /\ Named(Append(rs, r))
  BY AppendRow DEF Named

(* What detectRenames does to each row.                                     *)
LEMMA RenamedRows ==
  ASSUME NEW rs \in Seq(Row), Named(rs)
  PROVE  /\ DetectRenames(rs) \in Seq(Row)
         /\ DOMAIN DetectRenames(rs) = DOMAIN rs
         /\ \A i \in DOMAIN rs :
              LET found == Successors(rs, rs[i].stream, rs[i].filter) IN
              DetectRenames(rs)[i] =
                IF /\ rs[i].status = "STALE" /\ rs[i].filter # NoFilter
                   /\ found # << >>
                   /\ found[1].consumer # rs[i].consumer
                THEN [rs[i] EXCEPT !.renamedTo = found[1].consumer]
                ELSE rs[i]
<1> DEFINE found(i) == Successors(rs, rs[i].stream, rs[i].filter)
           row(i) == IF /\ rs[i].status = "STALE" /\ rs[i].filter # NoFilter
                        /\ found(i) # << >>
                        /\ found(i)[1].consumer # rs[i].consumer
                     THEN [rs[i] EXCEPT !.renamedTo = found(i)[1].consumer]
                     ELSE rs[i]
<1>1. DetectRenames(rs) = [i \in DOMAIN rs |-> row(i)]
  BY DEF DetectRenames
<1>2. DOMAIN rs = 1 .. Len(rs) /\ Len(rs) \in Nat /\ \A i \in DOMAIN rs : rs[i] \in Row
  OBVIOUS
<1>3. ASSUME NEW i \in DOMAIN rs PROVE row(i) \in Row
  <2>1. rs[i] \in Row
    BY <1>2
  <2>2. CASE found(i) # << >>
    <3>1. PICK j \in HeirsOf(rs, rs[i].stream, rs[i].filter) : found(i) = <<rs[j]>>
      BY <2>2, SuccessorsFound
    <3>2. rs[j] \in Row /\ found(i)[1] = rs[j]
      BY <3>1, <1>2 DEF HeirsOf
    <3>3. \A c \in Consumers \cup {NoName} : [rs[i] EXCEPT !.renamedTo = c] \in Row
      BY <2>1 DEF Row
    <3> QED BY <3>2, <3>3, <2>1, RowFields
  <2>3. CASE ~(found(i) # << >>)
    BY <2>1, <2>3
  <2> QED BY <2>2, <2>3
<1> HIDE DEF row
<1>4. [i \in DOMAIN rs |-> row(i)] \in [1 .. Len(rs) -> Row]
  BY <1>2, <1>3
<1>5. DetectRenames(rs) \in Seq(Row)
  BY <1>1, <1>2, <1>4
<1> QED BY <1>1, <1>5 DEF row

(* A rename changes nothing else in a row.                                  *)
SameRow(r, q) ==
  /\ r.stream = q.stream /\ r.consumer = q.consumer /\ r.status = q.status
  /\ r.pending = q.pending /\ r.lastAck = q.lastAck /\ r.filter = q.filter
  /\ r.managed = q.managed

LEMMA RenamesKeepRows ==
  ASSUME NEW rs \in Seq(Row), Named(rs)
  PROVE  \A i \in DOMAIN rs : SameRow(DetectRenames(rs)[i], rs[i])
<1> SUFFICES ASSUME NEW i \in DOMAIN rs PROVE SameRow(DetectRenames(rs)[i], rs[i])
  OBVIOUS
<1>1. rs[i] \in Row
  OBVIOUS
<1>2. \A r \in Row : \A c : SameRow([r EXCEPT !.renamedTo = c], r) /\ SameRow(r, r)
  BY DEF SameRow, Row
<1>3. DetectRenames(rs)[i] = rs[i] \/ \E c : DetectRenames(rs)[i] = [rs[i] EXCEPT !.renamedTo = c]
  BY RenamedRows
<1> QED BY <1>1, <1>2, <1>3

(* What the peer's answer changes in a row.                                 *)
LEMMA PeerRow ==
  ASSUME NEW r \in Row, NEW answer \in {"", "ACTIVE", "STALE", "ABSENT", "ERR"}
  PROVE  /\ [r EXCEPT !.peer = answer] \in Row
         /\ [r EXCEPT !.peer = answer].peer = answer
         /\ SameRow([r EXCEPT !.peer = answer], r)
  BY DEF Row, SameRow

LEMMA PeerAnswers == ASSUME NEW r PROVE AnswersOfPeer(r) \subseteq {"", "ACTIVE", "STALE", "ABSENT", "ERR"}
  BY DEF AnswersOfPeer, PeerStatus

(* The manifest of a scan that returned.                                    *)
LEMMA ProposalFacts ==
  ASSUME NEW rs \in Seq(Row), Named(rs), clock \in Nat
  PROVE  /\ BuildManifest(rs) \in Manifest
         /\ \A k \in DOMAIN BuildManifest(rs).entries :
              \E i \in DOMAIN rs :
                /\ At(BuildManifest(rs).entries[k]) = <<Home, rs[i].stream, rs[i].consumer>>
                /\ BuildManifest(rs).entries[k].stream = rs[i].stream
                /\ BuildManifest(rs).entries[k].consumer = rs[i].consumer
                /\ Proposed(rs[i])
<1> DEFINE stale == ProposedRows(rs)
           entry(k) == [cluster |-> Home, stream |-> stale[k].stream,
                        consumer |-> stale[k].consumer, skip |-> FALSE]
           list == [k \in DOMAIN stale |-> entry(k)]
<1>1. stale \in Seq(Row)
  BY ProposedAreRows
<1>2. \A k \in DOMAIN stale : \E i \in DOMAIN rs : stale[k] = rs[i] /\ Proposed(rs[i])
  BY ProposedAreRows
<1>3. BuildManifest(rs) = [generatedAt |-> clock, entries |-> list]
  BY DEF BuildManifest
<1> HIDE DEF stale
<1>4. \A i \in DOMAIN rs : Proposed(rs[i]) => rs[i].stream \in Streams /\ rs[i].consumer \in Consumers
  <2> SUFFICES ASSUME NEW i \in DOMAIN rs, Proposed(rs[i])
               PROVE  rs[i].stream \in Streams /\ rs[i].consumer \in Consumers
    OBVIOUS
  <2>1. rs[i] \in Row
    OBVIOUS
  <2>2. rs[i].status = "STALE"
    BY DEF Proposed, CliProposes, BotProposes, ChatProposes
  <2> QED BY <2>1, <2>2, RowFields DEF Named
<1>5. \A k \in DOMAIN stale : entry(k) \in Entry
  <2> SUFFICES ASSUME NEW k \in DOMAIN stale PROVE entry(k) \in Entry
    OBVIOUS
  <2>1. stale[k].stream \in Streams /\ stale[k].consumer \in Consumers
    BY <1>2, <1>4
  <2> QED BY <2>1, HomeAssumption DEF Entry
<1> HIDE DEF entry
<1>6. DOMAIN stale = 1 .. Len(stale) /\ Len(stale) \in Nat
  BY <1>1
<1>7. list \in Seq(Entry)
  BY <1>5, <1>6
<1>8. BuildManifest(rs) \in Manifest
  BY <1>3, <1>7 DEF Manifest
<1>9. \A k \in DOMAIN stale : \E i \in DOMAIN rs :
        /\ At(entry(k)) = <<Home, rs[i].stream, rs[i].consumer>>
        /\ entry(k).stream = rs[i].stream /\ entry(k).consumer = rs[i].consumer
        /\ Proposed(rs[i])
  BY <1>2 DEF entry, At
<1> HIDE DEF list
<1>10. BuildManifest(rs).entries = list
  BY <1>3
<1>11. DOMAIN list = DOMAIN stale /\ \A k \in DOMAIN stale : list[k] = entry(k)
  BY DEF list
<1> QED BY <1>8, <1>9, <1>10, <1>11

(* Whoever was there all along has acknowledged nothing since, or just now. *)
AcksGoOn ==
  \A a \in Addresses : Settled(a)' =>
    /\ Settled(a)
    /\ live'[a].lastAck = live[a].lastAck \/ live'[a].lastAck = clock

LEMMA ApplicationAcks ==
  ASSUME ServerTypeOK, NEW b \in Addresses, ApplicationStep(b)
  PROVE  AcksGoOn /\ clock' = clock
<1>1. live \in [Addresses -> ConsumerState] /\ live[b] \in ConsumerState
  BY DEF ServerTypeOK
<1>2. \A c : /\ Change(b, c)
             /\ c.exists /\ c.inc = 1 =>
                  /\ live[b].exists /\ live[b].inc = 1
                  /\ c.lastAck = live[b].lastAck \/ c.lastAck = clock
             => AcksGoOn /\ clock' = clock
  <2> SUFFICES ASSUME NEW c, Change(b, c),
                      c.exists /\ c.inc = 1 =>
                        /\ live[b].exists /\ live[b].inc = 1
                        /\ c.lastAck = live[b].lastAck \/ c.lastAck = clock
               PROVE  AcksGoOn /\ clock' = clock
    OBVIOUS
  <2>1. live'[b] = c /\ \A a \in Addresses \ {b} : live'[a] = live[a]
    BY <1>1 DEF Change
  <2>2. clock' = clock
    BY DEF Change
  <2> QED BY <2>1, <2>2 DEF AcksGoOn, Settled
<1>3. \A c : /\ Change(b, c)
             /\ c.exists = live[b].exists /\ c.inc = live[b].inc /\ c.lastAck = live[b].lastAck
             => AcksGoOn /\ clock' = clock
  BY <1>2
<1>4. CASE BindPush(b) \/ UnbindPush(b) \/ Poll(b) \/ PollEnds(b) \/ Publish(b)
  BY <1>1, <1>3, <1>4 DEF BindPush, UnbindPush, Poll, PollEnds, Publish, ConsumerState
<1>5. CASE Ack(b)
  <2>1. PICK p : live[b].exists /\ Change(b, [live[b] EXCEPT !.lastAck = clock, !.pending = p])
    BY <1>5 DEF Ack
  <2> QED BY <1>1, <1>2, <2>1 DEF ConsumerState
<1>6. CASE Annotate(b)
  <2>1. PICK m : Change(b, [live[b] EXCEPT !.meta = m])
    BY <1>6 DEF Annotate
  <2> QED BY <1>1, <1>3, <2>1 DEF ConsumerState
<1>7. CASE Drop(b)
  BY <1>1, <1>2, <1>7 DEF Drop, Gone, ConsumerState
<1>8. CASE Create(b)
  <2>1. PICK m : Change(b, Fresh(live[b].inc + 1, clock, m))
    BY <1>8 DEF Create
  <2>2. live[b].inc + 1 # 1
    BY <1>1, <1>8 DEF Create, ConsumerState
  <2>3. Fresh(live[b].inc + 1, clock, m).inc = live[b].inc + 1
    BY DEF Fresh
  <2> QED BY <1>2, <2>1, <2>2, <2>3
<1> QED BY <1>4, <1>5, <1>6, <1>7, <1>8 DEF ApplicationStep

(* The servers and the applications: time goes on, and so does their work.  *)
ServerGoesOn == ServerTypeOK' /\ clock <= clock' /\ AcksGoOn

LEMMA Moves ==
  ASSUME ServerTypeOK,
         \/ Tick \/ \E a \in Addresses : ApplicationStep(a)
         \/ UNCHANGED serverVars
  PROVE  ServerGoesOn
<1> USE DEF ServerGoesOn
<1>1. CASE Tick
  BY <1>1 DEF Tick, ServerTypeOK, Settled, AcksGoOn
<1>2. ASSUME NEW a \in Addresses, ApplicationStep(a)
      PROVE  ServerGoesOn
  <2>1. ServerTypeOK' /\ AcksGoOn /\ clock' = clock
    BY <1>2, ApplicationType, ApplicationAcks
  <2> QED BY <2>1 DEF ServerTypeOK
<1>3. CASE UNCHANGED serverVars
  BY <1>3 DEF serverVars, ServerTypeOK, Settled, AcksGoOn
<1> QED BY <1>1, <1>2, <1>3

(* The steps of a scan.                                                     *)
LEMMA ScanStepTyped ==
  ASSUME ScanTyped, ScanStep, UNCHANGED serverVars
  PROVE  ScanTyped'
<1> USE DEF serverVars
<1>0. /\ ServerTypeOK' /\ clock \in Nat /\ Named(all) /\ Named(rows) /\ ScanTypeOK
      /\ all \in Seq(Row) /\ rows \in Seq(Row) /\ now \in Nat /\ now <= clock
  BY DEF ScanTyped, ServerTypeOK, ScanTypeOK
<1>1. CASE BeginScan
  BY <1>0, <1>1 DEF BeginScan, ScanTyped, ScanTypeOK, Named, Wanted
<1>2. CASE ScanFails \/ ScanExpires \/ StreamDone \/ ScanReturns
  BY <1>0, <1>2 DEF ScanFails, ScanExpires, StreamDone, ScanReturns, ScanTyped, ScanTypeOK, Named
<1>3. ASSUME NEW s \in Streams, ListConsumers(s) PROVE ScanTyped'
  <2>1. names' \subseteq Consumers /\ streams' \subseteq Streams
    BY <1>0, <1>3 DEF ListConsumers, ScanTypeOK
  <2> QED BY <1>0, <1>3, <2>1 DEF ListConsumers, ScanTyped, ScanTypeOK, Named
<1>4. ASSUME NEW s \in Streams, StreamFails(s) PROVE ScanTyped'
  <2>1. all' \in Seq(Row) /\ Named(all)'
    <3>1. Append(all, ErrorRow(s, NoName)) \in Seq(Row) /\ Named(Append(all, ErrorRow(s, NoName)))
      BY <1>0, ErrorRowFacts, AppendNamed
    <3> QED BY <1>4, <3>1 DEF StreamFails, Named
  <2> QED BY <1>0, <1>4, <2>1 DEF StreamFails, ScanTyped, ScanTypeOK, Named
<1>5. ASSUME NEW n \in Consumers, Classify(n) \/ ClassifyFails(n) PROVE ScanTyped'
  <2>1. current \in Streams
    BY <1>5 DEF ScanTyped, Classify, ClassifyFails
  <2>2. live[<<Home, current, n>>] \in ConsumerState
    BY <2>1, HomeAssumption DEF ScanTyped, ServerTypeOK, Addresses
  <2>3. PICK r \in Row : all' = Append(all, r) /\ r.consumer = n
    BY <1>0, <1>5, <2>1, <2>2, ErrorRowFacts, ClassifiedRowFacts DEF Classify, ClassifyFails
  <2>4. all' \in Seq(Row) /\ Named(all)'
    <3>1. Append(all, r) \in Seq(Row) /\ Named(Append(all, r))
      BY <1>0, <2>3, HomeAssumption, AppendNamed
    <3> QED BY <2>3, <3>1 DEF Named
  <2> QED BY <1>0, <1>5, <2>4 DEF Classify, ClassifyFails, ScanTyped, ScanTypeOK, Named
<1>6. CASE MarkRenames
  <2>1. DetectRenames(all) \in Seq(Row) /\ Named(DetectRenames(all))
    BY <1>0, RenamedRows, RenamesKeepRows DEF Named, SameRow
  <2>2. all' \in Seq(Row) /\ Named(all)'
    BY <1>6, <2>1 DEF MarkRenames, Named
  <2> QED BY <1>0, <1>6, <2>2 DEF MarkRenames, ScanTyped, ScanTypeOK, Named
<1>7. CASE ReportRow
  <2>1. all[next] \in Row
    BY <1>0, <1>7 DEF ReportRow
  <2>2. rows' \in Seq(Row) /\ Named(rows)'
    <3>1. CASE Reported(all[next])
      <4>1. PICK answer \in AnswersOfPeer(all[next]) :
               rows' = Append(rows, [all[next] EXCEPT !.peer = answer])
        BY <1>7, <3>1 DEF ReportRow
      <4> DEFINE r == [all[next] EXCEPT !.peer = answer]
      <4>2. r \in Row /\ SameRow(r, all[next])
        <5>1. answer \in {"", "ACTIVE", "STALE", "ABSENT", "ERR"}
          BY PeerAnswers
        <5> QED BY <2>1, <5>1, PeerRow
      <4>3. r.consumer = NoName => r.status = "ERR"
        BY <1>0, <1>7, <4>2 DEF ReportRow, Named, SameRow
      <4>4. Append(rows, r) \in Seq(Row) /\ Named(Append(rows, r))
        <5> HIDE DEF r
        <5> QED BY <1>0, <4>2, <4>3, AppendNamed
      <4> QED BY <4>1, <4>4 DEF Named
    <3>2. CASE ~Reported(all[next])
      BY <1>0, <1>7, <3>2 DEF ReportRow, Named
    <3> QED BY <3>1, <3>2
  <2> QED BY <1>0, <1>7, <2>2 DEF ReportRow, ScanTyped, ScanTypeOK, Named
<1>8. CASE Propose
  <2>1. proposal' \in Manifest
    BY <1>0, <1>8, ProposalFacts DEF Propose
  <2> QED BY <1>0, <1>8, <2>1 DEF Propose, ScanTyped, ScanTypeOK, Named
<1> QED BY <1>1, <1>2, <1>3, <1>4, <1>5, <1>6, <1>7, <1>8 DEF ScanStep

LEMMA ServerScanTyped ==
  ASSUME ScanTyped, ServerGoesOn, UNCHANGED scanVars
  PROVE  ScanTyped'
<1>1. ServerTypeOK' /\ clock <= clock' /\ clock \in Nat /\ now \in Nat
  BY DEF ScanTyped, ServerTypeOK, ScanTypeOK, ServerGoesOn
<1>2. now' <= clock'
  BY <1>1 DEF ScanTyped, ServerTypeOK, scanVars
<1> QED BY <1>1, <1>2 DEF ScanTyped, ScanTypeOK, Named, scanVars

-----------------------------------------------------------------------------
(* What is said of a consumer.                                              *)

HomeOf(r) == <<Home, r.stream, r.consumer>>
PeerOf(r) == <<Peer, r.stream, r.consumer>>

\* What the scan may call idle: an ack of MinIdle ago, or of after the start.
Quiet(a) == live[a].lastAck = 0 \/ live[a].lastAck + MinIdle <= now \/ live[a].lastAck >= now

IdleRow(r) == r.status = "STALE" /\ Settled(HomeOf(r)) => Quiet(HomeOf(r))

PeerHonest(r) ==
  Peer # NoPeer /\ r.peer \in {"ABSENT", "STALE"} /\ Settled(PeerOf(r)) =>
    r.peer = "STALE" /\ Quiet(PeerOf(r))

FromRows ==
  \A k \in DOMAIN proposal.entries : \E i \in DOMAIN rows :
    /\ At(proposal.entries[k]) = HomeOf(rows[i])
    /\ proposal.entries[k].stream = rows[i].stream
    /\ proposal.entries[k].consumer = rows[i].consumer
    /\ Proposed(rows[i])

JudgedInv ==
  /\ phase = "idle" => all = << >> /\ rows = << >>
  /\ \A i \in DOMAIN all : IdleRow(all[i])
  /\ \A i \in DOMAIN rows : IdleRow(rows[i]) /\ PeerHonest(rows[i])
  /\ \A i \in DOMAIN rows : rows[i].peer \in {"ABSENT", "STALE"} => rows[i].consumer # NoName
  /\ phase = "proposed" => FromRows

LEMMA InitJudged == ScannerInit => JudgedInv
  BY DEF ScannerInit, ScanInit, JudgedInv

(* What is still idle, or not the consumer that was there, remains so.      *)
LEMMA QuietStays ==
  ASSUME ScanTyped, ServerGoesOn, UNCHANGED scanVars,
         NEW a \in Addresses, Settled(a) => Quiet(a), Settled(a)'
  PROVE  Quiet(a)'
<1>1. Settled(a) /\ (live'[a].lastAck = live[a].lastAck \/ live'[a].lastAck = clock)
  BY DEF ServerGoesOn, AcksGoOn
<1>2. MinIdle' = MinIdle /\ now' = now
  BY OptionsStay DEF scanVars
<1>3. now \in Nat /\ clock \in Nat /\ now <= clock
  BY DEF ScanTyped, ScanTypeOK, ServerTypeOK
<1> QED BY <1>1, <1>2, <1>3 DEF Quiet

LEMMA ServerJudged ==
  ASSUME ScanTyped, JudgedInv, ServerGoesOn, UNCHANGED scanVars
  PROVE  JudgedInv'
<1>1. Peer' = Peer /\ Peer \in Clusters \cup {NoPeer} /\ all' = all /\ rows' = rows
  BY OptionsStay, OptionsTyped DEF scanVars, ScanTyped, ScanTypeOK
<1>2. all \in Seq(Row) /\ rows \in Seq(Row) /\ Named(all) /\ Named(rows)
  BY DEF ScanTyped, ScanTypeOK
<1>3. ASSUME NEW r \in Row, IdleRow(r), r.consumer = NoName => r.status = "ERR"
      PROVE  IdleRow(r)'
  <2>1. r.status = "STALE" => HomeOf(r) \in Addresses
    BY <1>3, RowFields, HomeAssumption DEF HomeOf, Addresses
  <2>2. HomeOf(r)' = HomeOf(r)
    BY DEF HomeOf
  <2> SUFFICES ASSUME r.status = "STALE", Settled(HomeOf(r))' PROVE Quiet(HomeOf(r))'
    BY <2>2 DEF IdleRow
  <2>3. PICK a \in Addresses : a = HomeOf(r)
    BY <2>1
  <2>4. Settled(a) => Quiet(a)
    BY <1>3, <2>3 DEF IdleRow
  <2>5. Settled(a)' => Quiet(a)'
    BY <2>4, QuietStays
  <2> QED BY <2>3, <2>5 DEF HomeOf
<1>4. ASSUME NEW r \in Row, PeerHonest(r), r.peer \in {"ABSENT", "STALE"} => r.consumer # NoName
      PROVE  PeerHonest(r)'
  <2> SUFFICES ASSUME Peer # NoPeer, r.peer \in {"ABSENT", "STALE"}, Settled(PeerOf(r))'
               PROVE  r.peer = "STALE" /\ Quiet(PeerOf(r))'
    BY <1>1 DEF PeerHonest
  <2>1. PeerOf(r)' = PeerOf(r)
    BY <1>1 DEF PeerOf
  <2>2. PICK a \in Addresses : a = PeerOf(r)
    BY <1>1, <1>4, RowFields DEF PeerOf, Addresses
  <2>3. Settled(a)'
    BY <2>1, <2>2 DEF Settled
  <2>4. Settled(a)
    BY <2>3 DEF ServerGoesOn, AcksGoOn
  <2>5. r.peer = "STALE" /\ Quiet(a)
    BY <1>4, <2>2, <2>4 DEF PeerHonest
  <2>6. Quiet(a)'
    BY <2>3, <2>5, QuietStays
  <2> QED BY <2>1, <2>2, <2>5, <2>6 DEF Quiet
<1>5. \A i \in DOMAIN all : IdleRow(all[i])'
  <2> SUFFICES ASSUME NEW i \in DOMAIN all PROVE IdleRow(all[i])'
    OBVIOUS
  <2>1. PICK r \in Row : r = all[i]
    BY <1>2
  <2>2. IdleRow(r)'
    BY <1>2, <1>3, <2>1 DEF JudgedInv, Named
  <2> QED BY <1>1, <2>1, <2>2 DEF IdleRow, HomeOf
<1>6. \A i \in DOMAIN rows : IdleRow(rows[i])' /\ PeerHonest(rows[i])'
  <2> SUFFICES ASSUME NEW i \in DOMAIN rows PROVE IdleRow(rows[i])' /\ PeerHonest(rows[i])'
    OBVIOUS
  <2>1. PICK r \in Row : r = rows[i]
    BY <1>2
  <2>2. IdleRow(r)' /\ PeerHonest(r)'
    BY <1>2, <1>3, <1>4, <2>1 DEF JudgedInv, Named
  <2> QED BY <1>1, <2>1, <2>2 DEF IdleRow, HomeOf, PeerHonest, PeerOf
<1>7. phase = "proposed" /\ FromRows => FromRows'
  BY DEF scanVars, FromRows, HomeOf, Proposed
<1> QED BY <1>1, <1>5, <1>6, <1>7 DEF JudgedInv, scanVars

(* A row just classified is stale only if its consumer was idle.            *)
LEMMA ClassifiedIdle ==
  ASSUME ScanTyped, NEW s \in Streams, NEW n \in Consumers
  PROVE  IdleRow(ClassifiedRow(s, n, live[<<Home, s, n>>]))
<1> DEFINE a == <<Home, s, n>>
           c == live[a]
           r == ClassifiedRow(s, n, c)
<1>1. c \in ConsumerState /\ now \in Nat /\ clock \in Nat
  BY HomeAssumption DEF ScanTyped, ScanTypeOK, ServerTypeOK, Addresses
<1>2. r.stream = s /\ r.consumer = n /\ r.status = Status(c)
  BY <1>1, ClassifiedRowFacts
<1>3. c.lastAck \in Nat /\ MinIdle \in Nat
  BY <1>1, OptionsTyped DEF ConsumerState, ScanTyped, ScanTypeOK
<1>4. Status(c) = "STALE" => c.lastAck = 0 \/ ~(now - c.lastAck < MinIdle)
  BY DEF Status, RecentAck
<1>5. HomeOf(r) = a
  BY <1>2 DEF HomeOf
<1> HIDE DEF r
<1>6. IdleRow(r)
  BY <1>1, <1>2, <1>3, <1>4, <1>5 DEF IdleRow, Quiet
<1> QED BY <1>6 DEF r

(* A row just reported repeats what the peer said.                          *)
LEMMA PeerRowHonest ==
  ASSUME ScanTyped, NEW r \in Row, NEW answer \in AnswersOfPeer(r),
         r.consumer = NoName => r.status = "ERR"
  PROVE  LET q == [r EXCEPT !.peer = answer] IN
         PeerHonest(q) /\ (q.peer \in {"ABSENT", "STALE"} => q.consumer # NoName)
<1> DEFINE q == [r EXCEPT !.peer = answer]
           a == PeerOf(r)
           c == live[a]
<1>1. q.peer = answer /\ q.stream = r.stream /\ q.consumer = r.consumer
  <2>1. answer \in {"", "ACTIVE", "STALE", "ABSENT", "ERR"}
    BY PeerAnswers
  <2> QED BY <2>1, PeerRow DEF SameRow
<1> HIDE DEF q
<1> SUFFICES ASSUME answer \in {"ABSENT", "STALE"}
             PROVE  /\ r.consumer # NoName
                    /\ Peer # NoPeer /\ Settled(a) => answer = "STALE" /\ Quiet(a)
  BY <1>1 DEF PeerHonest, PeerOf, q
<1>2. Peer # NoPeer /\ ~(r.status = "ERR" /\ r.consumer = NoName)
  BY DEF AnswersOfPeer
<1>3. answer = PeerStatus(c)
  BY <1>2 DEF AnswersOfPeer, PeerOf
<1>4. a \in Addresses
  BY <1>2, RowFields, OptionsTyped DEF Addresses, PeerOf, ScanTyped, ScanTypeOK
<1>5. c \in ConsumerState /\ now \in Nat
  BY <1>4 DEF ScanTyped, ScanTypeOK, ServerTypeOK
<1>6. c.lastAck \in Nat /\ MinIdle \in Nat
  BY <1>5, OptionsTyped DEF ConsumerState, ScanTyped, ScanTypeOK
<1>7. c.exists => answer = "STALE" /\ (c.lastAck = 0 \/ ~(now - c.lastAck < MinIdle))
  BY <1>3 DEF PeerStatus, RecentAck
<1> QED BY <1>2, <1>5, <1>6, <1>7 DEF Settled, Quiet

LEMMA ScanStepJudged ==
  ASSUME ScanTyped, JudgedInv, ScanStep, UNCHANGED serverVars
  PROVE  JudgedInv'
<1>0. /\ all \in Seq(Row) /\ rows \in Seq(Row) /\ Named(all) /\ Named(rows)
      /\ live' = live
  BY DEF ScanTyped, ScanTypeOK, serverVars
<1>1. request' = request
  BY DEF ScanStep, BeginScan, ScanFails, ScanExpires, ListConsumers, StreamFails, Classify,
         ClassifyFails, StreamDone, MarkRenames, ReportRow, ScanReturns, Propose
<1>2. MinIdle' = MinIdle /\ Peer' = Peer
  BY <1>1, OptionsStay
\* What is said of a consumer is as true after a step as before it.
<1>3. ASSUME now' = now
      PROVE  \A r : (IdleRow(r)' <=> IdleRow(r)) /\ (PeerHonest(r)' <=> PeerHonest(r))
  BY <1>0, <1>2, <1>3 DEF IdleRow, PeerHonest, HomeOf, PeerOf, Settled, Quiet
<1> DEFINE Rest == /\ \A i \in DOMAIN rows : IdleRow(rows[i]) /\ PeerHonest(rows[i])
                   /\ \A i \in DOMAIN rows :
                        rows[i].peer \in {"ABSENT", "STALE"} => rows[i].consumer # NoName
           Fine(rs) == \A i \in DOMAIN rs : IdleRow(rs[i])
<1>4. ASSUME UNCHANGED <<now, rows>> PROVE Rest'
  <2>1. \A i \in DOMAIN rows : IdleRow(rows[i])' /\ PeerHonest(rows[i])'
    <3> SUFFICES ASSUME NEW i \in DOMAIN rows PROVE IdleRow(rows[i])' /\ PeerHonest(rows[i])'
      OBVIOUS
    <3>1. PICK r : r = rows[i]
      OBVIOUS
    <3>2. IdleRow(r)' /\ PeerHonest(r)'
      BY <1>3, <1>4, <3>1 DEF JudgedInv
    <3> QED BY <1>4, <3>1, <3>2 DEF IdleRow, HomeOf, PeerHonest, PeerOf
  <2> QED BY <1>4, <2>1 DEF JudgedInv
<1>5. ASSUME now' = now, NEW rs, all' = rs, Fine(rs) PROVE \A i \in DOMAIN all' : IdleRow(all[i])'
  <2> SUFFICES ASSUME NEW i \in DOMAIN rs PROVE IdleRow(all[i])'
    BY <1>5
  <2>1. PICK r : r = rs[i]
    OBVIOUS
  <2>2. IdleRow(r)'
    BY <1>3, <1>5, <2>1
  <2> QED BY <1>5, <2>1, <2>2 DEF IdleRow, HomeOf
<1>6. Fine(all)
  BY DEF JudgedInv
<1>7. ASSUME NEW r \in Row, IdleRow(r) PROVE Fine(Append(all, r))
  BY <1>0, <1>6, <1>7, AppendRow
<1> HIDE DEF Fine, Rest
<1>8. ASSUME phase' # "idle", phase' # "proposed", now' = now, rows' = rows,
             NEW rs, all' = rs, Fine(rs)
      PROVE  JudgedInv'
  <2>1. Rest'
    BY <1>4, <1>8
  <2>2. \A i \in DOMAIN all' : IdleRow(all[i])'
    BY <1>5, <1>8
  <2> QED BY <1>8, <2>1, <2>2 DEF JudgedInv, Rest
<1>9. CASE BeginScan
  <2>1. all' = << >> /\ rows' = << >> /\ phase' = "walk"
    BY <1>9 DEF BeginScan, JudgedInv
  <2> QED BY <2>1 DEF JudgedInv
<1>10. CASE ScanFails \/ ScanExpires \/ StreamDone \/ ScanReturns
  BY <1>6, <1>8, <1>10 DEF ScanFails, ScanExpires, StreamDone, ScanReturns
<1>11. ASSUME NEW s \in Streams, ListConsumers(s) PROVE JudgedInv'
  BY <1>6, <1>8, <1>11 DEF ListConsumers
<1>12. ASSUME NEW s \in Streams, StreamFails(s) PROVE JudgedInv'
  <2>1. IdleRow(ErrorRow(s, NoName)) /\ ErrorRow(s, NoName) \in Row
    BY ErrorRowFacts DEF IdleRow
  <2>2. Fine(Append(all, ErrorRow(s, NoName)))
    BY <2>1, <1>7
  <2> QED BY <1>8, <1>12, <2>2 DEF StreamFails
<1>13. ASSUME NEW n \in Consumers, Classify(n) \/ ClassifyFails(n) PROVE JudgedInv'
  <2>1. current \in Streams
    BY <1>13 DEF ScanTyped, Classify, ClassifyFails
  <2>2. live[<<Home, current, n>>] \in ConsumerState /\ now \in Nat
    BY <2>1, HomeAssumption DEF ScanTyped, ScanTypeOK, ServerTypeOK, Addresses
  <2>3. /\ IdleRow(ErrorRow(current, n)) /\ ErrorRow(current, n) \in Row
        /\ IdleRow(ClassifiedRow(current, n, live[<<Home, current, n>>]))
        /\ ClassifiedRow(current, n, live[<<Home, current, n>>]) \in Row
    <3>1. IdleRow(ErrorRow(current, n)) /\ ErrorRow(current, n) \in Row
      BY <2>1, ErrorRowFacts DEF IdleRow
    <3> QED BY <3>1, <2>1, <2>2, ClassifiedRowFacts, ClassifiedIdle
  <2>4. \E r \in Row : IdleRow(r) /\ all' = Append(all, r)
    BY <1>13, <2>3 DEF Classify, ClassifyFails
  <2> QED BY <1>7, <1>8, <1>13, <2>4 DEF Classify, ClassifyFails
<1>14. CASE MarkRenames
  <2>1. Fine(DetectRenames(all))
    BY <1>0, <1>6, RenamesKeepRows, RenamedRows DEF Fine, IdleRow, HomeOf, SameRow
  <2> QED BY <1>8, <1>14, <2>1 DEF MarkRenames
<1>15. CASE ReportRow
  <2>1. all[next] \in Row /\ IdleRow(all[next]) /\ (all[next].consumer = NoName => all[next].status = "ERR")
    BY <1>0, <1>6, <1>15 DEF ReportRow, Fine, Named
  <2>2. \A i \in DOMAIN all' : IdleRow(all[i])'
    BY <1>5, <1>6, <1>15 DEF ReportRow
  <2>3. CASE Reported(all[next])
    <3>1. PICK answer \in AnswersOfPeer(all[next]) :
             rows' = Append(rows, [all[next] EXCEPT !.peer = answer])
      BY <1>15, <2>3 DEF ReportRow
    <3>2. PICK q : q = [all[next] EXCEPT !.peer = answer]
      OBVIOUS
    <3>3. q \in Row /\ SameRow(q, all[next])
      <4>1. answer \in {"", "ACTIVE", "STALE", "ABSENT", "ERR"}
        BY PeerAnswers
      <4> QED BY <2>1, <3>2, <4>1, PeerRow
    <3>4. IdleRow(q) /\ PeerHonest(q) /\ (q.peer \in {"ABSENT", "STALE"} => q.consumer # NoName)
      <4>1. PeerHonest(q) /\ (q.peer \in {"ABSENT", "STALE"} => q.consumer # NoName)
        BY <2>1, <3>2, PeerRowHonest
      <4>2. IdleRow(q)
        BY <2>1, <3>3 DEF IdleRow, HomeOf, SameRow
      <4> QED BY <4>1, <4>2
    <3>5. \A i \in DOMAIN Append(rows, q) :
            /\ IdleRow(Append(rows, q)[i]) /\ PeerHonest(Append(rows, q)[i])
            /\ Append(rows, q)[i].peer \in {"ABSENT", "STALE"} => Append(rows, q)[i].consumer # NoName
      BY <1>0, <3>3, <3>4, AppendRow DEF JudgedInv
    <3>6. now' = now
      BY <1>15 DEF ReportRow
    <3>7. \A i \in DOMAIN rows' :
            /\ IdleRow(rows[i])' /\ PeerHonest(rows[i])'
            /\ rows'[i].peer \in {"ABSENT", "STALE"} => rows'[i].consumer # NoName
      <4> SUFFICES ASSUME NEW i \in DOMAIN rows'
                   PROVE  /\ IdleRow(rows[i])' /\ PeerHonest(rows[i])'
                          /\ rows'[i].peer \in {"ABSENT", "STALE"} => rows'[i].consumer # NoName
        OBVIOUS
      <4>1. PICK r : r = rows'[i]
        OBVIOUS
      <4>2. IdleRow(r) /\ PeerHonest(r) /\ (r.peer \in {"ABSENT", "STALE"} => r.consumer # NoName)
        BY <3>1, <3>2, <3>5, <4>1
      <4>3. IdleRow(r)' /\ PeerHonest(r)'
        BY <1>3, <3>6, <4>2
      <4> QED BY <4>1, <4>2, <4>3 DEF IdleRow, HomeOf, PeerHonest, PeerOf
    <3>8. phase' = "report"
      BY <1>15 DEF ReportRow
    <3> QED BY <2>2, <3>7, <3>8 DEF JudgedInv, IdleRow, HomeOf, PeerHonest, PeerOf
  <2>4. CASE ~Reported(all[next])
    BY <1>6, <1>8, <1>15, <2>4 DEF ReportRow
  <2> QED BY <2>3, <2>4
<1>16. CASE Propose
  <2>1. Rest' /\ \A i \in DOMAIN all' : IdleRow(all[i])'
    BY <1>4, <1>5, <1>6, <1>16 DEF Propose
  <2>2. clock \in Nat
    BY DEF ScanTyped, ServerTypeOK
  <2>3. \A k \in DOMAIN BuildManifest(rows).entries :
              \E i \in DOMAIN rows :
                /\ At(BuildManifest(rows).entries[k]) = <<Home, rows[i].stream, rows[i].consumer>>
                /\ BuildManifest(rows).entries[k].stream = rows[i].stream
                /\ BuildManifest(rows).entries[k].consumer = rows[i].consumer
                /\ Proposed(rows[i])
    BY <1>0, <2>2, ProposalFacts
  <2>4. proposal' = BuildManifest(rows) /\ rows' = rows /\ phase' = "proposed"
    BY <1>16 DEF Propose
  <2>5. FromRows'
    BY <1>1, <2>3, <2>4 DEF FromRows, HomeOf, Proposed, At
  <2> QED BY <2>1, <2>4, <2>5 DEF JudgedInv, Rest
<1> QED BY <1>9, <1>10, <1>11, <1>12, <1>13, <1>14, <1>15, <1>16 DEF ScanStep

-----------------------------------------------------------------------------
(* Who has been looked at.                                                  *)

Has(rs, s, n) == \E i \in DOMAIN rs : rs[i].stream = s /\ rs[i].consumer = n

Once(rs) ==
  \A i, j \in DOMAIN rs :
    /\ rs[i].stream = rs[j].stream /\ rs[i].consumer = rs[j].consumer
    /\ rs[i].consumer # NoName
    => i = j

\* What the walk has been through: streams looked at, each consumer once.
WalkInv ==
  /\ streams \subseteq Wanted
  /\ phase = "stream" => current \in Wanted \ streams
  /\ phase \in {"report", "done", "proposed"} => streams = {}
  /\ \A i \in DOMAIN all : all[i].stream \in Wanted \ streams
  /\ Once(all)
  /\ phase = "stream" => \A n \in names : ~Has(all, current, n)
  /\ phase \notin {"idle", "failed"} =>
       \A s \in Wanted \ streams :
         \/ Has(all, s, NoName)
         \/ \A n \in Consumers : Settled(<<Home, s, n>>) =>
              Has(all, s, n) \/ (phase = "stream" /\ s = current /\ n \in names)

LEMMA InitWalk == ScannerInit => WalkInv
<1> SUFFICES ASSUME ScannerInit PROVE WalkInv
  OBVIOUS
<1>1. streams = {} /\ phase = "idle" /\ all = << >>
  BY DEF ScannerInit, ScanInit
<1> QED BY <1>1 DEF WalkInv, Once

LEMMA HasMore ==
  ASSUME NEW rs \in Seq(Row), NEW r \in Row, NEW s, NEW n
  PROVE  Has(Append(rs, r), s, n) <=> Has(rs, s, n) \/ (r.stream = s /\ r.consumer = n)
  BY AppendRow DEF Has

LEMMA OnceMore ==
  ASSUME NEW rs \in Seq(Row), NEW r \in Row, Once(rs),
         r.consumer = NoName \/ ~Has(rs, r.stream, r.consumer)
  PROVE  Once(Append(rs, r))
  BY AppendRow DEF Has, Once

LEMMA HasSame ==
  ASSUME NEW rs, NEW qs, DOMAIN qs = DOMAIN rs, \A i \in DOMAIN rs : SameRow(qs[i], rs[i])
  PROVE  /\ \A s, n : Has(qs, s, n) <=> Has(rs, s, n)
         /\ Once(rs) => Once(qs)
<1>1. \A i \in DOMAIN rs : qs[i].stream = rs[i].stream /\ qs[i].consumer = rs[i].consumer
  BY DEF SameRow
<1> QED BY <1>1 DEF Has, Once

LEMMA ScanStepWalk ==
  ASSUME ScanTyped, JudgedInv, WalkInv, ScanStep, UNCHANGED serverVars
  PROVE  WalkInv'
<1>0. /\ all \in Seq(Row) /\ Named(all) /\ names \subseteq Consumers
      /\ NoName \notin Consumers /\ live' = live
  BY HomeAssumption DEF ScanTyped, ScanTypeOK, serverVars
<1>1. request' = request
  BY DEF ScanStep, BeginScan, ScanFails, ScanExpires, ListConsumers, StreamFails, Classify,
         ClassifyFails, StreamDone, MarkRenames, ReportRow, ScanReturns, Propose
<1>2. Wanted' = Wanted
  BY <1>1, OptionsStay
<1>3. \A a : Settled(a)' <=> Settled(a)
  BY <1>0 DEF Settled
<1>4. CASE BeginScan
  <2>1. all' = << >> /\ streams' = Wanted /\ phase' = "walk"
    BY <1>4 DEF BeginScan, JudgedInv
  <2> QED BY <1>2, <2>1 DEF WalkInv, Once
<1>5. CASE ScanFails \/ ScanExpires
  BY <1>2, <1>5 DEF ScanFails, ScanExpires, WalkInv
<1>6. CASE StreamDone \/ ScanReturns \/ Propose \/ ReportRow
  <2>1. /\ UNCHANGED <<streams, all, names, current>>
        /\ phase' # "stream" /\ phase \notin {"idle", "failed"}
        /\ phase = "stream" => names = {}
        /\ phase' \in {"report", "done", "proposed"} => phase \in {"report", "done", "proposed"}
    BY <1>6 DEF StreamDone, ScanReturns, Propose, ReportRow
  <2>2. \A s \in Wanted \ streams :
         \/ Has(all, s, NoName)
         \/ \A n \in Consumers : Settled(<<Home, s, n>>) => Has(all, s, n)
    BY <2>1 DEF WalkInv
  <2> QED BY <1>2, <1>3, <2>1, <2>2 DEF WalkInv
<1>7. ASSUME NEW s \in Streams, ListConsumers(s) PROVE WalkInv'
  <2>1. s \in Wanted /\ \A n : ~Has(all, s, n)
    BY <1>7 DEF ListConsumers, WalkInv, Has
  <2>2. \A n \in Consumers : Settled(<<Home, s, n>>) => n \in names'
    BY <1>7 DEF ListConsumers, Settled
  <2>3. /\ phase = "walk" /\ phase' = "stream" /\ current' = s
        /\ streams' = streams \ {s} /\ all' = all
    BY <1>7 DEF ListConsumers
  <2> QED BY <1>2, <1>3, <2>1, <2>2, <2>3 DEF WalkInv
<1>8. ASSUME NEW s \in Streams, StreamFails(s) PROVE WalkInv'
  <2>1. /\ ErrorRow(s, NoName) \in Row /\ ErrorRow(s, NoName).stream = s
        /\ ErrorRow(s, NoName).consumer = NoName
    BY ErrorRowFacts
  <2>2. PICK r \in Row : r.stream = s /\ r.consumer = NoName /\ all' = Append(all, r)
    BY <1>8, <2>1 DEF StreamFails
  <2>3. Once(all')
    BY <1>0, <2>2, OnceMore DEF WalkInv
  <2>4. \A q, n : Has(all', q, n) <=> Has(all, q, n) \/ (q = s /\ n = NoName)
    BY <1>0, <2>2, HasMore
  <2>5. /\ phase = "walk" /\ phase' = "walk" /\ s \in streams /\ s \in Wanted
        /\ streams' = streams \ {s}
    BY <1>8 DEF StreamFails, WalkInv
  <2>6. \A i \in DOMAIN all' : all'[i].stream \in Wanted \ streams'
    BY <1>0, <2>2, <2>5, AppendRow DEF WalkInv
  <2> QED BY <1>2, <1>3, <2>3, <2>4, <2>5, <2>6 DEF WalkInv
<1>9. ASSUME NEW n \in Consumers, Classify(n) \/ ClassifyFails(n) PROVE WalkInv'
  <2>1. current \in Streams /\ now \in Nat
    BY <1>9 DEF ScanTyped, ScanTypeOK, Classify, ClassifyFails
  <2>2. live[<<Home, current, n>>] \in ConsumerState
    BY <2>1, HomeAssumption DEF ScanTyped, ServerTypeOK, Addresses
  <2>3. PICK r \in Row : r.stream = current /\ r.consumer = n /\ all' = Append(all, r)
    BY <1>9, <2>1, <2>2, ErrorRowFacts, ClassifiedRowFacts DEF Classify, ClassifyFails
  <2>4. /\ phase = "stream" /\ phase' = "stream" /\ current' = current
        /\ n \in names /\ names' = names \ {n} /\ streams' = streams
    BY <1>9 DEF Classify, ClassifyFails
  <2>5. Once(all')
    BY <1>0, <2>3, <2>4, OnceMore DEF WalkInv
  <2>6. \A q, m : Has(all', q, m) <=> Has(all, q, m) \/ (q = current /\ m = n)
    BY <1>0, <2>3, HasMore
  <2>7. \A i \in DOMAIN all' : all'[i].stream \in Wanted \ streams
    BY <1>0, <2>3, <2>4, AppendRow DEF WalkInv
  <2> QED BY <1>2, <1>3, <2>4, <2>5, <2>6, <2>7 DEF WalkInv
<1>10. CASE MarkRenames
  <2>1. /\ all' = DetectRenames(all) /\ UNCHANGED <<streams, names, current>>
        /\ streams = {} /\ phase = "walk" /\ phase' = "report"
    BY <1>10 DEF MarkRenames
  <2>2. DOMAIN all' = DOMAIN all /\ \A i \in DOMAIN all : SameRow(all'[i], all[i])
    BY <1>0, <2>1, RenamedRows, RenamesKeepRows
  <2>3. \A q, m : Has(all', q, m) <=> Has(all, q, m)
    BY <2>2, HasSame
  <2>4. Once(all')
    BY <2>2, HasSame DEF WalkInv
  <2>5. \A i \in DOMAIN all' : all'[i].stream \in Wanted \ streams
    BY <2>2 DEF WalkInv, SameRow
  <2> QED BY <1>2, <1>3, <2>1, <2>3, <2>4, <2>5 DEF WalkInv
<1> QED BY <1>4, <1>5, <1>6, <1>7, <1>8, <1>9, <1>10 DEF ScanStep

LEMMA ServerWalk ==
  ASSUME WalkInv, ServerGoesOn, UNCHANGED scanVars
  PROVE  WalkInv'
<1>1. Wanted' = Wanted /\ Wanted \subseteq Streams
  BY OptionsStay DEF scanVars, Wanted
<1>2. \A s \in Wanted, n \in Consumers : Settled(<<Home, s, n>>)' => Settled(<<Home, s, n>>)
  BY <1>1, HomeAssumption DEF Addresses, ServerGoesOn, AcksGoOn
<1> QED BY <1>1, <1>2 DEF WalkInv, scanVars

-----------------------------------------------------------------------------
(* What of it is reported.                                                  *)

\* The rows returned are those of the walk that pass, each once.
RowsInv ==
  /\ next >= 1
  /\ phase \notin {"report", "done", "proposed"} => rows = << >> /\ next = 1
  /\ phase \in {"done", "proposed"} => next \notin DOMAIN all
  /\ \A i \in DOMAIN rows : \E j \in DOMAIN all :
       j < next /\ Reported(all[j]) /\ SameRow(rows[i], all[j])
  /\ \A j \in DOMAIN all : j < next /\ Reported(all[j]) =>
       \E i \in DOMAIN rows : SameRow(rows[i], all[j])
  /\ Once(rows)

LEMMA InitRows == ScannerInit => RowsInv
<1> SUFFICES ASSUME ScannerInit PROVE RowsInv
  OBVIOUS
<1>1. rows = << >> /\ all = << >> /\ next = 1 /\ phase = "idle"
  BY DEF ScannerInit, ScanInit
<1> QED BY <1>1 DEF RowsInv, Once

LEMMA ReportedStays ==
  ASSUME request' = request
  PROVE  \A r : Reported(r)' <=> Reported(r)
  BY OptionsStay DEF Reported, MeetsThresholds

LEMMA ReportRows ==
  ASSUME ScanTyped, WalkInv, RowsInv, ReportRow
  PROVE  RowsInv'
<1>0. /\ all \in Seq(Row) /\ rows \in Seq(Row) /\ next \in Nat /\ Named(all)
      /\ all[next] \in Row /\ DOMAIN all \subseteq Nat
  BY DEF ScanTyped, ScanTypeOK, ReportRow
<1>1. \A r : Reported(r)' <=> Reported(r)
  BY ReportedStays DEF ReportRow
<1>2. /\ phase = "report" /\ phase' = "report" /\ all' = all
      /\ next' = next + 1 /\ next \in DOMAIN all
  BY DEF ReportRow
<1>3. \A j \in DOMAIN all : j < next + 1 <=> j < next \/ j = next
  BY <1>0
<1>4. CASE Reported(all[next])
  <2>1. PICK answer \in AnswersOfPeer(all[next]) :
           rows' = Append(rows, [all[next] EXCEPT !.peer = answer])
    BY <1>4 DEF ReportRow
  <2>2. PICK q : q = [all[next] EXCEPT !.peer = answer]
    OBVIOUS
  <2>3. q \in Row /\ SameRow(q, all[next])
    <3>1. answer \in {"", "ACTIVE", "STALE", "ABSENT", "ERR"}
      BY PeerAnswers
    <3> QED BY <1>0, <2>2, <3>1, PeerRow
  <2>4. rows' = Append(rows, q)
    BY <2>1, <2>2
  <2>5. q.consumer = NoName \/ ~Has(rows, q.stream, q.consumer)
    <3> SUFFICES ASSUME q.consumer # NoName, NEW i \in DOMAIN rows,
                        rows[i].stream = q.stream, rows[i].consumer = q.consumer
                 PROVE  FALSE
      BY DEF Has
    <3>1. PICK j \in DOMAIN all : j < next /\ SameRow(rows[i], all[j])
      BY DEF RowsInv
    <3>2. j = next
      BY <1>2, <2>3, <3>1 DEF WalkInv, Once, SameRow
    <3> QED BY <1>0, <3>1, <3>2
  <2>6. Once(rows')
    BY <1>0, <2>3, <2>4, <2>5, OnceMore DEF RowsInv
  <2>7. /\ DOMAIN rows \subseteq DOMAIN rows'
        /\ \A i \in DOMAIN rows : rows'[i] = rows[i]
        /\ \A i \in DOMAIN rows' : i \in DOMAIN rows \/ rows'[i] = q
        /\ \E i \in DOMAIN rows' : rows'[i] = q
    BY <1>0, <2>3, <2>4, AppendRow
  <2>8. \A i \in DOMAIN rows' : \E j \in DOMAIN all :
          j < next + 1 /\ Reported(all[j]) /\ SameRow(rows'[i], all[j])
    <3> SUFFICES ASSUME NEW i \in DOMAIN rows'
                 PROVE  \E j \in DOMAIN all :
                          j < next + 1 /\ Reported(all[j]) /\ SameRow(rows'[i], all[j])
      OBVIOUS
    <3>1. CASE rows'[i] = q
      BY <1>0, <1>2, <1>4, <2>3, <3>1
    <3>2. CASE i \in DOMAIN rows
      BY <1>0, <1>3, <2>7, <3>2 DEF RowsInv
    <3> QED BY <2>7, <3>1, <3>2
  <2>9. \A j \in DOMAIN all : j < next + 1 /\ Reported(all[j]) =>
          \E i \in DOMAIN rows' : SameRow(rows'[i], all[j])
    <3> SUFFICES ASSUME NEW j \in DOMAIN all, j < next + 1, Reported(all[j])
                 PROVE  \E i \in DOMAIN rows' : SameRow(rows'[i], all[j])
      OBVIOUS
    <3>1. CASE j = next
      BY <2>3, <2>7, <3>1
    <3>2. CASE j < next
      <4>1. PICK i \in DOMAIN rows : SameRow(rows[i], all[j])
        BY <3>2 DEF RowsInv
      <4> QED BY <2>7, <4>1
    <3> QED BY <1>3, <3>1, <3>2
  <2>10. next + 1 >= 1
    BY <1>0
  <2> QED BY <1>1, <1>2, <2>6, <2>8, <2>9, <2>10 DEF RowsInv
<1>5. CASE ~Reported(all[next])
  <2>1. rows' = rows
    BY <1>5 DEF ReportRow
  <2>2. next + 1 >= 1
    BY <1>0
  <2>3. \A j \in DOMAIN all : j < next + 1 /\ Reported(all[j]) => j < next
    BY <1>3, <1>5
  <2>4. \A j \in DOMAIN all : j < next => j < next + 1
    BY <1>3
  <2> QED BY <1>1, <1>2, <2>1, <2>2, <2>3, <2>4 DEF RowsInv
<1> QED BY <1>4, <1>5

LEMMA ServerRows ==
  ASSUME RowsInv, UNCHANGED scanVars
  PROVE  RowsInv'
<1>1. \A r : Reported(r)' <=> Reported(r)
  BY ReportedStays DEF scanVars
<1> QED BY <1>1 DEF RowsInv, scanVars

LEMMA ScanStepRows ==
  ASSUME ScanTyped, WalkInv, RowsInv, ScanStep, UNCHANGED serverVars
  PROVE  RowsInv'
<1>0. all \in Seq(Row) /\ next \in Nat /\ all' \in Seq(Row)
  BY ScanStepTyped DEF ScanTyped, ScanTypeOK
\* While nothing is reported, nothing can be wrong with the report.
<1>1. ASSUME phase \notin {"report", "done", "proposed"}, UNCHANGED <<rows, next>>,
             phase' \notin {"done", "proposed"}
      PROVE  RowsInv'
  <2>1. rows' = << >> /\ next' = 1
    BY <1>1 DEF RowsInv
  <2>2. \A j \in DOMAIN all' : ~(j < 1)
    BY <1>0
  <2> QED BY <1>1, <2>1, <2>2 DEF RowsInv, Once
<1>2. CASE BeginScan \/ ScanFails \/ ScanExpires \/ StreamDone \/ MarkRenames
  BY <1>1, <1>2 DEF BeginScan, ScanFails, ScanExpires, StreamDone, MarkRenames
<1>3. ASSUME NEW s \in Streams, ListConsumers(s) \/ StreamFails(s) PROVE RowsInv'
  BY <1>1, <1>3 DEF ListConsumers, StreamFails
<1>4. ASSUME NEW n \in Consumers, Classify(n) \/ ClassifyFails(n) PROVE RowsInv'
  BY <1>1, <1>4 DEF Classify, ClassifyFails
<1>5. CASE ScanReturns \/ Propose
  <2>1. /\ UNCHANGED <<all, rows, next>> /\ request' = request
        /\ phase' \in {"done", "proposed"} /\ next \notin DOMAIN all
    BY <1>5 DEF ScanReturns, Propose, RowsInv
  <2>2. \A r : Reported(r)' <=> Reported(r)
    BY <2>1, ReportedStays
  <2> QED BY <2>1, <2>2 DEF RowsInv
<1> QED BY <1>2, <1>3, <1>4, <1>5, ReportRows DEF ScanStep

-----------------------------------------------------------------------------
(* The inductive invariant of a scan.                                       *)

ScanInv == ScanTyped /\ JudgedInv /\ WalkInv /\ RowsInv

LEMMA InitScanInv == ScannerInit => ScanInv
  BY InitScanTyped, InitJudged, InitWalk, InitRows DEF ScanInv

LEMMA StepScanInv ==
  ASSUME ScanInv, ScanStep, UNCHANGED serverVars
  PROVE  ScanInv'
  BY ScanStepTyped, ScanStepJudged, ScanStepWalk, ScanStepRows DEF ScanInv

LEMMA ServerScanInv ==
  ASSUME ScanInv, ServerGoesOn, UNCHANGED scanVars
  PROVE  ScanInv'
  BY ServerScanTyped, ServerJudged, ServerWalk, ServerRows DEF ScanInv

LEMMA ScanInvariant == ScanSpec => []ScanInv
<1>1. ScanInv /\ [ScanNext]_<<serverVars, scanVars>> => ScanInv'
  <2> SUFFICES ASSUME ScanInv, [ScanNext]_<<serverVars, scanVars>> PROVE ScanInv'
    OBVIOUS
  <2>1. \/ ScanStep /\ UNCHANGED serverVars
        \/ /\ UNCHANGED scanVars
           /\ \/ Tick \/ \E a \in Addresses : ApplicationStep(a)
              \/ UNCHANGED serverVars
    BY DEF ScanNext, ScanOver
  <2>2. ServerTypeOK
    BY DEF ScanInv, ScanTyped
  <2> QED BY <2>1, <2>2, StepScanInv, ServerScanInv, Moves
<1> QED BY <1>1, InitScanInv, PTL DEF ScanSpec

(* Scan's variables, its rows among them, have their types.                 *)
THEOREM ScanTypeCorrect == ScanSpec => []ScanTypeOK
<1>1. ScanInv => ScanTypeOK
  BY DEF ScanInv, ScanTyped
<1> QED BY <1>1, ScanInvariant, PTL

(* However long the walk takes and whatever the applications do in it, a     *)
(* consumer that was there all along and acknowledged anything in the        *)
(* MinIdle before the scan is never proposed for deletion.                   *)
THEOREM IdleProposed == ScanSpec => []OnlyIdleProposed
<1>1. ScanInv => OnlyIdleProposed
  <2> SUFFICES ASSUME JudgedInv, phase = "proposed", NEW k \in DOMAIN proposal.entries,
                      Settled(At(proposal.entries[k]))
               PROVE  Quiet(At(proposal.entries[k]))
    BY DEF ScanInv, OnlyIdleProposed, Quiet
  <2>1. PICK i \in DOMAIN rows : At(proposal.entries[k]) = HomeOf(rows[i]) /\ Proposed(rows[i])
    BY DEF JudgedInv, FromRows
  <2>2. rows[i].status = "STALE"
    BY <2>1 DEF Proposed, CliProposes, BotProposes, ChatProposes
  <2> QED BY <2>1, <2>2 DEF JudgedInv, IdleRow
<1> QED BY <1>1, ScanInvariant, PTL

(* A scan from the chat or the command line that is given no min_idle spares *)
(* what acknowledged anything in the one that it has to expect: of the       *)
(* environment before the file before the built-in day on the command line,  *)
(* a day in the chat (config.go:146-184, chatops/scan.go:18-21).  Not so a   *)
(* scheduled scan, whose threshold is then zero.                             *)
THEOREM DefaultsLayered == ScanSpec => [](request.caller # "bot" => DefaultIdleHonoured)
<1>1. ScanInv /\ OnlyIdleProposed => (request.caller # "bot" => DefaultIdleHonoured)
  <2> SUFFICES ASSUME ScanInv, OnlyIdleProposed, request.caller # "bot", phase = "proposed",
                      request.minIdle = Unset, NEW k \in DOMAIN proposal.entries
               PROVE  LET c == live[At(proposal.entries[k])] IN
                        Settled(At(proposal.entries[k])) =>
                          c.lastAck = 0 \/ c.lastAck + IdleExpected <= now \/ c.lastAck >= now
    BY DEF DefaultIdleHonoured
  <2>1. request.caller \in {"cli", "chat", "owner"}
    BY RequestsAssumption DEF ScanInv, ScanTyped, ScanTypeOK, Request
  <2>2. request.caller # "owner"
    <3>1. PICK i \in DOMAIN rows : Proposed(rows[i])
      BY DEF ScanInv, JudgedInv, FromRows
    <3> QED BY <3>1 DEF Proposed
  <2>3. MinIdle = IdleExpected
    BY <2>1, <2>2
       DEF MinIdle, Options, CliOptions, ChatOptions, Defaults, Given, IdleExpected
  <2> QED BY <2>3 DEF OnlyIdleProposed
<1> QED BY <1>1, IdleProposed, ScanInvariant, PTL

(* A peer's answer that timed out never reads as an absence, and what is     *)
(* called absent or stale there was so when it was asked.                    *)
THEOREM PeersHonest == ScanSpec => []PeerStatusHonest
<1>1. ScanInv => PeerStatusHonest
  BY DEF ScanInv, JudgedInv, PeerHonest, PeerOf, PeerStatusHonest, Quiet
<1> QED BY <1>1, ScanInvariant, PTL

LEMMA AtMostOne ==
  ASSUME NEW A, \A x, y \in A : x = y
  PROVE  Cardinality(A) = IF A = {} THEN 0 ELSE 1
<1>1. CASE A = {}
  BY <1>1, FS_EmptySet
<1>2. CASE A # {}
  <2>1. PICK x \in A : TRUE
    BY <1>2
  <2>2. A = {x}
    BY <2>1
  <2> QED BY <1>2, <2>2, FS_Singleton
<1> QED BY <1>1, <1>2

(* A scan that returns has looked exactly once at every consumer that was    *)
(* there all along, in every stream it could read; it reports once whatever  *)
(* is active or above MinPending, and nothing idle that is below.            *)
THEOREM EveryoneLookedAt == ScanSpec => []NothingOverlooked
<1>1. ScanInv => NothingOverlooked
  <2> DEFINE OneLook(s) ==
               \A n \in Consumers :
                 /\ Settled(<<Home, s, n>>) => Cardinality(RowsOf(all, s, n)) = 1
                 /\ Cardinality(RowsOf(rows, s, n)) <= Cardinality(RowsOf(all, s, n))
                 /\ \A i \in RowsOf(all, s, n) :
                      IF all[i].status = "ACTIVE" \/ all[i].pending > MinPending
                      THEN RowsOf(rows, s, n) # {}
                      ELSE all[i].pending < MinPending => RowsOf(rows, s, n) = {}
  <2> SUFFICES ASSUME ScanTyped, WalkInv, RowsInv, phase \in {"done", "proposed"},
                      NEW s \in Streams, s \in Wanted, ~Has(rows, s, NoName)
               PROVE  OneLook(s)
    <3>1. NothingOverlooked <=>
            (phase \in {"done", "proposed"} =>
               \A q \in Streams :
                 IF OnlyStream \notin {AnyName, q} THEN \A i \in DOMAIN all : all[i].stream # q
                 ELSE RowsOf(rows, q, NoName) # {} \/ OneLook(q))
      BY DEF NothingOverlooked
    <3> HIDE DEF OneLook
    <3>2. \A q \in Streams : OnlyStream \notin {AnyName, q} => q \notin Wanted
      BY DEF Wanted
    <3>3. \A q \in Streams : OnlyStream \in {AnyName, q} => q \in Wanted
      BY DEF Wanted
    <3>4. \A q : RowsOf(rows, q, NoName) = {} <=> ~Has(rows, q, NoName)
      BY DEF RowsOf, Has
    <3>5. WalkInv => \A i \in DOMAIN all : all[i].stream \in Wanted
      BY DEF WalkInv
    <3> QED BY <3>1, <3>2, <3>3, <3>4, <3>5 DEF ScanInv
  <2>0. /\ all \in Seq(Row) /\ rows \in Seq(Row) /\ next \in Nat /\ Named(all)
        /\ MinPending \in Nat /\ NoName \notin Consumers /\ streams = {}
    BY OptionsTyped, HomeAssumption DEF ScanTyped, ScanTypeOK, WalkInv
  <2>1. \A j \in DOMAIN all : j < next
    <3>1. DOMAIN all = 1 .. Len(all) /\ Len(all) \in Nat
      BY <2>0
    <3> QED BY <2>0, <3>1 DEF RowsInv
  <2>2. \A j \in DOMAIN all : all[j].consumer = NoName => Reported(all[j])
    BY <2>0 DEF Reported, Named
  <2>3. ~Has(all, s, NoName)
    BY <2>1, <2>2 DEF RowsInv, Has, SameRow
  <2> SUFFICES ASSUME NEW n \in Consumers
               PROVE  /\ Settled(<<Home, s, n>>) => Cardinality(RowsOf(all, s, n)) = 1
                      /\ Cardinality(RowsOf(rows, s, n)) <= Cardinality(RowsOf(all, s, n))
                      /\ \A i \in RowsOf(all, s, n) :
                           IF all[i].status = "ACTIVE" \/ all[i].pending > MinPending
                           THEN RowsOf(rows, s, n) # {}
                           ELSE all[i].pending < MinPending => RowsOf(rows, s, n) = {}
    OBVIOUS
  <2> DEFINE A == RowsOf(all, s, n)
             K == {i \in A : MeetsThresholds(all[i])}
             R == RowsOf(rows, s, n)
  <2>4. /\ \A x, y \in A : x = y
        /\ \A x, y \in R : x = y
    BY <2>0 DEF RowsOf, WalkInv, RowsInv, Once
  <2>5. Settled(<<Home, s, n>>) => A # {}
    BY <2>0, <2>3 DEF WalkInv, Has, RowsOf
  <2>6. \A j \in A : j \in K <=> Reported(all[j])
    <3> SUFFICES ASSUME NEW j \in A PROVE j \in K <=> Reported(all[j])
      OBVIOUS
    <3>1. all[j] \in Row /\ all[j].consumer # NoName
      BY <2>0 DEF RowsOf
    <3> QED BY <3>1 DEF Reported
  <2>7. K # {} => R # {}
    <3> SUFFICES ASSUME NEW j \in K PROVE R # {}
      OBVIOUS
    <3>1. PICK i \in DOMAIN rows : SameRow(rows[i], all[j])
      BY <2>1, <2>6 DEF RowsInv, RowsOf
    <3>2. i \in R
      BY <3>1 DEF RowsOf, SameRow
    <3> QED BY <3>2
  <2>8. R # {} => K # {}
    <3> SUFFICES ASSUME NEW i \in R PROVE K # {}
      OBVIOUS
    <3>1. PICK j \in DOMAIN all : Reported(all[j]) /\ SameRow(rows[i], all[j])
      BY DEF RowsInv, RowsOf
    <3>2. j \in A
      BY <3>1 DEF RowsOf, SameRow
    <3> QED BY <2>6, <3>1, <3>2
  <2>9. \A j \in A : IF all[j].status = "ACTIVE" \/ all[j].pending > MinPending THEN j \in K
                     ELSE all[j].pending < MinPending => j \notin K
    <3> TAKE j \in A
    <3>0. j \in DOMAIN all
      BY DEF RowsOf
    <3>5. all[j] \in Row
      BY <2>0, <3>0
    <3>1. all[j].pending \in Nat
      BY <3>5, RowFields
    <3>2. j \in K <=> all[j].status = "ACTIVE" \/ all[j].pending >= MinPending
      <4>1. j \in K <=> MeetsThresholds(all[j])
        <5> HIDE DEF A
        <5> QED OBVIOUS
      <4> HIDE DEF A, K
      <4> QED BY <4>1 DEF MeetsThresholds
    <3>3. PICK p \in Nat : p = all[j].pending
      BY <3>1
    <3>4. /\ p > MinPending => p >= MinPending
          /\ p < MinPending => ~(p >= MinPending)
      BY <2>0
    <3> HIDE DEF K
    <3> QED BY <3>2, <3>3, <3>4
  <2>10. \A j \in A : IF all[j].status = "ACTIVE" \/ all[j].pending > MinPending THEN R # {}
                      ELSE all[j].pending < MinPending => R = {}
    <3> TAKE j \in A
    <3>1. K \subseteq {j}
      BY <2>4
    <3> HIDE DEF A, K, R
    <3> QED BY <2>7, <2>8, <2>9, <3>1
  <2> HIDE DEF A, K, R
  <2>11. /\ Cardinality(A) = IF A = {} THEN 0 ELSE 1
         /\ Cardinality(R) = IF R = {} THEN 0 ELSE 1
    BY <2>4, AtMostOne
  <2>12. Settled(<<Home, s, n>>) => Cardinality(A) = 1
    BY <2>5, <2>11
  <2>13. Cardinality(R) <= Cardinality(A)
    <3>1. R # {} => A # {}
      BY <2>8 DEF K
    <3> QED BY <2>11, <3>1
  <2> QED BY <2>10, <2>12, <2>13 DEF A, R
<1> QED BY <1>1, ScanInvariant, PTL

(* `consumer scan` leaves out of its manifest every consumer of which it     *)
(* found that an external controller manages it.                             *)
THEOREM CliKeepsManagedOut == ScanSpec => [](request.caller = "cli" => ManagedKeptOut)
<1>1. ScanInv => (request.caller = "cli" => ManagedKeptOut)
  <2> SUFFICES ASSUME ScanTyped, JudgedInv, RowsInv, request.caller = "cli", phase = "proposed",
                      NEW k \in DOMAIN proposal.entries,
                      NEW j \in RowsOf(rows, proposal.entries[k].stream,
                                       proposal.entries[k].consumer)
               PROVE  rows[j].managed = ""
    BY DEF ScanInv, ManagedKeptOut
  <2>1. PICK i \in DOMAIN rows : /\ proposal.entries[k].stream = rows[i].stream
                                 /\ proposal.entries[k].consumer = rows[i].consumer
                                 /\ Proposed(rows[i])
    BY DEF JudgedInv, FromRows
  <2>2. rows[i].status = "STALE" /\ rows[i].managed = ""
    BY <2>1 DEF Proposed, CliProposes
  <2>3. rows[i].consumer # NoName
    BY <2>2 DEF ScanTyped, Named
  <2>4. i = j
    BY <2>1, <2>3 DEF RowsInv, Once, RowsOf
  <2> QED BY <2>2, <2>4
<1> QED BY <1>1, ScanInvariant, PTL

-----------------------------------------------------------------------------
(* Successors.                                                              *)

RenameInv ==
  /\ phase \notin {"report", "done", "proposed"} =>
       \A i \in DOMAIN all : all[i].renamedTo = NoName
  /\ RenamesNameSuccessors

\* What RenamesNameSuccessors says of one row.
NamesSuccessor(rs, i) ==
  LET heirs == {j \in DOMAIN rs :
                 /\ rs[j].status = "ACTIVE" /\ rs[j].stream = rs[i].stream
                 /\ rs[j].filter = rs[i].filter /\ rs[j].filter # NoFilter}
  IN  IF rs[i].status = "STALE" /\ heirs # {}
      THEN \E j \in heirs : /\ rs[i].renamedTo = rs[j].consumer
                            /\ \A k \in heirs : rs[k].lastAck <= rs[j].lastAck
      ELSE rs[i].renamedTo = NoName

LEMMA RenamesFound ==
  ASSUME NEW rs \in Seq(Row), Named(rs), Once(rs),
         \A i \in DOMAIN rs : rs[i].renamedTo = NoName
  PROVE  \A i \in DOMAIN rs : NamesSuccessor(DetectRenames(rs), i)
<1> SUFFICES ASSUME NEW i \in DOMAIN rs PROVE NamesSuccessor(DetectRenames(rs), i)
  OBVIOUS
<1> DEFINE qs == DetectRenames(rs)
           found == Successors(rs, rs[i].stream, rs[i].filter)
           heirs == HeirsOf(rs, rs[i].stream, rs[i].filter)
           named == {j \in DOMAIN qs :
                      /\ qs[j].status = "ACTIVE" /\ qs[j].stream = qs[i].stream
                      /\ qs[j].filter = qs[i].filter /\ qs[j].filter # NoFilter}
<1>1. DOMAIN qs = DOMAIN rs /\ \A j \in DOMAIN rs : SameRow(qs[j], rs[j])
  BY RenamedRows, RenamesKeepRows
<1>2. qs[i] = IF /\ rs[i].status = "STALE" /\ rs[i].filter # NoFilter
                 /\ found # << >>
                 /\ found[1].consumer # rs[i].consumer
              THEN [rs[i] EXCEPT !.renamedTo = found[1].consumer]
              ELSE rs[i]
  BY RenamedRows
<1>3. \/ found = << >> /\ heirs = {}
      \/ \E j \in heirs : found = <<rs[j]>> /\ \A k \in heirs : rs[k].lastAck <= rs[j].lastAck
  BY SuccessorsFound
<1>4. \A r \in Row : \A c : [r EXCEPT !.renamedTo = c].renamedTo = c
  BY DEF Row
<1>5. rs[i] \in Row
  OBVIOUS
<1> HIDE DEF qs, found
<1>6. rs[i].filter # NoFilter => named = heirs
  BY <1>1 DEF HeirsOf, Heir, SameRow
<1>7. rs[i].filter = NoFilter => named = {}
  BY <1>1 DEF SameRow
<1>8. qs[i].status = rs[i].status
  BY <1>1 DEF SameRow
<1>9. \A k \in heirs : qs[k].lastAck = rs[k].lastAck /\ qs[k].consumer = rs[k].consumer
  BY <1>1 DEF HeirsOf, SameRow
<1>10. CASE rs[i].status = "STALE" /\ named # {}
  <2>1. rs[i].filter # NoFilter /\ heirs = named
    BY <1>6, <1>7, <1>10
  <2>2. PICK j \in heirs : found = <<rs[j]>> /\ \A k \in heirs : rs[k].lastAck <= rs[j].lastAck
    BY <1>3, <1>10, <2>1
  <2>3. rs[j].consumer # rs[i].consumer
    BY <1>10, <2>2 DEF HeirsOf, Heir, Once, Named
  <2>4. qs[i] = [rs[i] EXCEPT !.renamedTo = rs[j].consumer]
    BY <1>2, <1>10, <2>1, <2>2, <2>3
  <2>5. qs[i].renamedTo = qs[j].consumer
    BY <1>4, <1>5, <1>9, <2>4
  <2>6. \A k \in heirs : qs[k].lastAck <= qs[j].lastAck
    BY <1>9, <2>2
  <2> HIDE DEF heirs
  <2>7. \E h \in named : /\ qs[i].renamedTo = qs[h].consumer
                         /\ \A k \in named : qs[k].lastAck <= qs[h].lastAck
    BY <2>1, <2>2, <2>5, <2>6
  <2> QED BY <1>8, <1>10, <2>7 DEF NamesSuccessor, qs
<1>11. CASE ~(rs[i].status = "STALE" /\ named # {})
  <2>1. ~(rs[i].status = "STALE" /\ rs[i].filter # NoFilter /\ found # << >>)
    BY <1>3, <1>6, <1>11
  <2>2. qs[i].renamedTo = NoName
    BY <1>2, <2>1
  <2> QED BY <1>8, <1>11, <2>2 DEF NamesSuccessor, qs
<1> QED BY <1>10, <1>11

LEMMA NextRename ==
  ScanInv /\ RenameInv /\ [ScanNext]_<<serverVars, scanVars>> => RenameInv'
<1> SUFFICES ASSUME ScanTyped, WalkInv, RenameInv, [ScanNext]_<<serverVars, scanVars>>
             PROVE  RenameInv'
  BY DEF ScanInv
<1>0. all \in Seq(Row) /\ Named(all) /\ Once(all)
  BY DEF ScanTyped, ScanTypeOK, WalkInv
<1>1. CASE UNCHANGED scanVars
  BY <1>1 DEF RenameInv, RenamesNameSuccessors, scanVars
<1>2. CASE BeginScan \/ ScanFails \/ ScanExpires \/ StreamDone \/ \E s \in Streams : ListConsumers(s)
  <2>1. /\ all' = all /\ phase \notin {"report", "done", "proposed"}
        /\ phase' \notin {"report", "done", "proposed"}
    BY <1>2 DEF BeginScan, ScanFails, ScanExpires, StreamDone, ListConsumers
  <2> QED BY <2>1 DEF RenameInv, RenamesNameSuccessors
<1>3. ASSUME NEW s \in Streams, StreamFails(s) PROVE RenameInv'
  <2>1. ErrorRow(s, NoName) \in Row /\ ErrorRow(s, NoName).renamedTo = NoName
    BY ErrorRowFacts
  <2>2. PICK r \in Row : all' = Append(all, r) /\ r.renamedTo = NoName
    BY <1>3, <2>1 DEF StreamFails
  <2>3. phase \notin {"report", "done", "proposed"} /\ phase' \notin {"report", "done", "proposed"}
    BY <1>3 DEF StreamFails
  <2>4. \A i \in DOMAIN all' : all'[i].renamedTo = NoName
    BY <1>0, <2>2, <2>3, AppendRow DEF RenameInv
  <2> QED BY <2>3, <2>4 DEF RenameInv, RenamesNameSuccessors
<1>4. ASSUME NEW n \in Consumers, Classify(n) \/ ClassifyFails(n) PROVE RenameInv'
  <2>1. current \in Streams /\ now \in Nat
    BY <1>4 DEF ScanTyped, ScanTypeOK, Classify, ClassifyFails
  <2>2. live[<<Home, current, n>>] \in ConsumerState
    BY <2>1, HomeAssumption DEF ScanTyped, ServerTypeOK, Addresses
  <2>3. PICK r \in Row : all' = Append(all, r) /\ r.renamedTo = NoName
    BY <1>4, <2>1, <2>2, ErrorRowFacts, ClassifiedRowFacts DEF Classify, ClassifyFails
  <2>4. phase \notin {"report", "done", "proposed"} /\ phase' \notin {"report", "done", "proposed"}
    BY <1>4 DEF Classify, ClassifyFails
  <2>5. \A i \in DOMAIN all' : all'[i].renamedTo = NoName
    BY <1>0, <2>3, <2>4, AppendRow DEF RenameInv
  <2> QED BY <2>4, <2>5 DEF RenameInv, RenamesNameSuccessors
<1>5. CASE MarkRenames
  <2>1. all' = DetectRenames(all) /\ phase' = "report" /\ phase = "walk"
    BY <1>5 DEF MarkRenames
  <2>2. \A i \in DOMAIN all : NamesSuccessor(all', i)
    BY <1>0, <2>1, RenamesFound DEF RenameInv
  <2>3. DOMAIN all' = DOMAIN all
    BY <1>0, <2>1, RenamedRows
  <2> QED BY <2>1, <2>2, <2>3 DEF RenameInv, RenamesNameSuccessors, NamesSuccessor
<1>6. CASE ReportRow \/ ScanReturns \/ Propose
  <2>1. /\ all' = all /\ phase \in {"report", "done", "proposed"}
        /\ phase' \in {"report", "done", "proposed"}
    BY <1>6 DEF ReportRow, ScanReturns, Propose
  <2> QED BY <2>1 DEF RenameInv, RenamesNameSuccessors
<1> QED BY <1>1, <1>2, <1>3, <1>4, <1>5, <1>6 DEF ScanNext, ScanOver, ScanStep

(* A consumer called stale while a sibling of the same filter works is said  *)
(* to be renamed to the one of them that acknowledged last, and no other     *)
(* row is said to be renamed.                                                *)
THEOREM RenamesFollowed == ScanSpec => []RenamesNameSuccessors
<1>1. ScannerInit => RenameInv
  BY DEF ScannerInit, ScanInit, RenameInv, RenamesNameSuccessors
<1>2. RenameInv => RenamesNameSuccessors
  BY DEF RenameInv
<1> QED BY <1>1, <1>2, NextRename, ScanInvariant, PTL DEF ScanSpec

-----------------------------------------------------------------------------
(* The search for the owner of a subject.                                   *)
Match == [at : Sights, status : {"ACTIVE", "STALE", "OK"}, lastAck : Nat]

\* What the search has still to come to.
Ahead(a) ==
  \/ a[1] \in conns
  \/ search \in {"streams", "consumers"} /\ a[1] = conn /\ a[2] \in streams
  \/ search = "consumers" /\ a[1] = conn /\ a[2] = current /\ a[3] \in names

\* A match says what its consumer was at the moment it was looked at: what was
\* acknowledged before the search is known, unless the consumer is another.
Judged(m) ==
  /\ Settled(On(m.at)) => live[On(m.at)].lastAck = m.lastAck \/ live[On(m.at)].lastAck >= now
  /\ m.lastAck # 0 /\ now - m.lastAck < MinIdle => m.status = "ACTIVE"
  /\ changes = 0 => m.status = Status(live[On(m.at)])

Matched(a) == \E i \in DOMAIN matches : matches[i].at = a

OfSubject(a) == FilterOf[<<a[2], a[3]>>] = Subject

Overlooked(a) ==
  /\ Settled(On(a)) /\ OfSubject(a) /\ a \notin unread
  /\ ~Ahead(a) /\ ~Matched(a)

Place ==
  /\ conns \subseteq Contexts
  /\ search \in {"streams", "consumers"} => conn \in Contexts \ conns /\ streams \subseteq Streams
  /\ search = "consumers" => current \in Streams \ streams /\ names \subseteq Consumers
  /\ search = "resolved" => conns = {}

Single(ms) == \A i, j \in DOMAIN ms : ms[i].at = ms[j].at => i = j

LatestFirst(ms) == \A i, j \in DOMAIN ms : i < j => Better(ms[i], ms[j])

SearchOK ==
  /\ now \in Nat /\ now <= clock
  /\ Place
  /\ matches \in Seq(Match) /\ Single(matches)
  /\ \A i \in DOMAIN matches : ~Ahead(matches[i].at) /\ Judged(matches[i])
  /\ \A a \in Sights : ~Overlooked(a)
  /\ search = "resolved" => LatestFirst(matches)

SearchInv ==
  /\ ServerTypeOK /\ request \in Requests
  /\ search \in {"idle", "contexts", "streams", "consumers", "resolved", "failed"}
  /\ request.caller # "owner" => search = "idle"
  /\ search = "idle" => matches = << >>
  /\ search \notin {"idle", "failed"} => SearchOK

LEMMA Sighted == \A a \in Sights : On(a) \in Addresses
BY ContextsAssumption DEF Sights, On, Addresses

LEMMA MatchFields ==
  ASSUME NEW m \in Match
  PROVE  /\ m.at \in Sights /\ On(m.at) \in Addresses /\ m.lastAck \in Nat
         /\ m.status \in {"ACTIVE", "STALE", "OK"}
         /\ Rank[m.at] \in Nat
         /\ \A o \in Match : m.at # o.at => Rank[m.at] # Rank[o.at]
<1>1. \A o \in Match : o.at \in Sights
  BY DEF Match
<1>2. \A o \in Match : o.at \in Sights /\ On(o.at) \in Addresses
  BY <1>1, Sighted
<1> QED BY <1>2, RankAssumption DEF Match

(* Matches are put in order, none is lost and none added.                   *)
LEMMA SortedMatches ==
  ASSUME NEW ms \in Seq(Match), Single(ms)
  PROVE  LET t == Sorted(ms) IN
         /\ t \in Seq(Match) /\ Single(t) /\ LatestFirst(t)
         /\ \A i \in DOMAIN t : \E k \in DOMAIN ms : t[i] = ms[k]
         /\ \A k \in DOMAIN ms : \E i \in DOMAIN t : t[i] = ms[k]
<1> DEFINE D == DOMAIN ms
           E(k) == {j \in D : Better(ms[j], ms[k])}
           B == {q \in D \X D : Better(ms[q[1]], ms[q[2]])}
           h == [i \in D |-> CHOOSE k \in D : Cardinality(E(k)) = i - 1]
           t == Sorted(ms)
<1>1. PICK n \in Nat : n = Len(ms) /\ D = 1 .. n
  OBVIOUS
<1>2. IsFiniteSet(D) /\ Cardinality(D) = n
  <2>1. 1 \in Int /\ n \in Int /\ (IF 1 > n THEN 0 ELSE n - 1 + 1) = n
    OBVIOUS
  <2> QED BY <1>1, <2>1, FS_Interval
<1>3. \A k \in D : ms[k] \in Match
  BY <1>1
<1>4. t = [i \in D |-> ms[h[i]]]
  BY DEF Sorted, SortBy
<1>5. \A k, l \in D : <<k, l>> \in B <=> Better(ms[k], ms[l])
  OBVIOUS
<1>6. \A k, l \in D : ms[k].at = ms[l].at => k = l
  BY DEF Single
<1> HIDE DEF t
<1>7. \A k \in D : E(k) = Earlier(k, B, D)
  BY DEF Earlier
<1> HIDE DEF B, D
<1>8. StrictOrder(B, D)
  <2>1. \A x \in Match : ~Better(x, x)
    BY MatchFields DEF Better
  <2>2. \A x, y \in Match : x.at # y.at => Better(x, y) \/ Better(y, x)
    BY MatchFields DEF Better
  <2>3. \A x, y, z \in Match : Better(x, y) /\ Better(y, z) => Better(x, z)
    BY MatchFields DEF Better
  <2>4. \A k, l \in D : k # l => ms[k].at # ms[l].at
    BY <1>6
  <2> QED BY <1>3, <1>5, <2>1, <2>2, <2>3, <2>4 DEF StrictOrder
<1>9. /\ \A k \in D : Cardinality(E(k)) \in Nat
      /\ \A k, l \in D : Better(ms[k], ms[l]) => Cardinality(E(k)) < Cardinality(E(l))
      /\ \A i \in 1 .. n : \E k \in D : Cardinality(E(k)) = i - 1
  <2> HIDE DEF E
  <2> QED BY <1>2, <1>5, <1>7, <1>8, Places
<1>10. h \in [D -> D] /\ \A i \in D : Cardinality(E(h[i])) = i - 1
  <2> HIDE DEF E
  <2> QED BY <1>1, <1>9
<1> HIDE DEF h
<1>11. DOMAIN t = D /\ \A i \in D : t[i] = ms[h[i]]
  BY <1>4
<1>12. t \in Seq(Match)
  <2>1. t \in [1 .. n -> Match]
    BY <1>1, <1>3, <1>4, <1>10
  <2> QED BY <2>1
<1>13. \A i, j \in D : h[i] = h[j] => i = j
  <2> HIDE DEF E
  <2> QED BY <1>1, <1>10
<1>14. Single(t)
  BY <1>6, <1>10, <1>11, <1>13 DEF Single
<1>15. LatestFirst(t)
  <2> SUFFICES ASSUME NEW i \in D, NEW j \in D, i < j PROVE Better(ms[h[i]], ms[h[j]])
    BY <1>11 DEF LatestFirst
  <2>1. h[i] # h[j] /\ h[i] \in D /\ h[j] \in D /\ i \in Nat /\ j \in Nat
    BY <1>1, <1>10, <1>13
  <2>2. Cardinality(E(h[i])) = i - 1 /\ Cardinality(E(h[j])) = j - 1
    BY <1>10
  <2> HIDE DEF E
  <2>3. ~Better(ms[h[j]], ms[h[i]])
    <3> SUFFICES ASSUME Better(ms[h[j]], ms[h[i]]) PROVE FALSE
      OBVIOUS
    <3>1. Cardinality(E(h[j])) < Cardinality(E(h[i]))
      BY <1>9, <2>1
    <3>2. j - 1 < i - 1
      BY <2>2, <3>1
    <3> QED BY <2>1, <3>2
  <2> QED BY <1>5, <1>8, <2>1, <2>3 DEF StrictOrder
<1>16. \A k \in D : \E i \in D : h[i] = k
  <2>1. h \in Injection(D, D)
    BY <1>10, <1>13 DEF Injection, IsInjective
  <2>2. h \in Surjection(D, D)
    BY <1>2, <2>1, FS_Injection
  <2> QED BY <2>2 DEF Surjection
<1> QED BY <1>10, <1>11, <1>12, <1>14, <1>15, <1>16 DEF D, t

-----------------------------------------------------------------------------
(* The search and the servers.                                              *)

\* A step that finds nothing: what is no longer ahead cannot be read, or is new.
LEMMA SearchGoesOn ==
  ASSUME SearchInv, search \notin {"idle", "failed"},
         UNCHANGED <<serverVars, now, request, matches>>,
         search' \in {"contexts", "streams", "consumers"}, Place',
         \A a \in Sights : Ahead(a)' => Ahead(a),
         \A a \in Sights :
           Ahead(a) /\ OfSubject(a) => Ahead(a)' \/ a \in unread' \/ ~Settled(On(a)),
         unread \subseteq unread'
  PROVE  SearchInv'
<1>1. SearchOK
  BY DEF SearchInv
<1>2. clock' = clock /\ live' = live /\ changes' = changes
  BY DEF serverVars
<1>3. MinIdle' = MinIdle
  BY OptionsStay
<1>4. \A m : Judged(m)' <=> Judged(m)
  BY <1>2, <1>3 DEF Judged, Settled, Status, InUseNow, RecentAck
<1>5. \A i \in DOMAIN matches : ~Ahead(matches[i].at)' /\ Judged(matches[i])'
  <2> TAKE i \in DOMAIN matches
  <2>1. PICK m : m = matches[i]
    OBVIOUS
  <2>2. m \in Match /\ ~Ahead(m.at) /\ Judged(m)
    BY <1>1, <2>1 DEF SearchOK
  <2>3. ~Ahead(m.at)' /\ Judged(m)'
    BY <1>4, <2>2, MatchFields
  <2> QED BY <2>1, <2>3 DEF Ahead, Judged, Settled
<1>6. \A a \in Sights : ~Overlooked(a)'
  <2> TAKE a \in Sights
  <2>1. ~Overlooked(a)
    BY <1>1 DEF SearchOK
  <2> QED BY <1>2, <2>1 DEF Overlooked, OfSubject, Settled, Matched
<1>7. SearchOK'
  BY <1>1, <1>2, <1>5, <1>6 DEF SearchOK, Sights, Match, Single
<1>8. ServerTypeOK'
  BY <1>2 DEF SearchInv, ServerTypeOK
<1> QED BY <1>7, <1>8 DEF SearchInv

LEMMA SearchBegins ==
  ASSUME SearchInv, ConnectAll, UNCHANGED serverVars, request.caller = "owner"
  PROVE  SearchInv'
<1>1. /\ matches = << >> /\ matches' = << >> /\ now' = clock /\ request' = request
      /\ conns' \subseteq Contexts /\ search' \in {"contexts", "failed"}
      /\ unread' = SubjectIn(Contexts \ conns', Streams, Consumers)
      /\ clock' = clock /\ live' = live /\ changes' = changes
  BY DEF SearchInv, ConnectAll, unused, serverVars
<1>2. clock \in Nat
  BY DEF SearchInv, ServerTypeOK
<1>3. \A a \in Sights : ~Overlooked(a)'
  <2> TAKE a \in Sights
  <2>1. OfSubject(a) => a \in unread' \/ a[1] \in conns'
    BY <1>1 DEF Sights, SubjectIn, OfSubject
  <2> QED BY <2>1 DEF Overlooked, OfSubject, Ahead
<1>4. Place'
  BY <1>1 DEF Place
<1>5. now' \in Nat /\ now' <= clock'
  BY <1>1, <1>2
<1>6. matches' \in Seq(Match) /\ DOMAIN matches' = {}
  BY <1>1
<1>7. search' \notin {"idle", "failed"} => SearchOK'
  BY <1>1, <1>3, <1>4, <1>5, <1>6 DEF SearchOK, Sights, Match, Single
<1>8. ServerTypeOK'
  BY <1>1 DEF SearchInv, ServerTypeOK
<1> QED BY <1>1, <1>7, <1>8 DEF SearchInv

LEMMA SearchPasses ==
  ASSUME SearchInv, UNCHANGED serverVars, request.caller = "owner",
         \/ \E k \in Contexts : SearchCluster(k) \/ PassCluster(k)
         \/ \E s \in Streams : SearchStream(s) \/ PassStream(s)
         \/ \E n \in Consumers : LoseSight(n)
  PROVE  SearchInv'
<1> USE DEF Ahead, Place
<1>1. search \notin {"idle", "failed"}
  BY DEF SearchCluster, PassCluster, SearchStream, PassStream, LoseSight
<1>2. Place /\ UNCHANGED <<serverVars, now, request, matches>>
  BY <1>1 DEF SearchInv, SearchOK, SearchCluster, PassCluster, SearchStream, PassStream,
              LoseSight, unused
<1>3. \A a \in Sights : a = <<a[1], a[2], a[3]>> /\ a[1] \in Contexts /\ a[2] \in Streams
                          /\ a[3] \in Consumers
  BY DEF Sights
<1>4. ASSUME NEW k \in Contexts, SearchCluster(k) PROVE SearchInv'
  <2>1. /\ search' = "streams" /\ Place' /\ unread' = unread
        /\ \A a \in Sights : Ahead(a)' => Ahead(a)
        /\ \A a \in Sights : Ahead(a) => Ahead(a)'
    BY <1>2, <1>3, <1>4 DEF SearchCluster
  <2> QED BY <1>1, <1>2, <2>1, SearchGoesOn
<1>5. ASSUME NEW k \in Contexts, PassCluster(k) PROVE SearchInv'
  <2>1. /\ search' = "contexts" /\ Place' /\ unread \subseteq unread'
        /\ \A a \in Sights : Ahead(a)' => Ahead(a)
        /\ \A a \in Sights : Ahead(a) /\ OfSubject(a) => Ahead(a)' \/ a \in unread'
    BY <1>2, <1>3, <1>5 DEF PassCluster, SubjectIn, OfSubject
  <2> QED BY <1>1, <1>2, <2>1, SearchGoesOn
<1>6. ASSUME NEW s \in Streams, SearchStream(s) PROVE SearchInv'
  <2>1. /\ search = "streams" /\ search' = "consumers" /\ unread' = unread
        /\ names' = {n \in Consumers : live[On(<<conn, s, n>>)].exists}
        /\ s \in streams /\ streams' = streams \ {s} /\ current' = s
        /\ conns' = conns /\ conn' = conn
    BY <1>6 DEF SearchStream
  <2>2. Place'
    BY <1>2, <2>1
  <2>3. \A a \in Sights : Ahead(a)' => Ahead(a)
    BY <1>2, <1>3, <2>1
  <2>4. \A a \in Sights : Ahead(a) => Ahead(a)' \/ ~Settled(On(a))
    <3> TAKE a \in Sights
    <3>1. a[1] = conn /\ a[2] = s => a = <<conn, s, a[3]>>
      BY <1>3
    <3>2. a[1] = conn /\ a[2] = s /\ live[On(a)].exists => a[3] \in names'
      BY <1>3, <2>1, <3>1
    <3> QED BY <1>2, <1>3, <2>1, <3>2 DEF Settled
  <2> QED BY <1>1, <1>2, <2>1, <2>2, <2>3, <2>4, SearchGoesOn
<1>7. ASSUME NEW s \in Streams, PassStream(s) PROVE SearchInv'
  <2>1. /\ search' = "streams" /\ Place' /\ unread \subseteq unread'
        /\ \A a \in Sights : Ahead(a)' => Ahead(a)
    BY <1>2, <1>7 DEF PassStream
  <2>2. \A a \in Sights : Ahead(a) /\ OfSubject(a) => Ahead(a)' \/ a \in unread'
    BY <1>2, <1>3, <1>7 DEF PassStream, SubjectIn, OfSubject
  <2> QED BY <1>1, <1>2, <2>1, <2>2, SearchGoesOn
<1>8. ASSUME NEW n \in Consumers, LoseSight(n) PROVE SearchInv'
  <2>1. /\ search' = "consumers" /\ Place' /\ unread \subseteq unread'
        /\ \A a \in Sights : Ahead(a)' => Ahead(a)
    BY <1>2, <1>8 DEF LoseSight
  <2>2. \A a \in Sights : Ahead(a) /\ OfSubject(a) => Ahead(a)' \/ a \in unread'
    BY <1>2, <1>3, <1>8 DEF LoseSight, SubjectIn, OfSubject
  <2> QED BY <1>1, <1>2, <2>1, <2>2, SearchGoesOn
<1> QED BY <1>4, <1>5, <1>6, <1>7, <1>8

LEMMA SearchLooks ==
  ASSUME SearchInv, UNCHANGED serverVars, request.caller = "owner",
         NEW n \in Consumers, LookAt(n)
  PROVE  SearchInv'
<1> DEFINE a == <<conn, current, n>>
           x == [at |-> a, status |-> Status(live[On(a)]), lastAck |-> live[On(a)].lastAck]
<1>1. /\ search = "consumers" /\ n \in names /\ names' = names \ {n}
      /\ matches' = IF FilterOf[<<current, n>>] # Subject THEN matches ELSE Append(matches, x)
      /\ UNCHANGED <<search, conns, conn, unread, now, streams, current, request>>
  BY DEF LookAt, unused
<1>2. SearchOK /\ Place
  BY <1>1 DEF SearchInv, SearchOK
<1>3. clock' = clock /\ live' = live /\ changes' = changes /\ MinIdle' = MinIdle
  BY <1>1, OptionsStay DEF serverVars
<1>4. a \in Sights /\ a[1] = conn /\ a[2] = current /\ a[3] = n
  BY <1>1, <1>2 DEF Place, Sights
<1>5. Ahead(a) /\ \A b \in Sights : Ahead(b)' <=> Ahead(b) /\ b # a
  <2>1. \A b \in Sights : b = a <=> b[1] = conn /\ b[2] = current /\ b[3] = n
    BY DEF Sights
  <2> HIDE DEF a
  <2> QED BY <1>1, <1>2, <1>4, <2>1 DEF Ahead, Place
<1>6. x \in Match /\ x.at = a /\ Judged(x)
  <2>1. live[On(a)] \in ConsumerState
    <3>1. On(a) \in Addresses
      BY <1>4, Sighted
    <3> QED BY <3>1 DEF SearchInv, ServerTypeOK
  <2>2. live[On(a)].lastAck \in Nat
    BY <2>1 DEF ConsumerState
  <2>3. Status(live[On(a)]) \in {"ACTIVE", "STALE", "OK"}
    BY DEF Status
  <2>4. live[On(a)].lastAck # 0 /\ now - live[On(a)].lastAck < MinIdle => Status(live[On(a)]) = "ACTIVE"
    BY DEF Status, RecentAck
  <2> HIDE DEF a
  <2> QED BY <1>4, <2>2, <2>3, <2>4 DEF Match, Judged
<1>7. \A m : Judged(m)' <=> Judged(m)
  BY <1>1, <1>3 DEF Judged, Settled, Status, InUseNow, RecentAck
<1> HIDE DEF x
<1>8. /\ matches' \in Seq(Match)
      /\ \A i \in DOMAIN matches' : (\E j \in DOMAIN matches : j = i /\ matches'[i] = matches[j])
                                    \/ (matches'[i] = x /\ i = Len(matches) + 1)
      /\ \A i \in DOMAIN matches : i \in DOMAIN matches' /\ matches'[i] = matches[i]
      /\ FilterOf[<<current, n>>] = Subject => \E i \in DOMAIN matches' : matches'[i] = x
  <2>1. matches \in Seq(Match)
    BY <1>2 DEF SearchOK
  <2>2. CASE FilterOf[<<current, n>>] # Subject
    BY <1>1, <2>1, <2>2
  <2>3. CASE FilterOf[<<current, n>>] = Subject
    <3>1. matches' = Append(matches, x)
      BY <1>1, <2>3
    <3>2. matches' \in Seq(Match) /\ Len(matches') = Len(matches) + 1 /\ Len(matches) \in Nat
      BY <1>6, <2>1, <3>1
    <3>3. \A i \in 1 .. Len(matches) : matches'[i] = matches[i]
      BY <1>6, <2>1, <3>1
    <3>4. matches'[Len(matches) + 1] = x
      BY <1>6, <2>1, <3>1
    <3>5. DOMAIN matches' = 1 .. Len(matches) + 1 /\ DOMAIN matches = 1 .. Len(matches)
      BY <2>1, <3>2
    <3>6. \A i \in 1 .. Len(matches) + 1 : i \in 1 .. Len(matches) \/ i = Len(matches) + 1
      BY <3>2
    <3>7. Len(matches) + 1 \in 1 .. Len(matches) + 1
          /\ \A i \in 1 .. Len(matches) : i \in 1 .. Len(matches) + 1
      BY <3>2
    <3> QED BY <3>2, <3>3, <3>4, <3>5, <3>6, <3>7
  <2> QED BY <2>2, <2>3
<1>9. \A i \in DOMAIN matches : ~Ahead(matches[i].at) /\ matches[i] \in Match
                                /\ matches[i].at \in Sights /\ Judged(matches[i])
  <2>1. \A i \in DOMAIN matches : matches[i] \in Match
    BY <1>2 DEF SearchOK
  <2> QED BY <1>2, <2>1, MatchFields DEF SearchOK
<1>10. Single(matches')
  <2>1. \A i \in DOMAIN matches : matches[i].at # a
    BY <1>5, <1>9
  <2> QED BY <1>2, <1>6, <1>8, <2>1 DEF SearchOK, Single
<1>11. \A i \in DOMAIN matches' : ~Ahead(matches[i].at)' /\ Judged(matches[i])'
  <2> TAKE i \in DOMAIN matches'
  <2>1. PICK m : m = matches'[i]
    OBVIOUS
  <2>2. m.at \in Sights /\ (m.at = a \/ ~Ahead(m.at)) /\ Judged(m)
    BY <1>4, <1>6, <1>8, <1>9, <2>1
  <2>3. ~Ahead(m.at)' /\ Judged(m)'
    BY <1>5, <1>7, <2>2
  <2> QED BY <2>1, <2>3 DEF Ahead, Judged, Settled
<1>12. \A b \in Sights : ~Overlooked(b)'
  <2> SUFFICES ASSUME NEW b \in Sights, Overlooked(b)' PROVE FALSE
    OBVIOUS
  <2>1. Settled(On(b)) /\ FilterOf[<<b[2], b[3]>>] = Subject /\ b \notin unread
        /\ ~Ahead(b)' /\ \A i \in DOMAIN matches' : matches'[i].at # b
    BY <1>1, <1>3 DEF Overlooked, OfSubject, Matched, Settled
  <2>2. \A i \in DOMAIN matches : matches[i].at # b
    BY <1>8, <2>1
  <2>3. Ahead(b)
    BY <1>2, <2>1, <2>2 DEF SearchOK, Overlooked, Matched
  <2>4. b = a
    BY <1>5, <2>1, <2>3
  <2>5. FilterOf[<<current, n>>] = Subject
    BY <1>4, <2>1, <2>4
  <2> QED BY <1>6, <1>8, <2>1, <2>4, <2>5
<1>13. Place'
  BY <1>1, <1>2 DEF Place
<1>14. SearchOK'
  BY <1>1, <1>2, <1>3, <1>8, <1>10, <1>11, <1>12, <1>13 DEF SearchOK, Single, Sights, Match
<1>15. ServerTypeOK'
  BY <1>3 DEF SearchInv, ServerTypeOK
<1> QED BY <1>1, <1>14, <1>15 DEF SearchInv

LEMMA SearchEnds ==
  ASSUME SearchInv, UNCHANGED serverVars, request.caller = "owner", SearchDone \/ SearchFails \/ SearchExpires
  PROVE  SearchInv'
<1>1. ServerTypeOK' /\ request' = request
  BY DEF SearchInv, ServerTypeOK, serverVars, SearchDone, SearchFails, SearchExpires, unused
<1>2. CASE SearchFails \/ SearchExpires
  BY <1>1, <1>2 DEF SearchInv, SearchFails, SearchExpires
<1>3. CASE SearchDone /\ search' # "resolved"
  <2>1. \/ search = "consumers" /\ names = {} /\ search' = "streams"
        \/ search = "streams" /\ streams = {} /\ search' = "contexts"
    BY <1>3 DEF SearchDone
  <2>2. UNCHANGED <<conns, conn, matches, unread, now, streams, names, current, request>>
    BY <1>3 DEF SearchDone, unused
  <2>3. SearchOK
    BY <2>1 DEF SearchInv
  <2>4. Place' /\ \A a \in Sights : Ahead(a)' <=> Ahead(a)
    BY <2>1, <2>2, <2>3 DEF SearchOK, Place, Ahead
  <2> QED BY <2>1, <2>2, <2>4, SearchGoesOn
<1>4. CASE SearchDone /\ search' = "resolved"
  <2>1. search = "contexts" /\ conns = {} /\ matches' = Sorted(matches)
    BY <1>4 DEF SearchDone, SearchInv
  <2>2. UNCHANGED <<conns, conn, unread, now, streams, names, current, request>>
    BY <1>4 DEF SearchDone, unused
  <2>3. SearchOK /\ matches \in Seq(Match) /\ Single(matches)
    BY <2>1 DEF SearchInv, SearchOK
  <2>4. clock' = clock /\ live' = live /\ changes' = changes /\ MinIdle' = MinIdle
    BY <2>2, OptionsStay DEF serverVars
  <2>5. PICK t : t = matches'
    OBVIOUS
  <2>6. /\ t \in Seq(Match) /\ Single(t) /\ LatestFirst(t)
        /\ \A i \in DOMAIN t : \E k \in DOMAIN matches : t[i] = matches[k]
        /\ \A k \in DOMAIN matches : \E i \in DOMAIN t : t[i] = matches[k]
    BY <2>1, <2>3, <2>5, SortedMatches
  <2>7. \A a : ~Ahead(a) /\ ~Ahead(a)'
    BY <1>4, <2>1, <2>2 DEF Ahead
  <2>8. \A m : Judged(m)' <=> Judged(m)
    BY <2>2, <2>4 DEF Judged, Settled, Status, InUseNow, RecentAck
  <2>9. \A i \in DOMAIN t : Judged(t[i])
    BY <2>3, <2>6 DEF SearchOK
  <2>10. \A i \in DOMAIN matches' : ~Ahead(matches[i].at)' /\ Judged(matches[i])'
    <3> TAKE i \in DOMAIN matches'
    <3>1. PICK m : m = t[i]
      OBVIOUS
    <3>2. Judged(m)' /\ ~Ahead(m.at)'
      BY <2>5, <2>7, <2>8, <2>9, <3>1
    <3> QED BY <2>5, <3>1, <3>2 DEF Ahead, Judged, Settled
  <2>11. \A a \in Sights : ~Overlooked(a)'
    <3> SUFFICES ASSUME NEW a \in Sights, Overlooked(a)' PROVE FALSE
      OBVIOUS
    <3>1. Settled(On(a)) /\ FilterOf[<<a[2], a[3]>>] = Subject /\ a \notin unread
          /\ \A i \in DOMAIN t : t[i].at # a
      BY <2>2, <2>4, <2>5 DEF Overlooked, OfSubject, Matched, Settled
    <3>2. Matched(a)
      BY <2>3, <2>7, <3>1 DEF SearchOK, Overlooked
    <3>3. PICK k \in DOMAIN matches : matches[k].at = a
      BY <3>2 DEF Matched
    <3> QED BY <2>6, <3>1, <3>3
  <2>12. Place'
    BY <1>4, <2>1, <2>2 DEF Place
  <2>13. SearchOK'
    BY <2>2, <2>3, <2>4, <2>5, <2>6, <2>10, <2>11, <2>12
       DEF SearchOK, Single, LatestFirst, Better, Sights, Match
  <2> QED BY <1>1, <1>4, <2>13 DEF SearchInv
<1> QED BY <1>2, <1>3, <1>4

\* While nothing has been counted, nothing has happened to the consumers.
Untouched == changes' = 0 => changes = 0 /\ live' = live

LEMMA ChangesCount ==
  ASSUME ServerTypeOK,
         \/ Tick \/ \E a \in Addresses : ApplicationStep(a)
         \/ UNCHANGED serverVars
  PROVE  Untouched
<1>1. changes \in Nat
  BY DEF ServerTypeOK
<1>2. ASSUME NEW a \in Addresses, ApplicationStep(a) PROVE changes' = changes + 1
  BY <1>2 DEF ApplicationStep, BindPush, UnbindPush, Poll, PollEnds, Publish, Ack, Annotate,
              Drop, Create, Change
<1>3. changes + 1 # 0
  BY <1>1
<1> QED BY <1>2, <1>3 DEF Untouched, Tick, serverVars

(* Whatever the applications do, what was acknowledged before the search is *)
(* what the search has seen.                                                *)
LEMMA ServerSearch ==
  ASSUME SearchInv, ServerGoesOn, Untouched, UNCHANGED <<scanVars, ownerVars>>
  PROVE  SearchInv'
<1>1. UNCHANGED <<now, streams, names, current, request, search, conns, conn, matches, unread>>
  BY DEF scanVars, ownerVars
<1>2. ServerTypeOK' /\ clock <= clock' /\ clock \in Nat /\ clock' \in Nat
  BY DEF ServerGoesOn, SearchInv, ServerTypeOK
<1>3. ASSUME SearchOK PROVE SearchOK'
  <2>1. MinIdle' = MinIdle
    BY <1>1, OptionsStay
  <2>2. now' \in Nat /\ now' <= clock'
    BY <1>1, <1>2, <1>3 DEF SearchOK
  <2>3. \A a : Ahead(a)' <=> Ahead(a)
    BY <1>1 DEF Ahead
  <2>4. ASSUME NEW m \in Match, Judged(m) PROVE Judged(m)'
    <3>1. Settled(On(m.at))' => /\ Settled(On(m.at))
                                /\ \/ live'[On(m.at)].lastAck = live[On(m.at)].lastAck
                                   \/ live'[On(m.at)].lastAck = clock
      BY MatchFields DEF ServerGoesOn, AcksGoOn
    <3>2. clock >= now
      BY <1>2, <1>3 DEF SearchOK
    <3>3. Settled(On(m.at))' => live'[On(m.at)].lastAck = m.lastAck \/ live'[On(m.at)].lastAck >= now
      BY <2>4, <3>1, <3>2 DEF Judged
    <3>4. changes' = 0 => m.status = Status(live[On(m.at)])' 
      BY <1>1, <2>1, <2>4 DEF Untouched, Judged, Status, InUseNow, RecentAck
    <3> QED BY <1>1, <2>1, <2>4, <3>3, <3>4 DEF Judged
  <2>5. \A i \in DOMAIN matches' : ~Ahead(matches[i].at)' /\ Judged(matches[i])'
    <3> TAKE i \in DOMAIN matches'
    <3>1. PICK m : m = matches[i]
      OBVIOUS
    <3>2. m \in Match /\ ~Ahead(m.at) /\ Judged(m)
      BY <1>1, <1>3, <3>1 DEF SearchOK
    <3>3. ~Ahead(m.at)' /\ Judged(m)'
      BY <2>3, <2>4, <3>2
    <3> QED BY <1>1, <3>1, <3>3 DEF Ahead, Judged, Settled
  <2>6. \A a \in Sights : ~Overlooked(a)'
    <3> TAKE a \in Sights
    <3>1. On(a) \in Addresses
      BY Sighted
    <3>2. Settled(On(a))' => Settled(On(a))
      BY <3>1 DEF ServerGoesOn, AcksGoOn
    <3>3. ~Overlooked(a)
      BY <1>3 DEF SearchOK
    <3> QED BY <1>1, <2>3, <3>2, <3>3 DEF Overlooked, Matched
  <2>7. Place'
    BY <1>1, <1>3 DEF SearchOK, Place
  <2> QED BY <1>1, <1>3, <2>2, <2>5, <2>6, <2>7
          DEF SearchOK, Single, LatestFirst, Better, Sights, Match
<1> QED BY <1>1, <1>2, <1>3 DEF SearchInv

LEMMA StepSearchInv == SearchInv /\ [ReadNext]_readVars => SearchInv'
<1> SUFFICES ASSUME SearchInv, [ReadNext]_readVars PROVE SearchInv'
  OBVIOUS
<1>1. ServerTypeOK
  BY DEF SearchInv
<1>2. CASE request.caller = "owner" /\ SearchStep /\ UNCHANGED serverVars
  BY <1>2, SearchBegins, SearchPasses, SearchLooks, SearchEnds DEF SearchStep
<1>3. CASE request.caller # "owner" /\ ScanStep /\ UNCHANGED ownerVars /\ UNCHANGED serverVars
  <2>1. request' = request
    BY <1>3 DEF ScanStep, BeginScan, ScanFails, ScanExpires, ListConsumers, StreamFails, Classify,
           ClassifyFails, StreamDone, MarkRenames, ReportRow, ScanReturns, Propose
  <2>2. search' = search /\ matches' = matches /\ search = "idle"
    BY <1>3 DEF ownerVars, SearchInv
  <2>3. ServerTypeOK'
    BY <1>1, <1>3 DEF ServerTypeOK, serverVars
  <2> QED BY <2>1, <2>2, <2>3 DEF SearchInv
<1>4. CASE /\ UNCHANGED <<scanVars, ownerVars>>
           /\ \/ Tick \/ \E a \in Addresses : ApplicationStep(a)
              \/ UNCHANGED serverVars
  BY <1>1, <1>4, Moves, ChangesCount, ServerSearch
<1>5. \/ request.caller = "owner" /\ SearchStep /\ UNCHANGED serverVars
      \/ request.caller # "owner" /\ ScanStep /\ UNCHANGED ownerVars /\ UNCHANGED serverVars
      \/ /\ UNCHANGED <<scanVars, ownerVars>>
         /\ \/ Tick \/ \E a \in Addresses : ApplicationStep(a)
            \/ UNCHANGED serverVars
  BY DEF ReadNext, ReadStep, ScanOver, SearchOver, readVars
<1> QED BY <1>2, <1>3, <1>4, <1>5

LEMMA InitSearchInv == ReadInit => SearchInv
<1> SUFFICES ASSUME ReadInit PROVE SearchInv
  OBVIOUS
<1>1. ServerTypeOK /\ request \in Requests
  BY InitScanTyped DEF ReadInit, ScannerInit, ScanInit, ScanTyped
<1> QED BY <1>1 DEF ReadInit, OwnerInit, SearchInv

(* However many clusters are searched, some of which cannot be reached, and *)
(* whoever takes the work over meanwhile: the match named is not outdone by *)
(* an ack of before the search, every consumer that could be looked at is   *)
(* shown once, and the owner showed a sign of life (owner.go:60-127).       *)
THEOREM OwnerAlwaysTheLatest == ReadSpec => []OwnerIsTheLatest
<1>1. SearchInv => OwnerIsTheLatest
  <2> SUFFICES ASSUME SearchInv, search = "resolved" PROVE OwnerIsTheLatest
    BY DEF OwnerIsTheLatest
  <2> DEFINE active == {i \in DOMAIN matches : matches[i].status = "ACTIVE"}
             k == Min(active)
  <2>1. /\ SearchOK /\ matches \in Seq(Match) /\ Single(matches) /\ LatestFirst(matches)
        /\ now \in Nat /\ \A a : ~Ahead(a)
        /\ \A i \in DOMAIN matches : Judged(matches[i])
    BY DEF SearchInv, SearchOK, Place, Ahead
  <2>2. DOMAIN matches = 1 .. Len(matches) /\ Len(matches) \in Nat
        /\ \A i \in DOMAIN matches : matches[i] \in Match
    BY <2>1
  <2>3. active # {} => k \in active /\ \A i \in active : k <= i
    <3>1. active \in SUBSET (1 .. Len(matches))
      BY <2>2
    <3> HIDE DEF active
    <3> QED BY <2>2, <3>1, Extremes
  <2>4. Owner(matches) = IF active = {} THEN {} ELSE {matches[k]}
    BY DEF Owner
  <2> HIDE DEF k
  <2>5. ASSUME NEW a \in Sights, Settled(On(a)), FilterOf[<<a[2], a[3]>>] = Subject, a \notin unread
        PROVE  /\ Cardinality({i \in DOMAIN matches : matches[i].at = a}) = 1
               /\ live[On(a)].lastAck # 0 /\ live[On(a)].lastAck < now /\ now - live[On(a)].lastAck < MinIdle =>
                    \E o \in Owner(matches) : o.lastAck >= live[On(a)].lastAck
    <3>1. PICK i \in DOMAIN matches : matches[i].at = a
      BY <2>1, <2>5 DEF SearchOK, Overlooked, OfSubject, Matched
    <3>2. Cardinality({j \in DOMAIN matches : matches[j].at = a}) = 1
      <4> DEFINE A == {j \in DOMAIN matches : matches[j].at = a}
      <4>1. A # {} /\ \A x, y \in A : x = y
        BY <2>1, <3>1 DEF Single
      <4> HIDE DEF A
      <4>2. Cardinality(A) = 1
        BY <4>1, AtMostOne
      <4> QED BY <4>2 DEF A
    <3>3. ASSUME live[On(a)].lastAck # 0, live[On(a)].lastAck < now, now - live[On(a)].lastAck < MinIdle
          PROVE  \E o \in Owner(matches) : o.lastAck >= live[On(a)].lastAck
      <4> DEFINE m == matches[i]
                 o == matches[k]
      <4>1. m.lastAck \in Nat /\ Judged(m) /\ m.at = a
        BY <2>1, <2>2, <3>1, MatchFields
      <4> HIDE DEF m
      <4>2. live[On(a)].lastAck \in Nat
        <5>1. On(a) \in Addresses
          BY Sighted
        <5>2. live[On(a)] \in ConsumerState
          BY <5>1 DEF SearchInv, ServerTypeOK
        <5> QED BY <5>2 DEF ConsumerState
      <4>3. live[On(a)].lastAck = m.lastAck
        BY <2>1, <2>5, <3>3, <4>1, <4>2 DEF Judged
      <4>4. m.status = "ACTIVE"
        BY <3>3, <4>1, <4>3 DEF Judged
      <4>5. i \in active /\ k \in active /\ k <= i
        BY <2>3, <4>4 DEF m
      <4>6. o \in Match /\ o.status = "ACTIVE" /\ o.lastAck \in Nat /\ k \in DOMAIN matches
        BY <2>2, <4>5, MatchFields
      <4>7. o.lastAck >= m.lastAck
        <5>1. CASE k = i
          BY <4>6, <5>1 DEF m
        <5>2. CASE k # i
          <6>1. k < i
            BY <2>2, <4>5, <5>2
          <6>2. Better(o, m)
            BY <2>1, <4>6, <6>1 DEF LatestFirst, m
          <6> HIDE DEF o
          <6> QED BY <4>1, <4>4, <4>6, <6>2 DEF Better
        <5> QED BY <5>1, <5>2
      <4>8. o \in Owner(matches)
        BY <2>4, <4>5
      <4> QED BY <4>3, <4>7, <4>8
    <3> QED BY <3>2, <3>3
  <2>6. ASSUME changes = 0, NEW o \in Owner(matches)
        PROVE  InUseNow(live[On(o.at)]) \/ RecentAck(live[On(o.at)])
    <3>1. o = matches[k] /\ k \in active
      BY <2>3, <2>4
    <3>2. o.status = "ACTIVE" /\ Judged(o)
      BY <2>1, <3>1
    <3>3. Status(live[On(o.at)]) = "ACTIVE"
      BY <2>6, <3>2 DEF Judged
    <3> QED BY <3>3 DEF Status
  <2> QED BY <2>5, <2>6 DEF OwnerIsTheLatest, Sights
<1> QED BY <1>1, InitSearchInv, StepSearchInv, PTL DEF ReadSpec
=============================================================================
