------------------------------ MODULE ChatProofs ------------------------------
(***************************************************************************)
(* Proofs about ChatSync, for any devices, accounts and bounds: a row never *)
(* shows what another account wrote, and one that can be read is final.     *)
(*                                                                         *)
(* The argument: a text reaches a row from the message itself, from a       *)
(* recall of an own message, or from a bundle of another device's rows.     *)
(* Whatever waits in a queue (FitJob), to be recalled (FitRecall) or in a   *)
(* kept bundle fits the message it is for, and rows only merge what fits.   *)
(***************************************************************************)
EXTENDS ChatSync, SequenceTheorems, TLAPS

\* Whose account a published message is of.
AccountOf(n) == OwnerOf[log[n].author]
\* t may be shown as the text of n: both are published, by one account.
Fits(n, t) == n \in DOMAIN log /\ t \in DOMAIN log /\ AccountOf(t) = AccountOf(n)

GoodRow == {row \in ChatRow : row.attempts <= MaxAttempts /\ (IsReadable(row) <=> row.reason = "none")}
Rows == [Id -> GoodRow \cup {NoRow}]

RelayJob == [kind : {"relay"}, id : Id]
Bundle == [kind : {"bundle"}, by : Device, epoch : Nat, isRetry : BOOLEAN,
           items : UNION {[S -> Id] : S \in SUBSET Id}]

FitRelay == {job \in RelayJob : job.id \in DOMAIN log}
FitBundle == {b \in Bundle : \A n \in DOMAIN b.items : Fits(n, b.items[n])}
FitJob == FitRelay \cup {RetryJob} \cup FitBundle

\* The own messages of a device's account, to recall for echoes.
FitRecall(d) == {n \in Id : n \in DOMAIN log /\ AccountOf(n) = OwnerOf[d]}

\* What a row may show.
RowFits(n, row) == Stored(row) => n \in DOMAIN log /\ (IsReadable(row) => Fits(n, row.text))
RowsFit(rows) == \A n \in Id : RowFits(n, rows[n])

ChatShape ==
    /\ log \in Seq([author : Device, epoch : Nat]) /\ Len(log) <= MaxMsgs
    /\ \A n \in DOMAIN log : log[n].epoch \in 1..groupEpoch
    /\ groupEpoch \in Nat \ {0}
    /\ at \in [Device -> 0..groupEpoch] /\ joined \in [Device -> 0..groupEpoch]
    /\ history \in [Device -> Rows]
    /\ sending \in [Device -> 0..MaxMsgs] /\ pendingSent \in [Device -> Seq(Id)]
    /\ chain \in [Device -> Seq(FitJob)]
    /\ failedBundles \in [Device -> Seq(FitBundle)]
    /\ \A d \in Device : Len(failedBundles[d]) <= MaxBundles

TextInv == \A d \in Device :
    /\ RowsFit(history[d])
    /\ pendingSent[d] \in Seq(FitRecall(d))
    /\ sending[d] # 0 => sending[d] \in DOMAIN log /\ log[sending[d]].author = d

ChatInv == ChatShape /\ TextInv

-----------------------------------------------------------------------------
(* Rows.                                                                   *)

LEMMA MaxOfTwo ==
  ASSUME NEW a \in Nat, NEW b \in Nat
  PROVE  Max({a, b}) \in {a, b}
<1>1. \E x \in {a, b} : \A y \in {a, b} : x >= y
  <2>1. CASE a >= b
    BY <2>1
  <2>2. CASE b >= a
    BY <2>2
  <2> QED
    BY <2>1, <2>2
<1> QED
  BY <1>1 DEF Max

LEMMA NoRowUnreadable == ~IsReadable(NoRow) /\ ~Stored(NoRow) /\ NoRow \notin GoodRow
BY DEF NoRow, IsReadable, Stored, GoodRow, ChatRow

LEMMA ReadableRows ==
  ASSUME NEW t \in Id
  PROVE  ReadableRow(t) \in GoodRow /\ IsReadable(ReadableRow(t)) /\ ReadableRow(t).text = t
BY ChatBounds DEF ReadableRow, GoodRow, ChatRow, IsReadable, Id

LEMMA UnreadableRows ==
  ASSUME NEW why \in {"ahead", "not_member", "too_old", "corrupt"}, NEW k \in 0..MaxAttempts
  PROVE  UnreadableRow(why, k) \in GoodRow /\ ~IsReadable(UnreadableRow(why, k))
BY ChatBounds DEF UnreadableRow, GoodRow, ChatRow, IsReadable

\* A merge gives a row of one text that either had, and a readable row stays as it is.
LEMMA Merging ==
  ASSUME NEW old \in GoodRow \cup {NoRow}, NEW row \in GoodRow
  PROVE  /\ Merge(old, row) \in GoodRow
         /\ IsReadable(old) => Merge(old, row) = old
         /\ IsReadable(Merge(old, row)) => Merge(old, row) \in {old, row}
<1>1. CASE old = NoRow
  BY <1>1, NoRowUnreadable DEF Merge, Stored
<1>2. CASE old \in GoodRow
  <2>1. Stored(old)
    BY <1>2, NoRowUnreadable DEF Stored
  <2>2. CASE IsReadable(old)
    BY <1>2, <2>1, <2>2 DEF Merge
  <2>3. CASE ~IsReadable(old) /\ IsReadable(row)
    BY <1>2, <2>1, <2>3 DEF Merge
  <2>4. CASE ~IsReadable(old) /\ ~IsReadable(row)
    <3>1. Merge(old, row) = UnreadableRow(row.reason, Max({old.attempts, row.attempts}))
      BY <2>1, <2>4 DEF Merge
    <3>2. /\ row.reason \in {"ahead", "not_member", "too_old", "corrupt"}
          /\ old.attempts \in 0..MaxAttempts /\ row.attempts \in 0..MaxAttempts
      BY <1>2, <2>4, ChatBounds DEF GoodRow, ChatRow
    <3>3. Max({old.attempts, row.attempts}) \in 0..MaxAttempts
      BY <3>2, MaxOfTwo, ChatBounds
    <3> QED
      BY <2>4, <3>1, <3>2, <3>3, UnreadableRows
  <2> QED
    BY <2>2, <2>3, <2>4
<1> QED
  BY <1>1, <1>2

LEMMA MergedFits ==
  ASSUME NEW n \in Id, NEW old \in GoodRow \cup {NoRow}, NEW row \in GoodRow,
         RowFits(n, old), RowFits(n, row)
  PROVE  RowFits(n, Merge(old, row))
<1>1. Stored(row)
  BY NoRowUnreadable DEF Stored
<1>2. CASE IsReadable(Merge(old, row))
  BY <1>1, <1>2, Merging DEF RowFits
<1>3. CASE ~IsReadable(Merge(old, row))
  BY <1>1, <1>3 DEF RowFits
<1> QED
  BY <1>2, <1>3

LEMMA OutcomeKinds ==
  ASSUME NEW d, NEW author, NEW epoch, NEW e
  PROVE  Outcome(d, author, epoch, e) \in {"none", "ahead", "not_member", "too_old", "corrupt"}
BY DEF Outcome

LEMMA EpochsTyped ==
  ASSUME ChatShape, NEW d \in Device, NEW epoch, NEW e \in EpochsToTry(d, epoch)
  PROVE  e \in 0..groupEpoch
BY DEF EpochsToTry, ChatShape

-----------------------------------------------------------------------------
(* What a step other than a send and a commit may do.                      *)

\* What may become of the stored rows.
HistoryStep ==
    /\ history' \in [Device -> Rows]
    /\ \A d \in Device : RowsFit(history'[d])
    /\ \A d \in Device, n \in Id : IsReadable(history[d][n]) => history'[d][n] = history[d][n]

ChatMoves ==
    /\ log' = log /\ groupEpoch' = groupEpoch
    /\ at' \in [Device -> 0..groupEpoch] /\ joined' \in [Device -> 0..groupEpoch]
    /\ HistoryStep
    /\ \A d \in Device : sending'[d] \in {0, sending[d]}
    /\ sending' \in [Device -> 0..MaxMsgs] /\ pendingSent' \in [Device -> Seq(Id)]
    /\ \A d \in Device : pendingSent'[d] \in Seq(FitRecall(d))
    /\ chain' \in [Device -> Seq(FitJob)]
    /\ failedBundles' \in [Device -> Seq(FitBundle)]
    /\ \A d \in Device : Len(failedBundles'[d]) <= MaxBundles

LEMMA SameLogFits ==
  ASSUME log' = log
  PROVE  /\ FitJob' = FitJob /\ FitBundle' = FitBundle
         /\ \A d : FitRecall(d)' = FitRecall(d)
<1>1. FitBundle' = FitBundle
  BY DEF FitBundle, Fits, AccountOf
<1>2. FitRelay' = FitRelay
  BY DEF FitRelay
<1>3. \A d : FitRecall(d)' = FitRecall(d)
  BY DEF FitRecall, AccountOf
<1> QED
  BY <1>1, <1>2, <1>3 DEF FitJob

LEMMA MovesKeep ==
  ASSUME ChatInv, ChatMoves
  PROVE  ChatInv'
<1>1. log' = log /\ groupEpoch' = groupEpoch
  BY DEF ChatMoves
<1>2. FitJob' = FitJob /\ FitBundle' = FitBundle
  BY <1>1, SameLogFits
<1>3. ChatShape'
  BY <1>1, <1>2 DEF ChatInv, ChatShape, ChatMoves, HistoryStep
<1>4. ASSUME NEW d \in Device
      PROVE  /\ RowsFit(history[d])' /\ (pendingSent[d] \in Seq(FitRecall(d)))'
             /\ (sending[d] # 0 => sending[d] \in DOMAIN log /\ log[sending[d]].author = d)'
  <2>1. RowsFit(history[d])'
    <3>1. RowsFit(history'[d])
      BY DEF ChatMoves, HistoryStep
    <3> QED
      BY ONLY <1>1, <3>1 DEF RowsFit, RowFits, Fits, AccountOf
  <2>2. (pendingSent[d] \in Seq(FitRecall(d)))'
    <3>1. FitRecall(d)' = FitRecall(d)
      BY <1>1, SameLogFits
    <3> QED
      BY <3>1 DEF ChatMoves
  <2>3. (sending[d] # 0 => sending[d] \in DOMAIN log /\ log[sending[d]].author = d)'
    BY <1>1 DEF ChatMoves, ChatInv, TextInv
  <2> QED
    BY <2>1, <2>2, <2>3
<1>5. TextInv'
  BY <1>4 DEF TextInv
<1> QED
  BY <1>3, <1>5 DEF ChatInv

LEMMA RowsStay ==
  ASSUME ChatInv, history' = history
  PROVE  HistoryStep
BY DEF ChatInv, ChatShape, TextInv, HistoryStep

LEMMA Storing ==
  ASSUME ChatInv, NEW d \in Device, NEW n \in Id, NEW row \in GoodRow, RowFits(n, row), Store(d, n, row)
  PROVE  HistoryStep
<1>1. history' = [history EXCEPT ![d] = [@ EXCEPT ![n] = Merge(history[d][n], row)]]
  BY DEF Store, ChatInv, ChatShape
<1>2. history[d] \in Rows /\ history \in [Device -> Rows]
  BY DEF ChatInv, ChatShape
<1>3. history[d][n] \in GoodRow \cup {NoRow} /\ RowFits(n, history[d][n])
  BY <1>2 DEF Rows, ChatInv, TextInv, RowsFit
<1>4. /\ Merge(history[d][n], row) \in GoodRow
      /\ IsReadable(history[d][n]) => Merge(history[d][n], row) = history[d][n]
      /\ RowFits(n, Merge(history[d][n], row))
  BY <1>3, Merging, MergedFits
<1>5. history' \in [Device -> Rows]
  BY <1>1, <1>2, <1>4 DEF Rows
<1>6. \A c \in Device, k \in Id : history'[c][k] = IF c = d /\ k = n THEN Merge(history[d][n], row)
                                                 ELSE history[c][k]
  BY <1>1, <1>2 DEF Rows
<1>7. \A c \in Device : RowsFit(history'[c])
  BY <1>4, <1>6 DEF RowsFit, ChatInv, TextInv
<1> QED
  BY <1>4, <1>5, <1>6, <1>7 DEF HistoryStep

-----------------------------------------------------------------------------
(* The queue of decrypts.                                                  *)

LEMMA RetryFits ==
  ASSUME NEW queue \in Seq(FitJob)
  PROVE  WithRetry(queue) \in Seq(FitJob)
<1>1. RetryJob \in FitJob
  BY DEF FitJob
<1> QED
  BY <1>1, AppendProperties DEF WithRetry, Enqueue

LEMMA RetriedBundle ==
  ASSUME NEW b \in FitBundle
  PROVE  [b EXCEPT !.isRetry = TRUE] \in FitBundle
<1>1. b \in Bundle
  BY DEF FitBundle
<1>2. [b EXCEPT !.isRetry = TRUE] \in Bundle /\ [b EXCEPT !.isRetry = TRUE].items = b.items
  BY <1>1 DEF Bundle
<1> QED
  BY <1>2 DEF FitBundle

LEMMA GroupChangeFits ==
  ASSUME ChatShape, NEW d \in Device, NEW queue \in Seq(FitJob)
  PROVE  GroupChanged(d, queue) \in Seq(FitJob)
<1> DEFINE kept == failedBundles[d]
           again == [i \in DOMAIN kept |-> [kept[i] EXCEPT !.isRetry = TRUE]]
<1>1. kept \in Seq(FitBundle)
  BY DEF ChatShape
<1>2. DOMAIN kept = 1..Len(kept) /\ Len(kept) \in Nat /\ \A i \in 1..Len(kept) : kept[i] \in FitBundle
  BY <1>1, LenProperties
<1>3. again \in [1..Len(kept) -> FitJob]
  BY <1>2, RetriedBundle DEF FitJob
<1>4. again \in Seq(FitJob)
  BY <1>2, <1>3
<1> QED
  BY <1>4, RetryFits, ConcatProperties DEF GroupChanged

LEMMA Advancing ==
  ASSUME ChatShape, NEW d \in Device, NEW e \in 0..groupEpoch, NEW queue \in Seq(FitJob),
         Advance(d, e, queue)
  PROVE  at' \in [Device -> 0..groupEpoch] /\ chain' \in [Device -> Seq(FitJob)]
BY GroupChangeFits DEF Advance, ChatShape

LEMMA TailFits ==
  ASSUME ChatShape, NEW d \in Device, chain[d] # <<>>
  PROVE  Head(chain[d]) \in FitJob /\ Tail(chain[d]) \in Seq(FitJob)
<1>1. chain[d] \in Seq(FitJob)
  BY DEF ChatShape
<1> QED
  BY <1>1, HeadTailProperties

LEMMA KindsOfJob ==
  ASSUME NEW job \in FitJob
  PROVE  /\ job.kind = "relay" => job \in FitRelay
         /\ job.kind = "bundle" => job \in FitBundle
BY DEF FitJob, RetryJob, FitRelay, FitBundle, RelayJob, Bundle

LEMMA BundlesForgotten ==
  ASSUME ChatShape, NEW d \in Device, NEW P \in BOOLEAN,
         failedBundles' = IF P THEN failedBundles ELSE [failedBundles EXCEPT ![d] = <<>>]
  PROVE  /\ failedBundles' \in [Device -> Seq(FitBundle)]
         /\ \A c \in Device : Len(failedBundles'[c]) <= MaxBundles
<1>1. <<>> \in Seq(FitBundle) /\ Len(<<>>) <= MaxBundles
  BY ChatBounds, EmptySeq
<1>2. CASE P
  BY <1>2 DEF ChatShape
<1>3. CASE ~P
  BY <1>1, <1>3 DEF ChatShape
<1> QED
  BY <1>2, <1>3

-----------------------------------------------------------------------------
(* The decrypts.                                                           *)

LEMMA RelayKeeps ==
  ASSUME ChatInv, NEW d \in Device, RunRelay(d)
  PROVE  ChatMoves
<1>0. ChatShape
  BY DEF ChatInv
<1> DEFINE n == Head(chain[d]).id  own == IsOwn(d, n)
<1>1. Tail(chain[d]) \in Seq(FitJob) /\ Head(chain[d]) \in FitRelay
  BY <1>0, TailFits, KindsOfJob DEF RunRelay
<1>2. n \in Id /\ n \in DOMAIN log
  BY <1>1 DEF FitRelay, RelayJob
<1>3. PICK e \in EpochsToTry(d, log[n].epoch) :
        LET why == Outcome(d, log[n].author, log[n].epoch, e)
            text == IF why = "none" THEN n ELSE IF own THEN Recalled(d) ELSE 0
        IN /\ Advance(d, e, Tail(chain[d]))
           /\ failedBundles' = IF e = at[d] THEN failedBundles ELSE [failedBundles EXCEPT ![d] = <<>>]
           /\ pendingSent' = IF why # "none" /\ own /\ pendingSent[d] # <<>>
                             THEN [pendingSent EXCEPT ![d] = Tail(@)] ELSE pendingSent
           /\ IF own /\ n \in ownSentIds[d] THEN history' = history
              ELSE Store(d, n, IF text # 0 THEN ReadableRow(text) ELSE UnreadableRow(why, 1))
  BY DEF RunRelay
<1> DEFINE why == Outcome(d, log[n].author, log[n].epoch, e)
           text == IF why = "none" THEN n ELSE IF own THEN Recalled(d) ELSE 0
           row == IF text # 0 THEN ReadableRow(text) ELSE UnreadableRow(why, 1)
<1>4. why \in {"none", "ahead", "not_member", "too_old", "corrupt"}
  BY OutcomeKinds
<1>5. at' \in [Device -> 0..groupEpoch] /\ chain' \in [Device -> Seq(FitJob)]
  BY <1>0, <1>1, <1>3, EpochsTyped, Advancing
<1>6. /\ failedBundles' \in [Device -> Seq(FitBundle)]
      /\ \A c \in Device : Len(failedBundles'[c]) <= MaxBundles
  BY <1>0, <1>3, BundlesForgotten
<1>7. pendingSent[d] \in Seq(FitRecall(d)) /\ pendingSent[d] \in Seq(Id) /\ RowsFit(history[d])
  BY DEF ChatInv, TextInv, ChatShape
<1>8. text # 0 => text \in Id /\ Fits(n, text)
  <2>1. CASE why = "none"
    BY <1>2, <2>1 DEF Fits
  <2>2. CASE why # "none" /\ own /\ pendingSent[d] # <<>>
    <3>1. Head(pendingSent[d]) \in FitRecall(d)
      BY <1>7, <2>2, HeadTailProperties
    <3>2. AccountOf(n) = OwnerOf[d]
      BY <2>2 DEF IsOwn, AccountOf
    <3> QED
      BY <1>2, <2>2, <3>1, <3>2 DEF Recalled, FitRecall, Fits
  <2>3. CASE why # "none" /\ (~own \/ pendingSent[d] = <<>>)
    BY <2>3 DEF Recalled
  <2> QED
    BY <2>1, <2>2, <2>3
<1>9. why = "none" => text # 0
  BY <1>2, ChatBounds DEF Id
<1>10. row \in GoodRow /\ RowFits(n, row)
  <2>1. CASE text # 0
    BY <1>2, <1>8, <2>1, ReadableRows DEF RowFits
  <2>2. CASE text = 0
    <3>1. UnreadableRow(why, 1) \in GoodRow /\ ~IsReadable(UnreadableRow(why, 1))
      BY <1>4, <1>9, <2>2, UnreadableRows, ChatBounds
    <3> QED
      BY <1>2, <2>2, <3>1 DEF RowFits
  <2> QED
    BY <2>1, <2>2
<1>11. HistoryStep
  <2>1. history' = history \/ Store(d, n, row)
    BY <1>3
  <2> HIDE DEF row, n
  <2> QED
    BY <1>2, <1>10, <2>1, RowsStay, Storing
<1>12. /\ pendingSent' \in [Device -> Seq(Id)]
       /\ \A c \in Device : pendingSent'[c] \in Seq(FitRecall(c))
  <2>1. CASE pendingSent' = pendingSent
    BY <2>1 DEF ChatInv, ChatShape, TextInv
  <2>2. CASE pendingSent[d] # <<>> /\ pendingSent' = [pendingSent EXCEPT ![d] = Tail(@)]
    <3>1. Tail(pendingSent[d]) \in Seq(FitRecall(d)) /\ Tail(pendingSent[d]) \in Seq(Id)
      BY <1>7, <2>2, HeadTailProperties
    <3> QED
      BY <2>2, <3>1 DEF ChatInv, ChatShape, TextInv
  <2> QED
    BY <1>3, <2>1, <2>2
<1> QED
  BY <1>0, <1>5, <1>6, <1>11, <1>12 DEF RunRelay, ChatMoves, ChatShape

LEMMA RetryKeeps ==
  ASSUME ChatInv, NEW d \in Device, RunRetry(d)
  PROVE  ChatMoves
<1>0. ChatShape
  BY DEF ChatInv
<1> DEFINE retry == {n \in Id : IsRetryable(history[d][n])}
<1>1. Tail(chain[d]) \in Seq(FitJob)
  BY <1>0, TailFits DEF RunRetry
<1>2. PICK e \in {at[d]} \cup UNION {EpochsToTry(d, log[n].epoch) : n \in retry} :
        LET retried(n) == LET why == Outcome(d, log[n].author, log[n].epoch, e)
                          IN IF why = "none" THEN ReadableRow(n)
                             ELSE UnreadableRow(why, history[d][n].attempts + 1)
            after == [n \in Id |-> IF n \in retry THEN Merge(history[d][n], retried(n)) ELSE history[d][n]]
        IN /\ history' = [history EXCEPT ![d] = after]
           /\ Advance(d, e, Tail(chain[d]))
           /\ failedBundles' = IF e = at[d] THEN failedBundles ELSE [failedBundles EXCEPT ![d] = <<>>]
  BY DEF RunRetry
<1> DEFINE why(n) == Outcome(d, log[n].author, log[n].epoch, e)
           retried(n) == IF why(n) = "none" THEN ReadableRow(n)
                         ELSE UnreadableRow(why(n), history[d][n].attempts + 1)
           after == [n \in Id |-> IF n \in retry THEN Merge(history[d][n], retried(n)) ELSE history[d][n]]
<1>3. e \in 0..groupEpoch
  BY <1>0, EpochsTyped DEF ChatShape
<1>4. at' \in [Device -> 0..groupEpoch] /\ chain' \in [Device -> Seq(FitJob)]
  BY <1>0, <1>1, <1>2, <1>3, Advancing
<1>5. /\ failedBundles' \in [Device -> Seq(FitBundle)]
      /\ \A c \in Device : Len(failedBundles'[c]) <= MaxBundles
  BY <1>0, <1>2, BundlesForgotten
<1>6. history \in [Device -> Rows] /\ \A c \in Device : RowsFit(history[c])
  BY DEF ChatInv, ChatShape, TextInv
<1>7. ASSUME NEW n \in Id
      PROVE  /\ after[n] \in GoodRow \cup {NoRow} /\ RowFits(n, after[n])
             /\ IsReadable(history[d][n]) => after[n] = history[d][n]
  <2>1. history[d][n] \in GoodRow \cup {NoRow} /\ RowFits(n, history[d][n])
    BY <1>6 DEF Rows, RowsFit
  <2>2. CASE n \notin retry
    BY <2>1, <2>2
  <2>3. CASE n \in retry
    <3>1. Stored(history[d][n]) /\ history[d][n] \in GoodRow /\ history[d][n].attempts < MaxAttempts
      BY <2>1, <2>3, NoRowUnreadable DEF IsRetryable
    <3>2. n \in DOMAIN log
      BY <2>1, <3>1 DEF RowFits
    <3>3. retried(n) \in GoodRow /\ RowFits(n, retried(n))
      <4>1. CASE why(n) = "none"
        BY <3>2, <4>1, ReadableRows DEF RowFits, Fits
      <4>2. CASE why(n) # "none"
        <5>1. history[d][n].attempts + 1 \in 0..MaxAttempts
          BY <3>1, ChatBounds DEF GoodRow, ChatRow
        <5>2. why(n) \in {"ahead", "not_member", "too_old", "corrupt"}
          BY <4>2, OutcomeKinds
        <5> QED
          BY <3>2, <4>2, <5>1, <5>2, UnreadableRows DEF RowFits
      <4> QED
        BY <4>1, <4>2
    <3>4. after[n] = Merge(history[d][n], retried(n))
      BY <2>3
    <3> HIDE DEF retried, after
    <3> QED
      BY <2>1, <3>3, <3>4, Merging, MergedFits
  <2> QED
    BY <2>2, <2>3
<1>8. history' = [history EXCEPT ![d] = after]
  BY <1>2
<1>9. after \in Rows
  BY <1>7 DEF Rows
<1> HIDE DEF after
<1>10. HistoryStep
  <2>1. \A c \in Device : history'[c] = IF c = d THEN after ELSE history[c]
    BY <1>6, <1>8
  <2> QED
    BY <1>6, <1>7, <1>8, <1>9, <2>1 DEF HistoryStep, RowsFit
<1> QED
  BY <1>0, <1>4, <1>5, <1>10 DEF RunRetry, ChatMoves, ChatShape, ChatInv, TextInv

LEMMA BundleKeeps ==
  ASSUME ChatInv, NEW d \in Device, RunBundle(d)
  PROVE  ChatMoves
<1>0. ChatShape
  BY DEF ChatInv
<1> DEFINE bundle == Head(chain[d])
<1>1. Tail(chain[d]) \in Seq(FitJob) /\ bundle \in FitBundle
  BY <1>0, TailFits, KindsOfJob DEF RunBundle
<1>2. PICK e \in EpochsToTry(d, bundle.epoch) :
        LET why == Outcome(d, bundle.by, bundle.epoch, e)
            before == IF e = at[d] THEN failedBundles[d] ELSE <<>>
        IN /\ Advance(d, e, Tail(chain[d]))
           /\ history' = IF why # "none" THEN history
                         ELSE [history EXCEPT ![d] =
                                 [n \in Id |-> IF n \in DOMAIN bundle.items
                                               THEN Merge(@[n], ReadableRow(bundle.items[n])) ELSE @[n]]]
           /\ failedBundles' =
                [failedBundles EXCEPT ![d] =
                    IF /\ why \notin {"none"} \cup TERMINAL_FAIL_REASONS
                       /\ ~bundle.isRetry /\ Len(before) < MaxBundles
                    THEN Append(before, bundle) ELSE before]
  BY DEF RunBundle
<1> DEFINE before == IF e = at[d] THEN failedBundles[d] ELSE <<>>
           after == [n \in Id |-> IF n \in DOMAIN bundle.items
                                  THEN Merge(history[d][n], ReadableRow(bundle.items[n])) ELSE history[d][n]]
<1>3. at' \in [Device -> 0..groupEpoch] /\ chain' \in [Device -> Seq(FitJob)]
  BY <1>0, <1>1, <1>2, EpochsTyped, Advancing
<1>4. /\ failedBundles' \in [Device -> Seq(FitBundle)]
      /\ \A c \in Device : Len(failedBundles'[c]) <= MaxBundles
  <2>1. before \in Seq(FitBundle) /\ Len(before) \in Nat /\ Len(before) <= MaxBundles
    BY <1>0, ChatBounds, EmptySeq, LenProperties DEF ChatShape
  <2>2. Append(before, bundle) \in Seq(FitBundle) /\ Len(Append(before, bundle)) = Len(before) + 1
    BY <1>1, <2>1, AppendProperties
  <2> DEFINE why == Outcome(d, bundle.by, bundle.epoch, e)
             kept == IF /\ why \notin {"none"} \cup TERMINAL_FAIL_REASONS
                        /\ ~bundle.isRetry /\ Len(before) < MaxBundles
                     THEN Append(before, bundle) ELSE before
  <2>3. /\ failedBundles' = [failedBundles EXCEPT ![d] = kept]
        /\ kept = before \/ (kept = Append(before, bundle) /\ Len(before) < MaxBundles)
    BY <1>2
  <2> HIDE DEF kept, before
  <2>4. kept \in Seq(FitBundle) /\ Len(kept) <= MaxBundles
    BY <2>1, <2>2, <2>3, ChatBounds
  <2> QED
    BY <1>0, <2>3, <2>4 DEF ChatShape
<1>5. history \in [Device -> Rows] /\ \A c \in Device : RowsFit(history[c])
  BY DEF ChatInv, ChatShape, TextInv
<1>6. ASSUME NEW n \in Id
      PROVE  /\ after[n] \in GoodRow \cup {NoRow} /\ RowFits(n, after[n])
             /\ IsReadable(history[d][n]) => after[n] = history[d][n]
  <2>1. history[d][n] \in GoodRow \cup {NoRow} /\ RowFits(n, history[d][n])
    BY <1>5 DEF Rows, RowsFit
  <2>2. CASE n \notin DOMAIN bundle.items
    BY <2>1, <2>2
  <2>3. CASE n \in DOMAIN bundle.items
    <3> DEFINE row == ReadableRow(bundle.items[n])
    <3>1. bundle.items[n] \in Id /\ Fits(n, bundle.items[n])
      BY <1>1, <2>3 DEF FitBundle, Bundle
    <3>2. row \in GoodRow /\ RowFits(n, row)
      BY <3>1, ReadableRows DEF RowFits, Fits
    <3>3. after[n] = Merge(history[d][n], row)
      BY <2>3
    <3> HIDE DEF row, after
    <3> QED
      BY <2>1, <3>2, <3>3, Merging, MergedFits
  <2> QED
    BY <2>2, <2>3
<1>7. history' = history \/ history' = [history EXCEPT ![d] = after]
  BY <1>2, <1>5
<1>8. after \in Rows
  BY <1>6 DEF Rows
<1> HIDE DEF after
<1>9. HistoryStep
  <2>1. CASE history' = history
    BY <2>1, RowsStay
  <2>2. CASE history' = [history EXCEPT ![d] = after]
    <3>1. \A c \in Device : history'[c] = IF c = d THEN after ELSE history[c]
      BY <1>5, <2>2
    <3> QED
      BY <1>5, <1>6, <1>8, <2>2, <3>1 DEF HistoryStep, RowsFit
  <2> QED
    BY <1>7, <2>1, <2>2
<1> QED
  BY <1>0, <1>3, <1>4, <1>9 DEF RunBundle, ChatMoves, ChatShape, ChatInv, TextInv

-----------------------------------------------------------------------------
(* The rest.                                                               *)

LEMMA GroupChangesKeep ==
  ASSUME ChatInv, NEW d \in Device, GroupChanges(d)
  PROVE  ChatMoves
<1>0. ChatShape
  BY DEF ChatInv
<1>1. chain[d] \in Seq(FitJob) /\ groupEpoch \in 0..groupEpoch
  BY <1>0 DEF ChatShape
<1>2. at' \in [Device -> 0..groupEpoch] /\ chain' \in [Device -> Seq(FitJob)]
  BY <1>0, <1>1, Advancing DEF GroupChanges
<1>3. joined' \in [Device -> 0..groupEpoch]
  BY <1>0, <1>1 DEF GroupChanges, ChatShape
<1>4. /\ failedBundles' \in [Device -> Seq(FitBundle)]
      /\ \A c \in Device : Len(failedBundles'[c]) <= MaxBundles
  BY <1>0, BundlesForgotten DEF GroupChanges
<1>5. HistoryStep
  BY RowsStay DEF GroupChanges
<1> QED
  BY <1>0, <1>2, <1>3, <1>4, <1>5 DEF GroupChanges, ChatMoves, ChatShape, ChatInv, TextInv

\* The text of a message that was sent is recalled for its echo by its own account only.
LEMMA SentKeeps ==
  ASSUME ChatInv, NEW d \in Device, Sent(d)
  PROVE  ChatMoves
<1>0. ChatShape
  BY DEF ChatInv
<1> DEFINE n == sending[d]
<1>1. n \in Id /\ n \in DOMAIN log /\ log[n].author = d
  BY <1>0, ChatBounds DEF Sent, ChatShape, ChatInv, TextInv, Id
<1>2. n \in FitRecall(d)
  BY <1>1 DEF FitRecall, AccountOf
<1>3. ReadableRow(n) \in GoodRow /\ RowFits(n, ReadableRow(n))
  BY <1>1, ReadableRows DEF RowFits, Fits
<1>4. HistoryStep
  BY <1>1, <1>3, Storing DEF Sent
<1>5. pendingSent[d] \in Seq(FitRecall(d)) /\ pendingSent[d] \in Seq(Id)
  BY <1>0 DEF ChatInv, TextInv, ChatShape
<1>6. Append(pendingSent[d], n) \in Seq(FitRecall(d)) /\ Append(pendingSent[d], n) \in Seq(Id)
  BY <1>1, <1>2, <1>5, AppendProperties
<1>7. /\ pendingSent' \in [Device -> Seq(Id)]
      /\ \A c \in Device : pendingSent'[c] \in Seq(FitRecall(c))
  BY <1>0, <1>6 DEF Sent, ChatShape, ChatInv, TextInv
<1> QED
  BY <1>0, <1>4, <1>7, ChatBounds DEF Sent, ChatMoves, ChatShape

LEMMA AnswerFits ==
  ASSUME ChatInv, NEW c \in Device, AnswerAsk(c)
  PROVE  ChatMoves
<1>0. ChatShape
  BY DEF ChatInv
<1>1. PICK request \in asked[c] :
        LET reply == ReplyRows(history[c], request.since)
            bundle == [kind |-> "bundle", by |-> c, epoch |-> at[c], isRetry |-> FALSE,
                       items |-> [n \in reply |-> history[c][n].text]]
        IN chain' = [d \in Device |-> IF d \in online /\ OwnerOf[d] = request.by
                                      THEN Enqueue(chain[d], bundle) ELSE chain[d]]
  BY DEF AnswerAsk
<1> DEFINE reply == ReplyRows(history[c], request.since)
           bundle == [kind |-> "bundle", by |-> c, epoch |-> at[c], isRetry |-> FALSE,
                      items |-> [n \in reply |-> history[c][n].text]]
<1>2. reply \subseteq Readable(history[c])
  BY DEF ReplyRows
<1>3. ASSUME NEW n \in reply
      PROVE  n \in Id /\ history[c][n].text \in Id /\ Fits(n, history[c][n].text)
  <2>1. n \in Id /\ IsReadable(history[c][n])
    BY <1>2 DEF Readable
  <2>2. history[c][n] \in GoodRow /\ RowFits(n, history[c][n]) /\ Stored(history[c][n])
    BY <1>0, <2>1, NoRowUnreadable DEF ChatShape, Rows, ChatInv, TextInv, RowsFit, Stored
  <2>3. history[c][n].text \in Id
    BY <2>1, <2>2, ChatBounds DEF GoodRow, ChatRow, IsReadable, Id
  <2> QED
    BY <2>1, <2>2, <2>3 DEF RowFits
<1>4. [n \in reply |-> history[c][n].text] \in [reply -> Id] /\ reply \in SUBSET Id
  BY <1>3
<1>5. at[c] \in Nat
  BY <1>0 DEF ChatShape
<1>6. bundle \in Bundle
  BY <1>4, <1>5 DEF Bundle
<1>7. bundle \in FitBundle
  BY <1>3, <1>6 DEF FitBundle
<1> HIDE DEF bundle
<1>8. \A d \in Device : Enqueue(chain[d], bundle) \in Seq(FitJob)
  BY <1>0, <1>7, AppendProperties DEF Enqueue, FitJob, ChatShape
<1>9. chain' = [d \in Device |-> IF d \in online /\ OwnerOf[d] = request.by
                                 THEN Enqueue(chain[d], bundle) ELSE chain[d]]
  BY <1>1 DEF bundle
<1>10. chain' \in [Device -> Seq(FitJob)]
  BY <1>0, <1>8, <1>9 DEF ChatShape
<1> QED
  BY <1>0, <1>10, RowsStay DEF AnswerAsk, ChatMoves, ChatShape, ChatInv, TextInv

LEMMA RestartKeeps ==
  ASSUME ChatInv, NEW d \in Device, RestartDevice(d)
  PROVE  ChatMoves
<1>0. ChatShape
  BY DEF ChatInv
<1>1. <<RetryJob>> \in Seq(FitJob)
  BY DEF FitJob
<1>2. <<>> \in Seq(Id) /\ <<>> \in Seq(FitRecall(d)) /\ <<>> \in Seq(FitBundle) /\ Len(<<>>) <= MaxBundles
  BY ChatBounds, EmptySeq
<1>3. chain' \in [Device -> Seq(FitJob)]
  BY <1>0, <1>1 DEF RestartDevice, ChatShape
<1>4. /\ failedBundles' \in [Device -> Seq(FitBundle)]
      /\ \A c \in Device : Len(failedBundles'[c]) <= MaxBundles
  BY <1>0, <1>2 DEF RestartDevice, ChatShape
<1>5. /\ pendingSent' \in [Device -> Seq(Id)]
      /\ \A c \in Device : pendingSent'[c] \in Seq(FitRecall(c))
  BY <1>0, <1>2 DEF RestartDevice, ChatShape, ChatInv, TextInv
<1>6. sending' \in [Device -> 0..MaxMsgs] /\ \A c \in Device : sending'[c] \in {0, sending[c]}
  BY <1>0, ChatBounds DEF RestartDevice, ChatShape
<1>7. HistoryStep
  BY RowsStay DEF RestartDevice
<1> QED
  BY <1>0, <1>3, <1>4, <1>5, <1>6, <1>7 DEF RestartDevice, ChatMoves, ChatShape

\* Steps that leave all of this alone.
LEMMA OthersKeep ==
  ASSUME ChatInv, NEW d \in Device,
         SendFails(d) \/ Ask(d) \/ SkipAsk(d) \/ Disconnect(d) \/ Connect(d)
  PROVE  ChatMoves
<1>1. UNCHANGED <<log, groupEpoch, at, joined, history, chain, pendingSent, failedBundles>>
  BY DEF SendFails, Ask, SkipAsk, Disconnect, Connect, deviceVars
<1>2. sending' \in [Device -> 0..MaxMsgs] /\ \A c \in Device : sending'[c] \in {0, sending[c]}
  <2>1. CASE sending' = sending
    BY <2>1 DEF ChatInv, ChatShape
  <2>2. CASE SendFails(d)
    BY <2>2, ChatBounds DEF SendFails, ChatInv, ChatShape
  <2> QED
    BY <2>1, <2>2 DEF Ask, SkipAsk, Disconnect, Connect, deviceVars
<1>3. HistoryStep
  BY <1>1, RowsStay
<1> QED
  BY <1>1, <1>2, <1>3 DEF ChatMoves, ChatInv, ChatShape, TextInv

\* A send publishes one message more; whatever fitted the log still does.
LEMMA SendKeeps ==
  ASSUME ChatInv, NEW d \in Device, Send(d)
  PROVE  ChatInv' /\ history' = history
<1>0. ChatShape
  BY DEF ChatInv
<1> DEFINE m == Len(log) + 1
           entry == [author |-> d, epoch |-> at[d]]
           Entry == [author : Device, epoch : Nat]
<1>1. /\ log \in Seq(Entry) /\ Len(log) \in Nat /\ DOMAIN log = 1..Len(log)
      /\ entry \in Entry /\ entry.epoch \in 1..groupEpoch
  BY <1>0, LenProperties DEF Send, ChatShape
<1>2. /\ log' = Append(log, entry) /\ log' \in Seq(Entry) /\ Len(log') = m
      /\ log'[m] = entry /\ \A n \in DOMAIN log : log'[n] = log[n]
      /\ DOMAIN log' = 1..m
  BY <1>1, AppendProperties, LenProperties DEF Send
<1>3. m \in Id /\ m \in DOMAIN log' /\ m \in Nat /\ m # 0 /\ m <= MaxMsgs
  BY <1>1, <1>2, ChatBounds DEF Send, Id
<1>4. /\ \A n, t : Fits(n, t) => Fits(n, t)'
      /\ \A n \in DOMAIN log : n \in DOMAIN log'
  BY <1>1, <1>2 DEF Fits, AccountOf
<1>5. FitBundle \subseteq FitBundle' /\ FitRelay \subseteq FitRelay' /\ FitJob \subseteq FitJob'
  <2>1. FitBundle \subseteq FitBundle'
    BY <1>4 DEF FitBundle
  <2>2. FitRelay \subseteq FitRelay'
    BY <1>4 DEF FitRelay
  <2> QED
    BY <2>1, <2>2 DEF FitJob
<1>6. \A c \in Device : FitRecall(c) \subseteq FitRecall(c)'
  BY <1>2, <1>4 DEF FitRecall, AccountOf
<1>7. [kind |-> "relay", id |-> m] \in FitJob'
  BY <1>3 DEF FitJob, FitRelay, RelayJob
<1>8. chain' \in [Device -> Seq(FitJob')]
  <2>1. \A c \in Device : chain[c] \in Seq(FitJob')
    BY <1>0, <1>5, SeqMonotonic DEF ChatShape
  <2>2. \A c \in Device : Append(chain[c], [kind |-> "relay", id |-> m]) \in Seq(FitJob')
    BY <1>7, <2>1, AppendProperties
  <2>3. chain' = [c \in Device |-> IF c \in online THEN Append(chain[c], [kind |-> "relay", id |-> m])
                                   ELSE chain[c]]
    BY DEF Send, Publish, Enqueue
  <2> QED
    BY <2>1, <2>2, <2>3
<1>9. /\ failedBundles' \in [Device -> Seq(FitBundle')]
      /\ \A c \in Device : Len(failedBundles'[c]) <= MaxBundles
  BY <1>0, <1>5, SeqMonotonic DEF Send, ChatShape
<1>10. \A n \in DOMAIN log' : log'[n].epoch \in 1..groupEpoch'
  <2>1. groupEpoch' = groupEpoch /\ \A n \in DOMAIN log : log[n].epoch \in 1..groupEpoch
    BY <1>0 DEF Send, ChatShape
  <2>2. \A n \in DOMAIN log' : n \in DOMAIN log \/ n = m
    BY ONLY <1>1, <1>2
  <2> QED
    BY <1>1, <1>2, <2>1, <2>2
<1>11. sending' \in [Device -> 0..MaxMsgs] /\ sending' = [sending EXCEPT ![d] = m]
  BY <1>0, <1>3, ChatBounds DEF Send, ChatShape
<1>12. ChatShape'
  <2>1. UNCHANGED <<groupEpoch, at, joined, history, pendingSent>>
    BY DEF Send
  <2>2. Len(log') <= MaxMsgs
    BY <1>2, <1>3
  <2> QED
    BY <1>0, <1>2, <1>8, <1>9, <1>10, <1>11, <2>1, <2>2 DEF ChatShape
<1>13. TextInv'
  <2> SUFFICES ASSUME NEW c \in Device
               PROVE  /\ RowsFit(history[c])'
                      /\ pendingSent'[c] \in Seq(FitRecall(c)')
                      /\ sending'[c] # 0 => sending'[c] \in DOMAIN log' /\ log'[sending'[c]].author = c
    BY DEF TextInv
  <2>1. history' = history /\ pendingSent' = pendingSent
    BY DEF Send
  <2>2. RowsFit(history[c])'
    BY <1>4, <2>1 DEF ChatInv, TextInv, RowsFit, RowFits
  <2>3. pendingSent'[c] \in Seq(FitRecall(c)')
    BY <1>6, <2>1, SeqMonotonic DEF ChatInv, TextInv
  <2>4. sending'[c] # 0 => sending'[c] \in DOMAIN log' /\ log'[sending'[c]].author = c
    <3>1. CASE c = d
      BY <1>0, <1>2, <1>3, <1>11, <3>1 DEF ChatShape
    <3>2. CASE c # d
      BY <1>0, <1>2, <1>4, <1>11, <3>2 DEF ChatShape, ChatInv, TextInv
    <3> QED
      BY <3>1, <3>2
  <2> QED
    BY <2>2, <2>3, <2>4
<1> QED
  BY <1>12, <1>13 DEF ChatInv, Send

LEMMA CommitKeeps ==
  ASSUME ChatInv, Commit
  PROVE  ChatInv' /\ history' = history
<1>0. ChatShape
  BY DEF ChatInv
<1>1. UNCHANGED <<log, at, joined, history, chain, sending, pendingSent, failedBundles>>
  BY DEF Commit, deviceVars
<1>2. groupEpoch' \in Nat \ {0} /\ 0..groupEpoch \subseteq 0..groupEpoch' /\ 1..groupEpoch \subseteq 1..groupEpoch'
  BY <1>0 DEF Commit, ChatShape
<1>3. at' \in [Device -> 0..groupEpoch'] /\ joined' \in [Device -> 0..groupEpoch']
  BY <1>0, <1>1, <1>2 DEF ChatShape
<1>4. ChatShape'
  BY <1>0, <1>1, <1>2, <1>3 DEF ChatShape, FitJob, FitRelay, FitBundle, Fits, AccountOf
<1>5. TextInv'
  BY <1>1 DEF ChatInv, TextInv, RowsFit, RowFits, FitRecall, Fits, AccountOf
<1> QED
  BY <1>1, <1>4, <1>5 DEF ChatInv

LEMMA ChatStepKeeps ==
  ASSUME ChatInv, [ChatNext]_chatVars
  PROVE  /\ ChatInv'
         /\ \A d \in Device, n \in Id : IsReadable(history[d][n]) => history'[d][n] = history[d][n]
<1> DEFINE Kept == \A d \in Device, n \in Id : IsReadable(history[d][n]) => history'[d][n] = history[d][n]
<1>1. ASSUME NEW d \in Device, ChatStep(d), ~Send(d) PROVE ChatMoves
  BY <1>1, RelayKeeps, RetryKeeps, BundleKeeps, GroupChangesKeep, SentKeeps, AnswerFits, RestartKeeps, OthersKeep
     DEF ChatStep
<1>2. ChatMoves => Kept
  BY DEF ChatMoves, HistoryStep
<1>3. history' = history => Kept
  OBVIOUS
<1>4. CASE UNCHANGED chatVars
  <2>1. UNCHANGED <<log, groupEpoch, at, joined, history, chain, sending, pendingSent, failedBundles>>
    BY <1>4 DEF chatVars, deviceVars
  <2>2. ChatMoves
    BY <2>1, RowsStay DEF ChatMoves, ChatInv, ChatShape, TextInv
  <2> QED
    BY <1>2, <2>2, MovesKeep
<1>5. CASE Commit
  BY <1>3, <1>5, CommitKeeps
<1>6. ASSUME NEW d \in Device, Send(d) PROVE ChatInv' /\ Kept
  BY <1>3, <1>6, SendKeeps
<1> QED
  BY <1>1, <1>2, <1>4, <1>5, <1>6, MovesKeep DEF ChatNext

LEMMA ChatInitFits == ChatInit => ChatInv
<1> SUFFICES ASSUME ChatInit PROVE ChatInv
  OBVIOUS
<1>1. /\ log = <<>> /\ groupEpoch = 1
      /\ \A S : <<>> \in Seq(S) /\ Len(<<>>) = 0
  BY EmptySeq DEF ChatInit
<1>2. at \in [Device -> 0..1] /\ joined \in [Device -> 0..1]
  BY ChatBounds DEF ChatInit
<1>3. history \in [Device -> Rows] /\ \A d \in Device, n \in Id : history[d][n] = NoRow
  BY DEF ChatInit, Rows
<1>4. ChatShape
  BY <1>1, <1>2, <1>3, ChatBounds DEF ChatInit, ChatShape
<1>5. TextInv
  BY <1>1, <1>3, NoRowUnreadable DEF ChatInit, TextInv, RowsFit, RowFits
<1> QED
  BY <1>4, <1>5 DEF ChatInv

\* For any devices, accounts and bounds: whatever waits in a queue or a bundle is of the log, what
\* is to be recalled is the own account's, and every stored row's text is of its message's account.
THEOREM ChatInvariance == ChatSpec => []ChatInv
<1>1. ChatInv /\ [ChatNext]_chatVars => ChatInv'
  BY ChatStepKeeps
<1> QED
  BY <1>1, ChatInitFits, PTL DEF ChatSpec

\* Every reachable state of the chat is well typed.
THEOREM ChatTypeCorrect == ChatSpec => []ChatTypeOK
<1>1. ChatInv => ChatTypeOK
  <2> SUFFICES ASSUME ChatInv PROVE ChatTypeOK
    OBVIOUS
  <2>1. \A n \in DOMAIN log : log[n].author \in Device /\ log[n].epoch \in 1..groupEpoch
    <3>1. log \in Seq([author : Device, epoch : Nat])
      BY DEF ChatInv, ChatShape
    <3>2. \A n \in DOMAIN log : log[n] \in [author : Device, epoch : Nat]
      BY <3>1, LenProperties, ElementOfSeq
    <3> QED
      BY <3>2 DEF ChatInv, ChatShape
  <2>2. ASSUME NEW d \in Device, NEW n \in Ids(history[d])
        PROVE  /\ n \in DOMAIN log /\ history[d][n] \in ChatRow /\ history[d][n].attempts <= MaxAttempts
               /\ IsReadable(history[d][n]) <=> history[d][n].reason = "none"
    <3>1. n \in Id /\ Stored(history[d][n]) /\ history[d][n] \in GoodRow \cup {NoRow}
      BY DEF Ids, ChatInv, ChatShape, Rows
    <3>2. history[d][n] \in GoodRow
      BY <3>1 DEF Stored
    <3> QED
      BY <3>1, <3>2 DEF GoodRow, ChatInv, TextInv, RowsFit, RowFits
  <2> QED
    BY <2>1, <2>2 DEF ChatTypeOK, ChatInv, ChatShape
<1> QED
  BY <1>1, ChatInvariance, PTL

\* MR2: no echo, retry, recall or answer overwrites a row that can be read.
THEOREM ReadableIsFinalAlways == ChatSpec => ReadableIsFinal
<1>1. ChatInv /\ [ChatNext]_chatVars =>
      [\A d \in Device, n \in Id : IsReadable(history[d][n]) => history'[d][n] = history[d][n]]_chatVars
  BY ChatStepKeeps
<1> QED
  BY <1>1, ChatInvariance, PTL DEF ChatSpec, ReadableIsFinal

\* However echoes, recalls, answers and retries cross, a row never shows what another account wrote.
THEOREM NoForeignTextAlways == ChatSpec => []NoForeignText
<1>1. ChatInv => NoForeignText
  <2> SUFFICES ASSUME ChatInv, NEW d \in Device, NEW n \in Readable(history[d])
               PROVE  OwnerOf[log[history[d][n].text].author] = OwnerOf[log[n].author]
    BY DEF NoForeignText
  <2>1. n \in Id /\ IsReadable(history[d][n]) /\ Stored(history[d][n])
    BY NoRowUnreadable DEF Readable, Stored
  <2> QED
    BY <2>1 DEF ChatInv, TextInv, RowsFit, RowFits, Fits, AccountOf
<1> QED
  BY <1>1, ChatInvariance, PTL
=============================================================================
