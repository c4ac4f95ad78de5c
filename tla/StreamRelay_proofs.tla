-------------------------- MODULE StreamRelay_proofs --------------------------
(***************************************************************************)
(* Proofs about StreamRelay, for any script of the provider and however it  *)
(* is cut into chunks.                                                      *)
(*                                                                         *)
(* What the ledger says of a stream is what its client was told: an         *)
(* argument of control alone (StreamInv), which asks nothing of             *)
(* SseValidator but that it may reject.                                     *)
(*                                                                         *)
(* What the client is given is what was sent, and a stream fails for a      *)
(* cause: the reader is compared with the reference, which knows the frames *)
(* and nothing of chunks.  The script is laid out on the wire (FlattenSeq,  *)
(* FlattenLaysOut; T[k] is where the frame after the k-th starts), a chunk  *)
(* is read piece by piece (FoldLeft, FeedReadsOneByOne), and after p pieces *)
(* the reader has either made of the frames before p what the reference     *)
(* makes of them, with the pieces since in its buffer (Reads), or met a     *)
(* frame that no reader accepts (Refuses).  The steps of these inductions   *)
(* are joined by HoldsUpTo.                                                 *)
(***************************************************************************)
EXTENDS StreamRelay, SequenceTheorems, WellFoundedInduction, TLAPS

-----------------------------------------------------------------------------
(* The invariant *)

ASequence(s) == \E S : s \in Seq(S)

Untold == out.final = "none" /\ row.verdict = "open"

Given == Len(out.given)
Total(final) == [frames |-> Given, final |-> final]

(* Bytes are counted as they are given, then the final frame once.          *)
Counting == Untold /\ guard.armed /\ guard.bytes = Total("none")

Decided ==
  /\ Untold /\ guard.armed
  /\ \/ guard.want = "succeeded" /\ guard.bytes = Total("none")
     \/ /\ guard.want = "failed" /\ guard.class \in Class \ {"none"}
        /\ guard.bytes = Total(guard.class)

(* A first write may have committed although its answer was lost.           *)
Recovering ==
  /\ out.final = "none" /\ guard.armed
  /\ guard.want = "succeeded" \/ (guard.want = "failed" /\ guard.class \in Class \ {"none"})
  /\ guard.bytes = Total(ErrorFrame)
  /\ row.verdict # "open" => row.verdict = guard.want /\ row.bytes = Total(FinalFrame)

(* The Drop of a stream that is over writes what it would have written.     *)
Told ==
  /\ out.final \in Final \ {"none"}
  /\ out.final = "done" => row.verdict = "succeeded" /\ ~guard.armed
  /\ guard.armed => guard.bytes = Total(out.final)
  /\ row.verdict # "open" =>
       row.bytes = Total(IF row.verdict = "succeeded" THEN "done" ELSE out.final)
  /\ row.verdict = "succeeded" /\ ~guard.armed => out.final = "done"

StreamInv ==
  /\ ASequence(out.given)
  /\ guard = [drop |-> guard.drop, bytes |-> guard.bytes, want |-> guard.want,
              class |-> guard.class, armed |-> guard.armed]
  /\ guard.drop \in {"failed", "cancelled"}
  /\ out = [given |-> out.given, final |-> out.final]
  /\ stage \in Stage
  /\ stage \in {"priming", "handing", "failover", "refused", "relaying", "accounting"} => Counting
  /\ stage = "closing" => Decided
  /\ stage = "recovering" => Recovering
  /\ stage = "over" => Told
  /\ stage = "dropped" => LedgerMatchesTheClient

LEMMA OneLonger ==
  ASSUME NEW s, ASequence(s), NEW e
  PROVE  ASequence(Append(s, e)) /\ Len(Append(s, e)) = Len(s) + 1 /\ Len(s) \in Nat
<1>1. PICK S : s \in Seq(S)
  BY DEF ASequence
<1>2. s \in Seq(S \cup {e}) /\ e \in S \cup {e}
  BY <1>1
<1>3. Append(s, e) \in Seq(S \cup {e}) /\ Len(Append(s, e)) = Len(s) + 1 /\ Len(s) \in Nat
  BY <1>2
<1> QED
  BY <1>3 DEF ASequence

LEMMA LengthIsNatural ==
  ASSUME StreamInv
  PROVE  Given \in Nat
BY OneLonger DEF StreamInv, Given

-----------------------------------------------------------------------------
(* Steps *)

LEMMA InitHolds ==
  Init => StreamInv
<1> SUFFICES ASSUME Init PROVE StreamInv
  OBVIOUS
<1>1. <<>> \in Seq({})
  OBVIOUS
<1>2. ASequence(out.given) /\ Given = 0
  BY <1>1 DEF Init, Nothing, ASequence, Given
<1> QED
  BY <1>2 DEF Init, StreamInv, Stage, Nothing, NoBytes, Counting, Untold, Total

(* While nothing is given and nothing is decided.                           *)
LEMMA StillCounting ==
  ASSUME StreamInv, stage \in {"priming", "handing", "relaying", "accounting"},
         UNCHANGED <<row, out>>, guard' = guard \/ guard' = [guard EXCEPT !.drop = "cancelled"],
         stage' \in {"priming", "handing", "failover", "refused", "relaying", "accounting"}
  PROVE  StreamInv'
BY DEF StreamInv, Stage, Counting, Untold, Given, Total

LEMMA FailsDecides ==
  ASSUME StreamInv, stage = "relaying", UNCHANGED <<row, out>>,
         NEW class \in Class \ {"none"}, Fails(class)
  PROVE  StreamInv'
<1>1. guard' = [drop |-> guard.drop, bytes |-> [guard.bytes EXCEPT !.final = class],
                want |-> "failed", class |-> class, armed |-> guard.armed]
  BY DEF StreamInv, Fails
<1>2. stage' = "closing" /\ Given' = Given /\ Counting
  BY DEF StreamInv, Fails, Given
<1>3. [guard.bytes EXCEPT !.final = class] = Total(class)
  BY <1>2 DEF Counting, Total
<1> QED
  BY <1>1, <1>2, <1>3 DEF StreamInv, Stage, Counting, Decided, Untold, Given, Total

LEMMA ChunkKeeps ==
  ASSUME StreamInv, PrimeChunk \/ PrimeEnds \/ HandOver \/ HandOverFails \/ SeesDone
  PROVE  StreamInv'
BY StillCounting DEF PrimeChunk, PrimeEnds, HandOver, HandOverFails, SeesDone

LEMMA PassOnKeeps ==
  ASSUME StreamInv, PassOn
  PROVE  StreamInv'
<1> DEFINE given == Append(out.given, Head(queue))
<1>1. ASequence(given) /\ Len(given) = Given + 1 /\ Given \in Nat
  BY OneLonger DEF StreamInv, Given
<1>2. /\ out' = [given |-> given, final |-> out.final]
      /\ guard' = [drop |-> guard.drop, bytes |-> [guard.bytes EXCEPT !.frames = @ + 1],
                   want |-> guard.want, class |-> guard.class, armed |-> guard.armed]
      /\ stage = "relaying" /\ stage' = "relaying" /\ row' = row
  BY DEF PassOn, StreamInv
<1> HIDE DEF given
<1> QED
  BY <1>1, <1>2 DEF StreamInv, Counting, Untold, Given, Total

LEMMA RelayKeeps ==
  ASSUME StreamInv, RelayChunk \/ ProviderFails \/ ProviderEnds \/ IdleTimeout
  PROVE  StreamInv'
<1>1. stage = "relaying" /\ UNCHANGED <<row, out>>
  BY DEF RelayChunk, ProviderFails, ProviderEnds, IdleTimeout, Waiting
<1>2. (\E class \in Class \ {"none"} : Fails(class)) \/ UNCHANGED <<guard, stage>>
  BY DEF RelayChunk, ProviderFails, ProviderEnds, IdleTimeout, Class
<1> QED
  BY <1>1, <1>2, FailsDecides, StillCounting

LEMMA AccountsKeeps ==
  ASSUME StreamInv, Accounts
  PROVE  StreamInv'
<1>1. stage = "accounting" /\ stage' = "closing" /\ UNCHANGED <<row, out>>
  BY DEF Accounts
<1>2. CASE guard' = [guard EXCEPT !.want = "succeeded"]
  BY <1>1, <1>2 DEF StreamInv, Stage, Counting, Decided, Untold, Given, Total
<1>3. CASE guard' = [guard EXCEPT !.want = "failed", !.class = "accounting",
                                  !.bytes.final = "accounting"]
  <2>1. /\ guard' = [drop |-> guard.drop, bytes |-> [guard.bytes EXCEPT !.final = "accounting"],
                     want |-> "failed", class |-> "accounting", armed |-> guard.armed]
        /\ Given' = Given /\ Counting
    BY <1>1, <1>3 DEF StreamInv, Given
  <2>2. "accounting" \in Class \ {"none"}
    BY DEF Class
  <2>3. [guard.bytes EXCEPT !.final = "accounting"] = Total("accounting")
    BY <2>1 DEF Counting, Total
  <2> QED
    BY <1>1, <2>1, <2>2, <2>3 DEF StreamInv, Stage, Counting, Decided, Untold, Given, Total
<1> QED
  BY <1>2, <1>3 DEF Accounts

(* What the two writes are about to say of the bytes.                       *)
LEMMA FinalBytes ==
  ASSUME StreamInv, stage = "closing"
  PROVE  /\ SuccessBytes = Total(FinalFrame) /\ RecoveryBytes = Total(ErrorFrame)
         /\ FinalFrame \in Final \ {"none"} /\ ErrorFrame \in Class \ {"none"}
         /\ FinalFrame = "done" <=> guard.want = "succeeded"
         /\ guard.want # "succeeded" => ErrorFrame = FinalFrame
BY DEF StreamInv, Decided, SuccessBytes, RecoveryBytes, CountedWith, FinalFrame, ErrorFrame,
       Total, Final, Class

LEMMA CommitKeeps ==
  ASSUME StreamInv, CloseCommits
  PROVE  StreamInv'
<1>1. /\ Decided /\ stage' = "over" /\ out' = [given |-> out.given, final |-> FinalFrame]
      /\ guard' = [drop |-> guard.drop, bytes |-> Total(FinalFrame), want |-> guard.want,
                   class |-> guard.class, armed |-> FALSE]
      /\ row' = [verdict |-> guard.want, class |-> guard.class, bytes |-> Total(FinalFrame)]
      /\ Given' = Given
  BY FinalBytes DEF CloseCommits, Close, StreamInv, Decided, Untold, Given
<1>2. /\ FinalFrame \in Final \ {"none"}
      /\ FinalFrame = "done" <=> guard.want = "succeeded"
  BY FinalBytes DEF CloseCommits
<1> HIDE DEF FinalFrame
<1>3. Told'
  BY <1>1, <1>2 DEF Decided, Told, Total
<1> QED
  BY <1>1, <1>3 DEF StreamInv, Stage

LEMMA CloseFailsKeeps ==
  ASSUME StreamInv, CloseFails
  PROVE  StreamInv'
<1>1. /\ Decided /\ stage' = "recovering" /\ out' = out
      /\ guard' = [drop |-> "failed", bytes |-> Total(ErrorFrame), want |-> guard.want,
                   class |-> guard.class, armed |-> guard.armed]
      /\ \/ row' = row
         \/ row' = [verdict |-> guard.want, class |-> guard.class, bytes |-> Total(FinalFrame)]
  BY FinalBytes DEF CloseFails, Close, StreamInv, Decided, Untold
<1>2. Given' = Given /\ ErrorFrame' = ErrorFrame /\ FinalFrame' = FinalFrame
  BY <1>1 DEF Given, ErrorFrame, FinalFrame
<1>3. Recovering'
  BY <1>1, <1>2 DEF Decided, Untold, Recovering, Total
<1> QED
  BY <1>1, <1>3 DEF StreamInv, Stage

LEMMA RecoversKeeps ==
  ASSUME StreamInv, Recovers
  PROVE  StreamInv'
<1>1. /\ Recovering /\ stage' = "over" /\ Given' = Given
      /\ out' = [given |-> out.given, final |-> ErrorFrame]
      /\ \/ UNCHANGED <<row, guard>>
         \/ /\ \E answered \in BOOLEAN : guard' = [guard EXCEPT !.armed = ~answered]
            /\ row' = [verdict |-> "failed", class |-> "evidence", bytes |-> guard.bytes]
  BY DEF Recovers, Close, StreamInv, Recovering, Given
<1>2. /\ ErrorFrame \in Class \ {"none"} /\ ErrorFrame \in Final \ {"none", "done"}
      /\ guard.want # "succeeded" => ErrorFrame = FinalFrame
      /\ guard.want = "succeeded" => FinalFrame = "done"
  BY <1>1 DEF Recovering, ErrorFrame, FinalFrame, Final, Class
<1> HIDE DEF ErrorFrame, FinalFrame
<1>3. CASE UNCHANGED <<row, guard>>
  BY <1>1, <1>2, <1>3 DEF StreamInv, Stage, Recovering, Told, Total
<1>4. ASSUME NEW answered \in BOOLEAN, guard' = [guard EXCEPT !.armed = ~answered],
             row' = [verdict |-> "failed", class |-> "evidence", bytes |-> guard.bytes]
      PROVE  StreamInv'
  <2>1. Told'
    BY <1>1, <1>2, <1>4 DEF StreamInv, Recovering, Told, Total
  <2> QED
    BY <1>1, <1>4, <2>1 DEF StreamInv, Stage
<1> QED
  BY <1>1, <1>3, <1>4

LEMMA DropKeeps ==
  ASSUME StreamInv, Drop
  PROVE  StreamInv'
<1>1. /\ stage \in Stage \ {"failover", "dropped"} /\ stage' = "dropped"
      /\ UNCHANGED <<guard, out>>
      /\ \/ row' = row
         \/ /\ guard.armed /\ row.verdict = "open"
            /\ row'.bytes = guard.bytes /\ row'.verdict = guard.drop
  BY DEF Drop, DropWrites, Close
<1>2. LedgerMatchesTheClient'
  <2>1. CASE stage = "over"
    BY <1>1, <2>1 DEF StreamInv, Told, LedgerMatchesTheClient, Given, Total
  <2>2. CASE stage # "over"
    <3>1. out.final = "none"
      BY <1>1, <2>2 DEF StreamInv, Stage, Counting, Decided, Recovering, Untold
    <3> QED
      BY <1>1, <3>1 DEF LedgerMatchesTheClient
  <2> QED
    BY <2>1, <2>2
<1> QED
  BY <1>1, <1>2 DEF StreamInv, Stage

LEMMA StepKeeps ==
  StreamInv /\ [Next]_vars => StreamInv'
<1> SUFFICES ASSUME StreamInv, [Next]_vars PROVE StreamInv'
  OBVIOUS
<1>1. CASE UNCHANGED vars
  BY <1>1 DEF vars, StreamInv, Counting, Decided, Recovering, Told, Untold, Given,
              Total, ErrorFrame, FinalFrame, LedgerMatchesTheClient
<1> QED
  BY <1>1, ChunkKeeps, PassOnKeeps, RelayKeeps, AccountsKeeps, CommitKeeps, CloseFailsKeeps,
     RecoversKeeps, DropKeeps DEF Next

(* A client that is told [DONE] has a row that succeeded, and a row closed  *)
(* for a client that was told anything counts what that client was given,   *)
(* whatever writes of finish_request_and_attempt fail, whatever answers are *)
(* lost, and whenever the body is dropped (chat_response_stream,            *)
(* StreamAttemptGuard) -- but for a success whose answer was lost: there    *)
(* the row counts [DONE], the client gets the error frame, and the guard is *)
(* still armed.                                                             *)
THEOREM LedgerKeepsFaith ==
  Spec => []LedgerMatchesTheClient
<1>1. StreamInv => LedgerMatchesTheClient
  BY DEF StreamInv, Stage, Counting, Decided, Recovering, Told, Untold, Given,
         Total, LedgerMatchesTheClient
<1> QED
  BY <1>1, InitHolds, StepKeeps, PTL DEF Spec

-----------------------------------------------------------------------------
(* What happens step by step, over naturals below a bound                   *)

(* The least counterexample would follow no member.                         *)
LEMMA HoldsUpTo ==
  ASSUME NEW n \in Nat, NEW P, 0 \in P, \A i \in 0 .. n : i \in P /\ i < n => i + 1 \in P
  PROVE  \A i \in 0 .. n : i \in P
<1> DEFINE Out == {i \in 0 .. n : i \notin P}
<1>1. SUFFICES ASSUME Out # {} PROVE FALSE
  BY <1>1
<1>2. IsWellFoundedOn({ss \in Nat \X Nat : ss[1] < ss[2]}, Nat)
  BY NatLessThanWellFounded DEF OpToRel
<1>3. Out \subseteq Nat
  OBVIOUS
<1>4. PICK m \in Out : \A i \in Out : <<i, m>> \notin {ss \in Nat \X Nat : ss[1] < ss[2]}
  <2> HIDE DEF Out
  <2> QED
    BY <1>1, <1>2, <1>3, WFMin
<1>5. m # 0 /\ m - 1 \in 0 .. n /\ m - 1 < n
  OBVIOUS
<1>6. m - 1 \notin P
  BY <1>5
<1>7. m - 1 \in Out /\ <<m - 1, m>> \in {ss \in Nat \X Nat : ss[1] < ss[2]}
  BY <1>5, <1>6
<1> QED
  BY <1>4, <1>7

LEMMA Joined ==
  ASSUME NEW S, NEW a \in Seq(S), NEW b \in Seq(S)
  PROVE  /\ a \o b \in Seq(S)
         /\ Len(a) \in Nat /\ Len(b) \in Nat /\ Len(a \o b) = Len(a) + Len(b)
         /\ Len(a \o b) \in Nat /\ Len(a) <= Len(a \o b)
         /\ \A j \in 1 .. Len(a) : (a \o b)[j] = a[j]
         /\ \A j \in 1 .. Len(b) : (a \o b)[Len(a) + j] = b[j]
<1>1. Len(a) \in Nat /\ Len(b) \in Nat
  BY LenProperties
<1>2. a \o b \in Seq(S) /\ Len(a \o b) = Len(a) + Len(b)
  BY ConcatProperties
<1>3. \A j \in 1 .. Len(a) : (a \o b)[j] = a[j]
  BY <1>1
<1>4. \A j \in 1 .. Len(b) : (a \o b)[Len(a) + j] = b[j]
  BY <1>1
<1> QED
  BY <1>1, <1>2, <1>3, <1>4

(* The flattening exists, and each of its parts stays where it is put.      *)
Lays(f, seqs, S, m) ==
  /\ f \in [0 .. m -> Seq(S)]
  /\ f[0] = <<>>
  /\ \A i \in 0 .. m : i < m => f[i + 1] = f[i] \o seqs[i + 1]
  /\ \A i \in 0 .. m : Len(f[i]) <= Len(f[m]) /\ \A j \in 1 .. Len(f[i]) : f[m][j] = f[i][j]

LEMMA LaysOneMore ==
  ASSUME NEW S, NEW n \in Nat, NEW seqs \in [1 .. n -> Seq(S)],
         NEW m \in 0 .. n, m < n, NEW f, Lays(f, seqs, S, m)
  PROVE  \E g : Lays(g, seqs, S, m + 1)
<1> DEFINE last == f[m] \o seqs[m + 1]
           g == [i \in 0 .. m + 1 |-> IF i = m + 1 THEN last ELSE f[i]]
<1>0. m \in Nat /\ m + 1 \in 1 .. n
  OBVIOUS
<1>1. f[m] \in Seq(S) /\ seqs[m + 1] \in Seq(S)
  BY <1>0 DEF Lays
<1>2. /\ last \in Seq(S) /\ Len(last) \in Nat
      /\ Len(f[m]) \in Nat /\ Len(f[m]) <= Len(last)
      /\ \A j \in 1 .. Len(f[m]) : last[j] = f[m][j]
  BY <1>1, Joined
<1>3. g \in [0 .. m + 1 -> Seq(S)]
  <2> HIDE DEF last
  <2> QED
    BY <1>0, <1>2 DEF Lays
<1>4. last = f[m] \o seqs[m + 1]
  OBVIOUS
<1> HIDE DEF last
<1>5. g[m + 1] = last /\ \A i \in 0 .. m : g[i] = f[i]
  BY <1>0
<1> HIDE DEF g
<1>6. g[0] = <<>>
  BY <1>0, <1>5 DEF Lays
<1>7. ASSUME NEW i \in 0 .. m + 1, i < m + 1
      PROVE  g[i + 1] = g[i] \o seqs[i + 1]
  <2>1. CASE i = m
    <3>1. m \in 0 .. m
      BY <1>0
    <3>2. g[m + 1] = last /\ g[m] = f[m]
      BY <1>5, <3>1
    <3> QED
      BY <1>4, <2>1, <3>2
  <2>2. CASE i # m
    <3>1. i \in 0 .. m /\ i + 1 \in 0 .. m /\ i < m
      BY <1>0, <1>7, <2>2
    <3>2. f[i + 1] = f[i] \o seqs[i + 1]
      BY <3>1 DEF Lays
    <3>3. g[i + 1] = f[i + 1] /\ g[i] = f[i]
      BY <1>5, <3>1
    <3> QED
      BY <3>2, <3>3
  <2> QED
    BY <2>1, <2>2
<1>8. ASSUME NEW i \in 0 .. m + 1
      PROVE  Len(g[i]) <= Len(g[m + 1]) /\ \A j \in 1 .. Len(g[i]) : g[m + 1][j] = g[i][j]
  <2>1. CASE i = m + 1
    <3>2. g[i] = last /\ g[m + 1] = last
      BY <1>5, <2>1
    <3>3. Len(last) <= Len(last)
      BY <1>2
    <3> QED
      BY <3>2, <3>3
  <2>2. CASE i # m + 1
    <3>1. i \in 0 .. m
      BY <1>0, <2>2
    <3>2. Len(f[i]) <= Len(f[m]) /\ \A j \in 1 .. Len(f[i]) : f[m][j] = f[i][j]
      BY <3>1 DEF Lays
    <3>3. f[i] \in Seq(S)
      BY <3>1 DEF Lays
    <3>4. Len(f[i]) \in Nat
      BY <3>3, LenProperties
    <3>5. Len(f[i]) <= Len(last)
      <4>1. Len(f[i]) <= Len(f[m])
        BY <3>2
      <4> QED
        BY <1>2, <3>4, <4>1
    <3>6. ASSUME NEW j \in 1 .. Len(f[i])
          PROVE  last[j] = f[i][j]
      <4>1. j \in 1 .. Len(f[m])
        BY <1>2, <3>2, <3>4
      <4> QED
        BY <1>2, <3>2, <4>1
    <3>7. g[i] = f[i] /\ g[m + 1] = last
      BY <1>5, <3>1
    <3> QED
      BY <3>5, <3>6, <3>7
  <2> QED
    BY <2>1, <2>2
<1>9. Lays(g, seqs, S, m + 1)
  BY <1>3, <1>6, <1>7, <1>8 DEF Lays
<1> QED
  BY <1>9

Flattens(h, seqs) ==
  h = [i \in 1 .. Len(seqs) |-> IF i = 1 THEN seqs[i] ELSE h[i - 1] \o seqs[i]]

LEMMA FlatteningIs ==
  ASSUME NEW S, NEW n \in Nat, n # 0, NEW seqs \in [1 .. n -> Seq(S)],
         NEW f, Lays(f, seqs, S, n), NEW h, Flattens(h, seqs)
  PROVE  h[n] = f[n]
<1> DEFINE P == {i \in 0 .. n : i = 0 \/ h[i] = f[i]}
<1>1. Len(seqs) = n
  OBVIOUS
<1>2. 0 \in P
  OBVIOUS
<1> HIDE DEF P
<1>3. ASSUME NEW i \in 0 .. n, i \in P, i < n
      PROVE  i + 1 \in P
  <2>0. i \in Nat /\ i + 1 \in 1 .. n /\ (i + 1) - 1 = i /\ i + 1 # 0
    BY <1>3
  <2>1. f[i + 1] = f[i] \o seqs[i + 1]
    BY <1>3 DEF Lays
  <2>2. h[i + 1] = IF i + 1 = 1 THEN seqs[i + 1] ELSE h[(i + 1) - 1] \o seqs[i + 1]
    BY <1>1, <2>0 DEF Flattens
  <2>3. CASE i = 0
    <3>1. f[i] = <<>> /\ seqs[i + 1] \in Seq(S)
      BY <2>0, <2>3 DEF Lays
    <3>2. f[i + 1] = seqs[i + 1]
      BY <2>1, <3>1, ConcatEmptySeq
    <3>3. h[i + 1] = seqs[i + 1]
      BY <2>2, <2>3
    <3> QED
      BY <2>0, <3>2, <3>3 DEF P
  <2>4. CASE i # 0
    <3>1. h[i] = f[i]
      BY <1>3, <2>4 DEF P
    <3>2. i + 1 # 1
      BY <2>0, <2>4
    <3>3. h[i + 1] = h[i] \o seqs[i + 1]
      BY <2>0, <2>2, <3>2
    <3>4. h[i + 1] = f[i + 1]
      BY <2>1, <3>1, <3>3
    <3> QED
      BY <2>0, <3>4 DEF P
  <2> QED
    BY <2>3, <2>4
<1>4. \A i \in 0 .. n : i \in P /\ i < n => i + 1 \in P
  BY <1>3
<1>5. n \in 0 .. n
  OBVIOUS
<1>6. n \in P
  BY <1>2, <1>4, <1>5, HoldsUpTo
<1> QED
  BY <1>6 DEF P

LEMMA FlattenLaysOut ==
  ASSUME NEW S, NEW n \in Nat, NEW seqs \in [1 .. n -> Seq(S)]
  PROVE  \E f : Lays(f, seqs, S, n) /\ f[n] = FlattenSeq(seqs)
<1> DEFINE P == {m \in 0 .. n : \E f : Lays(f, seqs, S, m)}
<1>1. 0 \in P
  <2> DEFINE f == [i \in 0 .. 0 |-> <<>>]
  <2>1. Lays(f, seqs, S, 0)
    BY DEF Lays
  <2> QED
    BY <2>1
<1>2. ASSUME NEW m \in 0 .. n, m \in P, m < n
      PROVE  m + 1 \in P
  <2>1. PICK f : Lays(f, seqs, S, m)
    BY <1>2
  <2>2. \E g : Lays(g, seqs, S, m + 1)
    BY <1>2, <2>1, LaysOneMore
  <2>3. m + 1 \in 0 .. n
    BY <1>2
  <2> QED
    BY <2>2, <2>3
<1>3. \A m \in 0 .. n : m \in P /\ m < n => m + 1 \in P
  BY <1>2
<1>4. n \in 0 .. n
  OBVIOUS
<1> HIDE DEF P
<1>5. n \in P
  BY <1>1, <1>3, <1>4, HoldsUpTo
<1>6. PICK f : Lays(f, seqs, S, n)
  BY <1>5 DEF P
<1>7. CASE n = 0
  <2>1. Len(seqs) = 0 /\ seqs = <<>> /\ f[n] = <<>>
    BY <1>6, <1>7 DEF Lays
  <2> QED
    BY <1>6, <2>1 DEF FlattenSeq
<1>8. CASE n # 0
  <2> DEFINE g == [i \in 1 .. n |-> f[i]]
  <2>1. Len(seqs) = n
    OBVIOUS
  <2>2. ASSUME NEW i \in 1 .. n
        PROVE  f[i] = IF i = 1 THEN seqs[i] ELSE g[i - 1] \o seqs[i]
    <3>0. i - 1 \in 0 .. n /\ i - 1 < n /\ (i - 1) + 1 = i /\ seqs[i] \in Seq(S)
      OBVIOUS
    <3>1. f[(i - 1) + 1] = f[i - 1] \o seqs[(i - 1) + 1]
      BY <1>6, <3>0 DEF Lays
    <3>2. CASE i = 1
      <4>1. f[i - 1] = <<>>
        BY <1>6, <3>2 DEF Lays
      <4> QED
        BY <3>0, <3>1, <3>2, <4>1, ConcatEmptySeq
    <3>3. CASE i # 1
      <4>1. g[i - 1] = f[i - 1]
        BY <3>3
      <4> HIDE DEF g
      <4> QED
        BY <3>0, <3>1, <3>3, <4>1
    <3> QED
      BY <3>2, <3>3
  <2>3. Flattens(g, seqs)
    BY <2>1, <2>2 DEF Flattens
  <2> HIDE DEF g
  <2>4. Flattens(CHOOSE h : Flattens(h, seqs), seqs)
    BY <2>3
  <2>5. (CHOOSE h : Flattens(h, seqs))[n] = f[n]
    BY <1>6, <1>8, <2>4, FlatteningIs
  <2>6. FlattenSeq(seqs) = (CHOOSE h : Flattens(h, seqs))[n]
    BY <1>8, <2>1 DEF FlattenSeq, Flattens
  <2> QED
    BY <1>6, <2>5, <2>6
<1> QED
  BY <1>7, <1>8

(* Feed reads a chunk piece by piece: the fold takes the last piece of a    *)
(* set of places, and the first pieces are read before.                     *)
LEMMA LastPlace ==
  ASSUME NEW n \in Nat, NEW s \in SUBSET (1 .. n), s # {}
  PROVE  Max(s) \in s /\ \A k \in s : k <= Max(s)
<1> DEFINE P == {m \in 0 .. n : \A t \in SUBSET (1 .. m) :
                                  t # {} => \E k \in t : \A j \in t : k >= j}
<1>1. 0 \in P
  <2>1. 0 \in 0 .. n /\ 1 .. 0 = {}
    OBVIOUS
  <2> QED
    BY <2>1
<1>2. ASSUME NEW m \in 0 .. n, m \in P, m < n
      PROVE  m + 1 \in P
  <2>1. m \in Nat /\ m + 1 \in 0 .. n
    BY <1>2
  <2>2. ASSUME NEW t \in SUBSET (1 .. m + 1), t # {}
        PROVE  \E k \in t : \A j \in t : k >= j
    <3>1. CASE m + 1 \in t
      <4>1. \A j \in t : m + 1 >= j
        BY <2>1
      <4> QED
        BY <3>1, <4>1
    <3>2. CASE m + 1 \notin t
      <4>1. t \in SUBSET (1 .. m)
        BY <2>1, <3>2
      <4> QED
        BY <1>2, <2>2, <4>1
    <3> QED
      BY <3>1, <3>2
  <2> QED
    BY <2>1, <2>2
<1>3. \A m \in 0 .. n : m \in P /\ m < n => m + 1 \in P
  BY <1>2
<1>4. n \in 0 .. n
  OBVIOUS
<1> HIDE DEF P
<1>5. n \in P
  BY <1>1, <1>3, <1>4, HoldsUpTo
<1>6. \E k \in s : \A j \in s : k >= j
  BY <1>5 DEF P
<1>7. Max(s) \in s /\ \A j \in s : Max(s) >= j
  BY <1>6 DEF Max
<1> QED
  BY <1>7

FoldsBack(g, v, chunk, n) ==
  g = [s \in SUBSET (1 .. n) |->
         IF s = {} THEN v ELSE Fed(g[s \ {Max(s)}], chunk[Max(s)])]

LEMMA FoldsOneMore ==
  ASSUME NEW v, NEW chunk, NEW m \in Nat, NEW f, FoldsBack(f, v, chunk, m)
  PROVE  \E g : FoldsBack(g, v, chunk, m + 1)
<1> DEFINE g == [s \in SUBSET (1 .. m + 1) |->
                   IF m + 1 \in s THEN Fed(f[s \ {m + 1}], chunk[m + 1]) ELSE f[s]]
<1>1. ASSUME NEW s \in SUBSET (1 .. m + 1)
      PROVE  s \ {m + 1} \in SUBSET (1 .. m)
  OBVIOUS
<1>2. ASSUME NEW s \in SUBSET (1 .. m)
      PROVE  g[s] = f[s]
  <2>1. s \in SUBSET (1 .. m + 1) /\ m + 1 \notin s
    OBVIOUS
  <2> QED
    BY <2>1
<1>3. ASSUME NEW s \in SUBSET (1 .. m + 1)
      PROVE  g[s] = IF s = {} THEN v ELSE Fed(g[s \ {Max(s)}], chunk[Max(s)])
  <2>1. CASE m + 1 \in s
    <3>1. s # {} /\ m + 1 \in Nat
      BY <2>1
    <3>2. Max(s) \in s /\ \A k \in s : k <= Max(s)
      BY <3>1, LastPlace
    <3>3. Max(s) = m + 1
      <4>1. m + 1 <= Max(s) /\ Max(s) \in 1 .. m + 1
        BY <2>1, <3>2
      <4> QED
        BY <4>1
    <3>4. g[s] = Fed(f[s \ {m + 1}], chunk[m + 1])
      BY <2>1
    <3>5. g[s \ {m + 1}] = f[s \ {m + 1}]
      BY <1>1, <1>2
    <3> HIDE DEF g
    <3> QED
      BY <3>1, <3>3, <3>4, <3>5
  <2>2. CASE m + 1 \notin s
    <3>1. s \in SUBSET (1 .. m) /\ g[s] = f[s]
      BY <2>2
    <3>2. s \ {Max(s)} \in SUBSET (1 .. m)
      BY <3>1
    <3>3. g[s \ {Max(s)}] = f[s \ {Max(s)}]
      BY <1>2, <3>2
    <3> HIDE DEF g
    <3>4. f[s] = IF s = {} THEN v ELSE Fed(f[s \ {Max(s)}], chunk[Max(s)])
      BY <3>1 DEF FoldsBack
    <3> QED
      BY <3>1, <3>3, <3>4
  <2> QED
    BY <2>1, <2>2
<1>4. g = [s \in SUBSET (1 .. m + 1) |-> g[s]]
  OBVIOUS
<1> HIDE DEF g
<1>5. FoldsBack(g, v, chunk, m + 1)
  BY <1>3, <1>4 DEF FoldsBack
<1> QED
  BY <1>5

LEMMA FoldExists ==
  ASSUME NEW v, NEW chunk, NEW n \in Nat
  PROVE  \E g : FoldsBack(g, v, chunk, n)
<1> DEFINE P == {m \in 0 .. n : \E g : FoldsBack(g, v, chunk, m)}
<1>1. 0 \in P
  <2> DEFINE g == [s \in SUBSET (1 .. 0) |-> v]
  <2>1. \A s \in SUBSET (1 .. 0) : s = {}
    OBVIOUS
  <2>2. FoldsBack(g, v, chunk, 0)
    BY <2>1 DEF FoldsBack
  <2> HIDE DEF g
  <2>3. 0 \in 0 .. n
    OBVIOUS
  <2> QED
    BY <2>2, <2>3
<1>2. ASSUME NEW m \in 0 .. n, m \in P, m < n
      PROVE  m + 1 \in P
  <2>1. PICK f : FoldsBack(f, v, chunk, m)
    BY <1>2
  <2>2. m \in Nat /\ m + 1 \in 0 .. n
    BY <1>2
  <2>3. \E g : FoldsBack(g, v, chunk, m + 1)
    BY <2>1, <2>2, FoldsOneMore
  <2> QED
    BY <2>2, <2>3
<1>3. \A m \in 0 .. n : m \in P /\ m < n => m + 1 \in P
  BY <1>2
<1>4. n \in 0 .. n
  OBVIOUS
<1> HIDE DEF P
<1>5. n \in P
  BY <1>1, <1>3, <1>4, HoldsUpTo
<1> QED
  BY <1>5 DEF P

LEMMA FeedReadsOneByOne ==
  ASSUME NEW S, NEW chunk \in Seq(S), NEW v
  PROVE  \E h : /\ h[0] = v /\ h[Len(chunk)] = Feed(v, chunk)
                /\ \A i \in 0 .. Len(chunk) : i < Len(chunk) => h[i + 1] = Fed(h[i], chunk[i + 1])
<1> DEFINE n == Len(chunk)
           g == CHOOSE k : FoldsBack(k, v, chunk, n)
           h == [i \in 0 .. n |-> g[1 .. i]]
<1>1. n \in Nat /\ DOMAIN chunk = 1 .. n
  BY LenProperties
<1>2. Feed(v, chunk) = g[1 .. n]
  <2> HIDE DEF n
  <2> QED
    BY <1>1 DEF Feed, FoldLeft, MapThenFoldSet, FoldsBack
<1> HIDE DEF n
<1>3. FoldsBack(g, v, chunk, n)
  BY <1>1, FoldExists
<1> HIDE DEF g
<1>4. ASSUME NEW s \in SUBSET (1 .. n)
      PROVE  g[s] = IF s = {} THEN v ELSE Fed(g[s \ {Max(s)}], chunk[Max(s)])
  BY <1>3 DEF FoldsBack
<1>5. h[0] = v
  <2>1. 1 .. 0 = {} /\ 1 .. 0 \in SUBSET (1 .. n)
    OBVIOUS
  <2>2. g[1 .. 0] = v
    BY <1>4, <2>1
  <2> QED
    BY <1>1, <2>2
<1>6. h[n] = Feed(v, chunk)
  BY <1>1, <1>2
<1>7. ASSUME NEW i \in 0 .. n, i < n
      PROVE  h[i + 1] = Fed(h[i], chunk[i + 1])
  <2> DEFINE s == 1 .. i + 1
  <2>1. i \in Nat /\ i + 1 \in 1 .. n /\ i + 1 \in s
    BY <1>1, <1>7
  <2>2. s \in SUBSET (1 .. n) /\ s # {}
    BY <1>1, <1>7, <2>1
  <2>3. Max(s) \in s /\ i + 1 <= Max(s)
    <3> HIDE DEF s
    <3> QED
      BY <1>1, <2>1, <2>2, LastPlace
  <2>4. Max(s) = i + 1
    <3>1. Max(s) \in 1 .. i + 1
      BY <2>3
    <3> QED
      BY <2>1, <2>3, <3>1
  <2>5. s \ {i + 1} = 1 .. i
    BY <2>1
  <2>6. h[i + 1] = g[s] /\ h[i] = g[1 .. i]
    BY <1>1, <2>1
  <2> HIDE DEF s, h
  <2>7. g[s] = Fed(g[s \ {Max(s)}], chunk[Max(s)])
    BY <1>4, <2>2
  <2> QED
    BY <2>4, <2>5, <2>6, <2>7
<1> HIDE DEF h
<1>8. \A i \in 0 .. n : i < n => h[i + 1] = Fed(h[i], chunk[i + 1])
  BY <1>7
<1> QED
  BY <1>5, <1>6, <1>8 DEF n

-----------------------------------------------------------------------------
(* Where the frames of a script lie on the wire                             *)

Lines == {"a", "b", "head", "tail", "done", "bad", "blank", "note", "junk"}

LEMMA OddPlaces ==
  /\ \A j \in Nat : j >= 1 => (2 * j - 1) % 2 = 1 /\ ((2 * j - 1) + 1) \div 2 = j
  /\ \A i \in Nat : i % 2 = 1 => i = 2 * ((i + 1) \div 2) - 1 /\ (i + 1) \div 2 \in Nat
  /\ \A i \in Nat : i % 2 # 1 => (i + 1) % 2 = 1
OBVIOUS

(* Lines stand at the odd places, with a break between any two.             *)
LEMMA TextShape ==
  ASSUME NEW frame \in Seq(Lines)
  PROVE  /\ Len(frame) \in Nat /\ Len(Text(frame)) \in Nat
         /\ Text(frame) \in Seq(Lines \cup {"break"})
         /\ Len(Text(frame)) = IF frame = <<>> THEN 0 ELSE 2 * Len(frame) - 1
         /\ \A i \in 1 .. Len(Text(frame)) : Text(frame)[i] \in Lines \cup {"break"}
         /\ \A j \in 1 .. Len(frame) : /\ 2 * j - 1 \in 1 .. Len(Text(frame))
                                       /\ Text(frame)[2 * j - 1] = frame[j]
         /\ \A i \in 1 .. Len(Text(frame)) :
              Text(frame)[i] = "break" \/ \E j \in 1 .. Len(frame) : i = 2 * j - 1
         /\ \A i \in 1 .. Len(Text(frame)) - 1 :
              Text(frame)[i] # "break" \/ Text(frame)[i + 1] # "break"
         /\ frame # <<>> => Text(frame)[Len(Text(frame))] # "break"
<1> DEFINE n == Len(frame)
<1>1. n \in Nat /\ \A j \in 1 .. n : frame[j] \in Lines /\ frame[j] # "break"
  BY DEF Lines
<1>2. CASE frame = <<>>
  <2>1. Len(frame) = 0 /\ Len(Text(frame)) = 0 /\ Text(frame) \in Seq(Lines \cup {"break"})
    BY <1>2 DEF Text
  <2> QED
    BY <1>2, <2>1
<1>3. CASE frame # <<>>
  <2>1. n >= 1
    BY <1>1, <1>3
  <2> DEFINE m == 2 * n - 1
             at(i) == IF i % 2 = 1 THEN frame[(i + 1) \div 2] ELSE "break"
  <2>2. m \in Nat /\ m >= 1
    BY <1>1, <2>1
  <2>3. Text(frame) = [i \in 1 .. m |-> at(i)]
    BY <1>3 DEF Text
  <2>4. Len(Text(frame)) = m
    <3> HIDE DEF m, at
    <3> QED
      BY <2>2, <2>3
  <2>5. \A i \in 1 .. m : Text(frame)[i] = at(i)
    <3> HIDE DEF m, at
    <3> QED
      BY <2>3
  <2>6. ASSUME NEW j \in 1 .. n
        PROVE  2 * j - 1 \in 1 .. m /\ at(2 * j - 1) = frame[j]
    <3>1. j \in Nat /\ j >= 1 /\ 2 * j - 1 \in 1 .. m
      BY <1>1
    <3> QED
      BY <3>1, OddPlaces
  <2>7. ASSUME NEW i \in 1 .. m, i % 2 = 1
        PROVE  \E j \in 1 .. n : i = 2 * j - 1
    <3> DEFINE j == (i + 1) \div 2
    <3>1. i = 2 * j - 1 /\ j \in Nat
      BY <2>7, <2>2, OddPlaces
    <3> HIDE DEF j
    <3>2. j \in 1 .. n
      BY <1>1, <3>1
    <3> QED
      BY <3>1, <3>2
  <2>8. ASSUME NEW i \in 1 .. m, i % 2 = 1
        PROVE  at(i) \in Lines /\ at(i) # "break"
    <3>1. PICK j \in 1 .. n : i = 2 * j - 1
      BY <2>7, <2>8
    <3>2. at(i) = frame[j]
      BY <2>6, <3>1
    <3> HIDE DEF at
    <3> QED
      BY <1>1, <3>2
  <2>9. ASSUME NEW i \in 1 .. m - 1
        PROVE  i % 2 = 1 \/ (i + 1 \in 1 .. m /\ (i + 1) % 2 = 1)
    <3>1. i \in Nat /\ i \in 1 .. m /\ i + 1 \in 1 .. m
      BY <2>2
    <3> QED
      BY <3>1, OddPlaces
  <2>10. m \in 1 .. m /\ m % 2 = 1
    BY <1>1, <2>1, <2>2, OddPlaces
  <2>11. \A i \in 1 .. m : i % 2 # 1 => at(i) = "break"
    OBVIOUS
  <2> HIDE DEF m, at
  <2>12. \A i \in 1 .. m : at(i) \in Lines \cup {"break"}
    BY <2>8, <2>11
  <2>13. \A i \in 1 .. m : at(i) = "break" \/ \E j \in 1 .. n : i = 2 * j - 1
    BY <2>7, <2>11
  <2>14. ASSUME NEW i \in 1 .. m - 1
         PROVE  at(i) # "break" \/ at(i + 1) # "break"
    <3>1. i \in 1 .. m
      BY <2>2
    <3> QED
      BY <2>8, <2>9, <3>1
  <2>15. at(m) # "break"
    BY <2>8, <2>10
  <2>16. \A i \in 1 .. m - 1 : i \in 1 .. m /\ i + 1 \in 1 .. m
    BY <2>2
  <2>17. Len(Text(frame)) = 2 * n - 1
    BY <2>4 DEF m
  <2> HIDE DEF n
  <2>18. \A i \in 1 .. m : Text(frame)[i] \in Lines \cup {"break"}
    BY <2>5, <2>12
  <2>19. \A j \in 1 .. n : 2 * j - 1 \in 1 .. m /\ Text(frame)[2 * j - 1] = frame[j]
    BY <2>5, <2>6
  <2>20. \A i \in 1 .. m : Text(frame)[i] = "break" \/ \E j \in 1 .. n : i = 2 * j - 1
    BY <2>5, <2>13
  <2>21. \A i \in 1 .. m - 1 : Text(frame)[i] # "break" \/ Text(frame)[i + 1] # "break"
    BY <2>5, <2>14, <2>16
  <2>22. Text(frame)[m] # "break"
    BY <2>5, <2>10, <2>15
  <2>23. Text(frame) \in Seq(Lines \cup {"break"})
    BY <2>2, <2>3, <2>12
  <2> QED
    BY <1>1, <1>3, <2>2, <2>4, <2>23, <2>17, <2>18, <2>19, <2>20, <2>21, <2>22 DEF n
<1> QED
  BY <1>2, <1>3

(* A whole frame ends at its only empty line.                               *)
BreaksAt(W, i) == W[i].text = "break" /\ W[i + 1].text = "break"

LEMMA WholeShape ==
  ASSUME NEW frame \in Seq(Lines), NEW n \in Nat
  PROVE  LET W == Whole(frame, n)
             m == Len(Text(frame)) IN
         /\ W \in Seq(Piece) /\ m \in Nat /\ Len(W) = m + 2
         /\ \A i \in 1 .. m + 2 : W[i].of = n
         /\ \A i \in 1 .. m : W[i].text = Text(frame)[i]
         /\ BreaksAt(W, m + 1)
         /\ \A i \in 1 .. m : ~BreaksAt(W, i)
<1> DEFINE T == Text(frame)
           m == Len(T)
           U == T \o <<"break", "break">>
           W == Whole(frame, n)
<1>1. m \in Nat /\ \A i \in 1 .. m : T[i] \in Lines \cup {"break"}
  BY TextShape
<1>2. T \in Seq(Lines \cup {"break"})
  BY TextShape
<1> DEFINE B == <<"break", "break">>
<1>3. B \in Seq(Lines \cup {"break"}) /\ Len(B) = 2 /\ B[1] = "break" /\ B[2] = "break"
  OBVIOUS
<1> HIDE DEF T, B
<1>4. /\ U \in Seq(Lines \cup {"break"}) /\ Len(U) = m + 2
      /\ \A i \in 1 .. m : U[i] = T[i]
      /\ U[m + 1] = "break" /\ U[m + 2] = "break"
  <2>1. B \in Seq(Lines \cup {"break"})
    BY <1>3
  <2>2. /\ T \o B \in Seq(Lines \cup {"break"}) /\ Len(T \o B) = Len(T) + Len(B)
        /\ \A i \in 1 .. Len(T) : (T \o B)[i] = T[i]
        /\ \A i \in 1 .. Len(B) : (T \o B)[Len(T) + i] = B[i]
    BY <1>2, <2>1, Joined
  <2>3. U = T \o B
    BY DEF B
  <2>4. 1 \in 1 .. 2 /\ 2 \in 1 .. 2
    OBVIOUS
  <2> HIDE DEF U
  <2> QED
    BY <1>3, <2>2, <2>3, <2>4
<1> HIDE DEF m
<1>5. W = [i \in 1 .. m + 2 |-> [text |-> U[i], of |-> n]]
  BY <1>4 DEF Whole, Pieces, T
<1> HIDE DEF U
<1>6. \A i \in 1 .. m + 2 : U[i] \in Lines \cup {"break"}
  BY <1>1, <1>4
<1>7. \A i \in 1 .. m + 2 : [text |-> U[i], of |-> n] \in Piece
  BY <1>6 DEF Piece, Lines, Line, DataLines, ChunkLines
<1> HIDE DEF W
<1>8. W \in Seq(Piece) /\ Len(W) = m + 2
  <2>1. m + 2 \in Nat
    BY <1>1
  <2> QED
    BY <1>5, <1>7, <2>1
<1>9. \A i \in 1 .. m + 2 : W[i].of = n /\ W[i].text = U[i]
  BY <1>5
<1>10. \A i \in 1 .. m : i \in 1 .. m + 2 /\ W[i].text = T[i]
  BY <1>1, <1>4, <1>9
<1>11. W[m + 1].text = "break" /\ W[m + 2].text = "break" /\ (m + 1) + 1 = m + 2
  BY <1>1, <1>4, <1>9
<1>12. ASSUME NEW i \in 1 .. m
       PROVE  W[i].text # "break" \/ W[i + 1].text # "break"
  <2>1. CASE i = m
    <3>1. m # 0
      BY <2>1
    <3>2. frame # <<>>
      BY <3>1, TextShape DEF m, T
    <3>3. T[m] # "break"
      BY <3>2, TextShape DEF m, T
    <3> QED
      BY <1>10, <2>1, <3>3
  <2>2. CASE i # m
    <3>1. i \in 1 .. m - 1 /\ i + 1 \in 1 .. m
      BY <1>1, <2>2
    <3>2. T[i] # "break" \/ T[i + 1] # "break"
      BY <3>1, TextShape DEF m, T
    <3> QED
      BY <1>10, <3>1, <3>2
  <2> QED
    BY <2>1, <2>2
<1> QED
  BY <1>1, <1>8, <1>9, <1>10, <1>11, <1>12 DEF BreaksAt, m, T, W

(* The part of a script that a reader who has read k frames reads next      *)
Part(s, k) == IF k < Len(s.frames) THEN Whole(s.frames[k + 1], k + 1) ELSE Pieces(s.tail, k + 1)

LEMMA ScriptTypes ==
  ASSUME NEW s \in Script
  PROVE  /\ Len(s.frames) \in Nat
         /\ \A k \in 1 .. Len(s.frames) : s.frames[k] \in Seq(Lines)
         /\ s.tail \in Rest /\ s.tail \in Seq({"a", "note", "break"})
<1>1. PICK n \in 0 .. MaxFrames : s.frames \in [1 .. n -> Frame]
  BY DEF Script
<1>2. n \in Nat
  BY <1>1, StreamAssumption
<1>3. Len(s.frames) = n
  BY <1>1, <1>2
<1>4. Frame \subseteq Seq(Lines)
  BY StreamAssumption DEF Lines, Line, DataLines, ChunkLines
<1>5. s.tail \in Rest
  BY DEF Script
<1>6. s.tail \in Seq({"a", "note", "break"})
  BY <1>5, StreamAssumption
<1> QED
  BY <1>1, <1>2, <1>3, <1>4, <1>5, <1>6

LEMMA TailShape ==
  ASSUME NEW tail \in Rest, NEW n \in Nat
  PROVE  /\ Pieces(tail, n) \in Seq(Piece)
         /\ Len(tail) \in Nat /\ Len(Pieces(tail, n)) = Len(tail)
         /\ \A i \in 1 .. Len(tail) : Pieces(tail, n)[i].of = n
         /\ \A i \in 1 .. Len(tail) - 1 : ~BreaksAt(Pieces(tail, n), i)
<1> DEFINE m == Len(tail)
<1>1. tail \in Seq({"a", "note", "break"})
  BY StreamAssumption
<1>2. m \in Nat /\ \A i \in 1 .. m : tail[i] \in {"a", "note", "break"}
  BY <1>1, LenProperties
<1>3. Pieces(tail, n) = [i \in 1 .. m |-> [text |-> tail[i], of |-> n]]
  BY DEF Pieces
<1>4. \A i \in 1 .. m - 1 : tail[i] # "break" \/ tail[i + 1] # "break"
  BY StreamAssumption
<1>5. \A i \in 1 .. m : [text |-> tail[i], of |-> n] \in Piece
  BY <1>2 DEF Piece, Line, DataLines, ChunkLines
<1> HIDE DEF m
<1>6. Pieces(tail, n) \in Seq(Piece) /\ Len(Pieces(tail, n)) = m
  BY <1>2, <1>3, <1>5
<1>7. \A i \in 1 .. m : Pieces(tail, n)[i].of = n /\ Pieces(tail, n)[i].text = tail[i]
  BY <1>3
<1>8. \A i \in 1 .. m - 1 : i \in 1 .. m /\ i + 1 \in 1 .. m
  BY <1>2
<1>9. \A i \in 1 .. m - 1 : ~BreaksAt(Pieces(tail, n), i)
  BY <1>4, <1>7, <1>8 DEF BreaksAt
<1> QED
  BY <1>2, <1>6, <1>7, <1>9 DEF m

LEMMA PartShape ==
  ASSUME NEW s \in Script, NEW k \in 0 .. Len(s.frames)
  PROVE  /\ Part(s, k) \in Seq(Piece) /\ Len(Part(s, k)) \in Nat
         /\ \A i \in 1 .. Len(Part(s, k)) : Part(s, k)[i].of = k + 1
         /\ \A i \in 1 .. Len(Part(s, k)) - 1 :
              BreaksAt(Part(s, k), i) <=> k < Len(s.frames) /\ i = Len(Part(s, k)) - 1
         /\ k < Len(s.frames) => Len(Part(s, k)) >= 2
<1>1. k \in Nat /\ k + 1 \in Nat /\ Len(s.frames) \in Nat
  BY ScriptTypes
<1>2. CASE k < Len(s.frames)
  <2> DEFINE frame == s.frames[k + 1]
             m == Len(Text(frame))
             W == Whole(frame, k + 1)
  <2>1. k + 1 \in 1 .. Len(s.frames)
    BY <1>1, <1>2
  <2>2. frame \in Seq(Lines)
    BY <2>1, ScriptTypes
  <2>3. Part(s, k) = W
    BY <1>2 DEF Part
  <2> HIDE DEF frame
  <2>4. /\ W \in Seq(Piece) /\ m \in Nat /\ Len(W) = m + 2
        /\ \A i \in 1 .. m + 2 : W[i].of = k + 1
        /\ BreaksAt(W, m + 1)
        /\ \A i \in 1 .. m : ~BreaksAt(W, i)
    BY <1>1, <2>2, WholeShape
  <2> HIDE DEF m, W
  <2>5. ASSUME NEW i \in 1 .. Len(W) - 1
        PROVE  BreaksAt(W, i) <=> i = Len(W) - 1
    <3>1. i \in 1 .. m \/ i = m + 1
      BY <2>4
    <3>2. Len(W) - 1 = m + 1
      BY <2>4
    <3>3. i \in 1 .. m => i # m + 1
      BY <2>4
    <3> QED
      BY <2>4, <3>1, <3>2, <3>3
  <2>6. Len(W) \in Nat /\ Len(W) >= 2
    BY <2>4
  <2> QED
    BY <1>2, <2>3, <2>4, <2>5, <2>6
<1>3. CASE ~(k < Len(s.frames))
  <2> DEFINE tail == s.tail
             W == Pieces(tail, k + 1)
  <2>1. Part(s, k) = W
    BY <1>3 DEF Part
  <2>2. tail \in Rest
    BY ScriptTypes
  <2> HIDE DEF tail
  <2>3. /\ W \in Seq(Piece)
        /\ Len(tail) \in Nat /\ Len(W) = Len(tail)
        /\ \A i \in 1 .. Len(tail) : W[i].of = k + 1
        /\ \A i \in 1 .. Len(tail) - 1 : ~BreaksAt(W, i)
    BY <1>1, <2>2, TailShape
  <2> HIDE DEF W
  <2> QED
    BY <1>3, <2>1, <2>3
<1> QED
  BY <1>2, <1>3

(* T[k] pieces come before the next part of a reader who has read k frames. *)
IsStart(s, T) ==
  /\ T \in [0 .. Len(s.frames) + 1 -> Nat]
  /\ T[0] = 0 /\ T[Len(s.frames) + 1] = Len(Sent(s))
  /\ \A k \in 0 .. Len(s.frames) :
       /\ T[k + 1] = T[k] + Len(Part(s, k))
       /\ \A j \in 1 .. Len(Part(s, k)) : Sent(s)[T[k] + j] = Part(s, k)[j]

LEMMA StartExists ==
  ASSUME NEW s \in Script
  PROVE  Sent(s) \in Seq(Piece) /\ Len(Sent(s)) \in Nat /\ \E T : IsStart(s, T)
<1> DEFINE n == Len(s.frames)
           seqs == [i \in 1 .. n |-> Whole(s.frames[i], i)]
           tail == Pieces(s.tail, n + 1)
<1>1. n \in Nat /\ n + 1 \in Nat
  BY ScriptTypes
<1>2. seqs \in [1 .. n -> Seq(Piece)]
  <2>1. ASSUME NEW i \in 1 .. n
        PROVE  Whole(s.frames[i], i) \in Seq(Piece)
    <3>1. s.frames[i] \in Seq(Lines) /\ i \in Nat
      BY <1>1, ScriptTypes
    <3> QED
      BY <3>1, WholeShape
  <2> QED
    BY <2>1
<1>3. tail \in Seq(Piece)
  BY <1>1, ScriptTypes, TailShape
<1>4. ASSUME NEW k \in 0 .. n, k < n
      PROVE  seqs[k + 1] = Part(s, k)
  <2>1. k + 1 \in 1 .. n
    BY <1>1, <1>4
  <2> QED
    BY <1>4, <2>1 DEF Part
<1>5. Part(s, n) = tail
  BY <1>1 DEF Part
<1>6. Sent(s) = FlattenSeq(seqs) \o tail
  BY DEF Sent
<1> HIDE DEF seqs, tail
<1>7. PICK f : Lays(f, seqs, Piece, n) /\ f[n] = FlattenSeq(seqs)
  <2> HIDE DEF n
  <2> QED
    BY <1>1, <1>2, FlattenLaysOut
<1> HIDE DEF n
<1>8. n \in 0 .. n /\ 0 \in 0 .. n
  BY <1>1
<1>9. \A k \in 0 .. n : f[k] \in Seq(Piece) /\ Len(f[k]) \in Nat
  BY <1>7, LenProperties DEF Lays
<1>10. /\ Sent(s) \in Seq(Piece) /\ Len(Sent(s)) \in Nat
       /\ Len(Sent(s)) = Len(f[n]) + Len(tail) /\ Len(tail) \in Nat
       /\ \A j \in 1 .. Len(f[n]) : Sent(s)[j] = f[n][j]
       /\ \A j \in 1 .. Len(tail) : Sent(s)[Len(f[n]) + j] = tail[j]
  BY <1>3, <1>6, <1>7, <1>8, <1>9, Joined
<1> DEFINE T == [k \in 0 .. n + 1 |-> IF k = n + 1 THEN Len(Sent(s)) ELSE Len(f[k])]
<1>11. T \in [0 .. n + 1 -> Nat]
  BY <1>1, <1>9, <1>10
<1>12. T[n + 1] = Len(Sent(s)) /\ \A k \in 0 .. n : T[k] = Len(f[k])
  BY <1>1
<1>13. T[0] = 0
  BY <1>7, <1>8, <1>12 DEF Lays
<1> HIDE DEF T
<1>14. ASSUME NEW k \in 0 .. n, k < n
       PROVE  /\ T[k + 1] = T[k] + Len(Part(s, k))
              /\ \A j \in 1 .. Len(Part(s, k)) : Sent(s)[T[k] + j] = Part(s, k)[j]
  <2> DEFINE W == Part(s, k)
  <2>1. k + 1 \in 0 .. n /\ k + 1 \in 1 .. n
    BY <1>1, <1>14
  <2>2. f[k + 1] = f[k] \o W /\ f[k] \in Seq(Piece) /\ W \in Seq(Piece)
    <3>1. f[k + 1] = f[k] \o seqs[k + 1]
      BY <1>7, <1>14 DEF Lays
    <3>2. seqs[k + 1] \in Seq(Piece)
      BY <1>2, <2>1
    <3> QED
      BY <1>4, <1>9, <1>14, <3>1, <3>2
  <2> HIDE DEF W
  <2>3. /\ Len(f[k]) \in Nat /\ Len(W) \in Nat /\ Len(f[k + 1]) = Len(f[k]) + Len(W)
        /\ \A j \in 1 .. Len(W) : f[k + 1][Len(f[k]) + j] = W[j]
    BY <2>2, Joined
  <2>4. Len(f[k + 1]) <= Len(f[n]) /\ \A j \in 1 .. Len(f[k + 1]) : f[n][j] = f[k + 1][j]
    BY <1>7, <2>1 DEF Lays
  <2>5. T[k] = Len(f[k]) /\ T[k + 1] = Len(f[k + 1])
    BY <1>12, <2>1
  <2>6. ASSUME NEW j \in 1 .. Len(W)
        PROVE  Sent(s)[T[k] + j] = W[j]
    <3> DEFINE p == Len(f[k]) + j
    <3>1. p \in 1 .. Len(f[k + 1])
      BY <2>3
    <3>2. p \in 1 .. Len(f[n])
      <4>1. Len(f[n]) \in Nat /\ Len(f[k + 1]) <= Len(f[n])
        BY <1>8, <1>9, <2>4
      <4> HIDE DEF p
      <4> QED
        BY <2>3, <3>1, <4>1
    <3>3. f[k + 1][p] = W[j]
      BY <2>3
    <3> HIDE DEF p
    <3>4. Sent(s)[p] = W[j]
      BY <1>10, <2>4, <3>1, <3>2, <3>3
    <3> QED
      BY <2>5, <3>4 DEF p
  <2> QED
    BY <2>3, <2>5, <2>6 DEF W
<1>15. /\ T[n + 1] = T[n] + Len(Part(s, n))
       /\ \A j \in 1 .. Len(Part(s, n)) : Sent(s)[T[n] + j] = Part(s, n)[j]
  BY <1>5, <1>8, <1>10, <1>12
<1>16. \A k \in 0 .. n : k = n \/ k < n
  BY <1>1
<1>17. IsStart(s, T)
  BY <1>11, <1>12, <1>13, <1>14, <1>15, <1>16 DEF IsStart, n
<1> QED
  BY <1>10, <1>17

LEMMA StartsAscend ==
  ASSUME NEW s \in Script, NEW T, IsStart(s, T)
  PROVE  \A k \in 0 .. Len(s.frames) + 1 : \A i \in 0 .. k : T[i] <= T[k]
<1> DEFINE n == Len(s.frames) + 1
           P == {k \in 0 .. n : \A i \in 0 .. k : T[i] <= T[k]}
<1>1. n \in Nat /\ n = Len(s.frames) + 1 /\ Len(s.frames) \in Nat
  BY ScriptTypes
<1>2. \A k \in 0 .. n : T[k] \in Nat
  BY DEF IsStart
<1>3. ASSUME NEW k \in 0 .. n, k < n
      PROVE  T[k] <= T[k + 1] /\ k + 1 \in 0 .. n
  <2>1. k \in 0 .. Len(s.frames) /\ k + 1 \in 0 .. n
    BY <1>1, <1>3
  <2>2. T[k + 1] = T[k] + Len(Part(s, k)) /\ Len(Part(s, k)) \in Nat
    BY <2>1, PartShape DEF IsStart
  <2> HIDE DEF n
  <2> QED
    BY <1>2, <2>1, <2>2
<1> HIDE DEF n
<1>4. 0 \in P
  <2>1. \A i \in 0 .. 0 : i = 0
    OBVIOUS
  <2>2. 0 \in 0 .. n /\ T[0] <= T[0]
    BY <1>1, <1>2
  <2> QED
    BY <2>1, <2>2
<1>5. ASSUME NEW k \in 0 .. n, k \in P, k < n
      PROVE  k + 1 \in P
  <2>1. T[k] <= T[k + 1] /\ k + 1 \in 0 .. n /\ T[k] \in Nat /\ T[k + 1] \in Nat
    BY <1>2, <1>3, <1>5
  <2>2. ASSUME NEW i \in 0 .. k + 1
        PROVE  T[i] <= T[k + 1]
    <3>1. CASE i = k + 1
      BY <2>1, <3>1
    <3>2. CASE i # k + 1
      <4>1. i \in 0 .. k /\ i \in 0 .. n
        BY <1>1, <3>2
      <4>2. T[i] <= T[k] /\ T[i] \in Nat
        BY <1>2, <1>5, <4>1
      <4> QED
        BY <2>1, <4>2
    <3> QED
      BY <3>1, <3>2
  <2> QED
    BY <2>1, <2>2
<1>6. \A k \in 0 .. n : k \in P /\ k < n => k + 1 \in P
  BY <1>5
<1> HIDE DEF P
<1>7. \A k \in 0 .. n : k \in P
  BY <1>1, <1>4, <1>6, HoldsUpTo
<1> QED
  BY <1>7 DEF P, n

(* Every piece names the frame that it lies in.                             *)
LEMMA PiecesNameTheirFrame ==
  ASSUME NEW s \in Script, NEW T, IsStart(s, T),
         NEW p \in 1 .. Len(Sent(s)), NEW i \in 0 .. Len(s.frames)
  PROVE  Sent(s)[p].of \in Nat /\ (Sent(s)[p].of > i <=> T[i] < p)
<1> DEFINE n == Len(s.frames)
           P == {k \in 0 .. n + 1 : T[k] < p}
<1>1. n \in Nat /\ n + 1 \in Nat /\ p \in Nat /\ Len(Sent(s)) \in Nat /\ p >= 1
      /\ p <= Len(Sent(s))
  BY ScriptTypes, StartExists
<1>2. \A k \in 0 .. n + 1 : T[k] \in Nat
  BY DEF IsStart
<1>3. PICK k \in 0 .. n : T[k] < p /\ p <= T[k + 1]
  <2>1. SUFFICES ASSUME \A k \in 0 .. n : T[k] < p => ~(p <= T[k + 1]) PROVE FALSE
    OBVIOUS
  <2>2. 0 \in P
    BY <1>1 DEF IsStart
  <2>3. ASSUME NEW k \in 0 .. n + 1, k \in P, k < n + 1
        PROVE  k + 1 \in P
    <3>1. k \in 0 .. n /\ k + 1 \in 0 .. n + 1 /\ T[k] < p
      BY <1>1, <2>3
    <3>2. ~(p <= T[k + 1]) /\ T[k + 1] \in Nat
      BY <1>2, <2>1, <3>1
    <3>3. T[k + 1] < p
      BY <1>1, <3>2
    <3> QED
      BY <3>1, <3>3
  <2>4. \A k \in 0 .. n + 1 : k \in P /\ k < n + 1 => k + 1 \in P
    BY <2>3
  <2>5. n + 1 \in 0 .. n + 1
    BY <1>1
  <2> HIDE DEF P
  <2>6. n + 1 \in P
    BY <1>1, <2>2, <2>4, <2>5, HoldsUpTo
  <2>7. T[n + 1] < p
    BY <2>6 DEF P
  <2>8. T[n + 1] = Len(Sent(s))
    BY DEF IsStart
  <2> QED
    BY <1>1, <2>7, <2>8
<1> HIDE DEF P
<1> DEFINE j == p - T[k]
<1>4. k \in Nat /\ T[k] \in Nat /\ T[k + 1] \in Nat
      /\ k \in 0 .. n + 1 /\ k + 1 \in 0 .. n + 1
  BY <1>1, <1>2
<1>5. T[k + 1] = T[k] + Len(Part(s, k)) /\ Len(Part(s, k)) \in Nat
  BY PartShape DEF IsStart
<1>6. j \in 1 .. Len(Part(s, k)) /\ T[k] + j = p
  BY <1>1, <1>3, <1>4, <1>5
<1> HIDE DEF j
<1>7. Sent(s)[p] = Part(s, k)[j]
  BY <1>6 DEF IsStart
<1>8. Sent(s)[p].of = k + 1
  BY <1>6, <1>7, PartShape
<1>9. CASE i <= k
  <2>1. i \in 0 .. k /\ i \in 0 .. n + 1
    BY <1>1, <1>9
  <2>2. T[i] <= T[k] /\ T[i] \in Nat
    BY <1>2, <1>4, <2>1, StartsAscend
  <2> HIDE DEF n
  <2> QED
    BY <1>1, <1>3, <1>4, <1>8, <1>9, <2>1, <2>2
<1>10. CASE ~(i <= k)
  <2>1. k + 1 \in 0 .. i /\ i \in 0 .. n + 1 /\ i \in Nat
    BY <1>1, <1>4, <1>10
  <2>2. T[k + 1] <= T[i] /\ T[i] \in Nat
    BY <1>2, <1>4, <2>1, StartsAscend
  <2> HIDE DEF n
  <2> QED
    BY <1>1, <1>3, <1>4, <1>8, <1>10, <2>1, <2>2
<1> QED
  BY <1>9, <1>10

-----------------------------------------------------------------------------
(* What the pieces of a frame say is what its lines say                     *)

PiecesOf(q, frame, n) ==
  /\ q \in Seq(Piece) /\ Len(q) = Len(Text(frame))
  /\ \A i \in 1 .. Len(q) : q[i].text = Text(frame)[i] /\ q[i].of = n

LEMMA PieceShape ==
  ASSUME NEW frame \in Seq(Lines), NEW n, NEW q, PiecesOf(q, frame, n)
  PROVE  /\ Len(frame) \in Nat /\ Len(q) \in Nat
         /\ \A j \in 1 .. Len(frame) : /\ 2 * j - 1 \in 1 .. Len(q)
                                       /\ Text(frame)[2 * j - 1] = frame[j]
         /\ \A i \in 1 .. Len(q) :
              Text(frame)[i] = "break" \/ \E j \in 1 .. Len(frame) : i = 2 * j - 1
         /\ \A i \in 1 .. Len(q) : q[i].text = Text(frame)[i]
<1>1. /\ Len(frame) \in Nat /\ Len(Text(frame)) \in Nat
      /\ \A j \in 1 .. Len(frame) : /\ 2 * j - 1 \in 1 .. Len(Text(frame))
                                    /\ Text(frame)[2 * j - 1] = frame[j]
      /\ \A i \in 1 .. Len(Text(frame)) :
           Text(frame)[i] = "break" \/ \E j \in 1 .. Len(frame) : i = 2 * j - 1
  BY TextShape
<1>2. Len(q) = Len(Text(frame)) /\ \A i \in 1 .. Len(q) : q[i].text = Text(frame)[i]
  BY DEF PiecesOf
<1> QED
  BY <1>1, <1>2

LEMMA DataPlaces ==
  ASSUME NEW frame \in Seq(Lines), NEW n, NEW q, PiecesOf(q, frame, n)
  PROVE  /\ \A j \in DataOf(frame) : 2 * j - 1 \in Data(q) /\ q[2 * j - 1].text = frame[j]
         /\ \A i \in Data(q) : \E j \in DataOf(frame) : i = 2 * j - 1
         /\ \A i \in DataOf(frame) : i \in Nat
<1>1. /\ Len(frame) \in Nat /\ Len(q) \in Nat
      /\ \A j \in 1 .. Len(frame) : 2 * j - 1 \in 1 .. Len(q) /\ Text(frame)[2 * j - 1] = frame[j]
      /\ \A i \in 1 .. Len(q) :
           Text(frame)[i] = "break" \/ \E j \in 1 .. Len(frame) : i = 2 * j - 1
  BY PieceShape
<1>2. \A i \in 1 .. Len(q) : q[i].text = Text(frame)[i]
  BY PieceShape
<1>3. ASSUME NEW j \in DataOf(frame)
      PROVE  2 * j - 1 \in Data(q) /\ q[2 * j - 1].text = frame[j] /\ j \in Nat
  <2>1. j \in 1 .. Len(frame) /\ frame[j] \in DataLines
    BY DEF DataOf, DataLines
  <2>2. 2 * j - 1 \in 1 .. Len(q) /\ q[2 * j - 1].text = frame[j]
    BY <1>1, <1>2, <2>1
  <2>3. 2 * j - 1 \in Data(q)
    BY <2>1, <2>2 DEF Data, DataLines
  <2> QED
    BY <1>1, <2>1, <2>2, <2>3
<1>4. ASSUME NEW i \in Data(q)
      PROVE  \E j \in DataOf(frame) : i = 2 * j - 1
  <2>1. i \in 1 .. Len(q) /\ q[i].text \in DataLines
    BY DEF Data, DataLines
  <2>2. Text(frame)[i] \in DataLines
    BY <1>2, <2>1
  <2>3. PICK j \in 1 .. Len(frame) : i = 2 * j - 1
    BY <1>1, <2>1, <2>2 DEF DataLines, ChunkLines
  <2>4. frame[j] \in DataLines
    BY <1>1, <2>2, <2>3
  <2> QED
    BY <2>3, <2>4 DEF DataOf, DataLines
<1> QED
  BY <1>3, <1>4

(* The lines that say something are matched, in their order.               *)
LEMMA WordPlaces ==
  ASSUME NEW frame \in Seq(Lines), NEW n, NEW q, PiecesOf(q, frame, n)
  PROVE  /\ \A j \in WordsOf(frame) : 2 * j - 1 \in Said(q) /\ q[2 * j - 1].text = frame[j]
         /\ \A i \in Said(q) : \E j \in WordsOf(frame) : i = 2 * j - 1
         /\ \A i \in WordsOf(frame) : i \in Nat
BY DataPlaces DEF WordsOf, Said

LEMMA AloneSays ==
  ASSUME NEW frame \in Seq(Lines), NEW n, NEW q, PiecesOf(q, frame, n), NEW text
  PROVE  Alone(q, text) <=> \E j \in WordsOf(frame) : WordsOf(frame) = {j} /\ frame[j] = text
<1> DEFINE D == WordsOf(frame)
           E == Said(q)
<1>1. /\ \A j \in D : 2 * j - 1 \in E /\ q[2 * j - 1].text = frame[j]
      /\ \A i \in E : \E j \in D : i = 2 * j - 1
      /\ \A i \in D : i \in Nat
  BY WordPlaces
<1> HIDE DEF D, E
<1>2. ASSUME NEW i \in E, E = {i}, q[i].text = text
      PROVE  \E j \in D : D = {j} /\ frame[j] = text
  <2>1. PICK j \in D : i = 2 * j - 1
    BY <1>1
  <2>2. \A k \in D : k = j
    <3> TAKE k \in D
    <3>1. 2 * k - 1 = 2 * j - 1 /\ k \in Nat /\ j \in Nat
      BY <1>1, <1>2, <2>1
    <3> QED
      BY <3>1
  <2>3. D = {j} /\ frame[j] = text
    BY <1>1, <1>2, <2>1, <2>2
  <2> QED
    BY <2>3
<1>3. ASSUME NEW j \in D, D = {j}, frame[j] = text
      PROVE  \E i \in E : E = {i} /\ q[i].text = text
  <2>1. 2 * j - 1 \in E /\ q[2 * j - 1].text = text
    BY <1>1, <1>3
  <2>2. E = {2 * j - 1}
    BY <1>1, <1>3, <2>1
  <2> QED
    BY <2>1, <2>2
<1> QED
  BY <1>2, <1>3 DEF Alone, D, E

LEMMA SplitSays ==
  ASSUME NEW frame \in Seq(Lines), NEW n, NEW q, PiecesOf(q, frame, n)
  PROVE  SplitChunk(q) <=>
           \E j, k \in WordsOf(frame) :
             j < k /\ WordsOf(frame) = {j, k} /\ frame[j] = "head" /\ frame[k] = "tail"
<1> DEFINE D == WordsOf(frame)
           E == Said(q)
<1>1. /\ \A j \in D : 2 * j - 1 \in E /\ q[2 * j - 1].text = frame[j]
      /\ \A i \in E : \E j \in D : i = 2 * j - 1
      /\ \A i \in D : i \in Nat
  BY WordPlaces
<1>2. \A j, k \in Nat : /\ 2 * j - 1 = 2 * k - 1 <=> j = k
                       /\ 2 * j - 1 < 2 * k - 1 <=> j < k
  OBVIOUS
<1> HIDE DEF D, E
<1>3. ASSUME NEW x \in E, NEW y \in E, x < y, E = {x, y}, q[x].text = "head", q[y].text = "tail"
      PROVE  \E j, k \in D : j < k /\ D = {j, k} /\ frame[j] = "head" /\ frame[k] = "tail"
  <2>1. PICK j \in D : x = 2 * j - 1
    BY <1>1
  <2>2. PICK k \in D : y = 2 * k - 1
    BY <1>1
  <2>3. j \in Nat /\ k \in Nat /\ j < k
    BY <1>1, <1>2, <1>3, <2>1, <2>2
  <2>4. ASSUME NEW l \in D PROVE l = j \/ l = k
    <3>1. l \in Nat /\ (2 * l - 1 = x \/ 2 * l - 1 = y)
      BY <1>1, <1>3
    <3> QED
      BY <1>2, <2>1, <2>2, <2>3, <3>1
  <2>5. D = {j, k}
    BY <2>4
  <2>6. frame[j] = "head" /\ frame[k] = "tail"
    BY <1>1, <1>3, <2>1, <2>2
  <2> QED
    BY <2>3, <2>5, <2>6
<1>4. ASSUME NEW j \in D, NEW k \in D, j < k, D = {j, k}, frame[j] = "head", frame[k] = "tail"
      PROVE  \E x, y \in E : x < y /\ E = {x, y} /\ q[x].text = "head" /\ q[y].text = "tail"
  <2>1. /\ 2 * j - 1 \in E /\ q[2 * j - 1].text = "head"
        /\ 2 * k - 1 \in E /\ q[2 * k - 1].text = "tail"
    BY <1>1, <1>4
  <2>2. j \in Nat /\ k \in Nat /\ 2 * j - 1 < 2 * k - 1
    BY <1>1, <1>2, <1>4
  <2>3. \A x \in E : x = 2 * j - 1 \/ x = 2 * k - 1
    BY <1>1, <1>4
  <2>4. E = {2 * j - 1, 2 * k - 1}
    BY <2>1, <2>3
  <2> QED
    BY <2>1, <2>2, <2>4
<1> QED
  BY <1>3, <1>4 DEF SplitChunk, D, E

LEMMA DataSays ==
  ASSUME NEW frame \in Seq(Lines), NEW n, NEW q, PiecesOf(q, frame, n)
  PROVE  /\ Data(q) = {} <=> DataOf(frame) = {}
         /\ \A text : Says(q, text) <=> Holds(frame, text)
         /\ "junk" \in Texts(q) <=> \E j \in 1 .. Len(frame) : frame[j] = "junk"
         /\ q = <<>> <=> frame = <<>>
         /\ frame = <<>> => DataOf(frame) = {}
<1> DEFINE D == DataOf(frame)
           E == Data(q)
<1>1. /\ \A j \in D : 2 * j - 1 \in E /\ q[2 * j - 1].text = frame[j]
      /\ \A i \in E : \E j \in D : i = 2 * j - 1
      /\ \A i \in D : i \in Nat
  BY DataPlaces
<1>2. \A text : Says(q, text) <=> Holds(frame, text)
  BY AloneSays, SplitSays, Zenon DEF Says, Holds
<1>3. E = {} <=> D = {}
  <2> HIDE DEF D, E
  <2> QED
    BY <1>1
<1>4. /\ Len(frame) \in Nat /\ Len(q) \in Nat
      /\ \A j \in 1 .. Len(frame) : 2 * j - 1 \in 1 .. Len(q) /\ Text(frame)[2 * j - 1] = frame[j]
      /\ \A i \in 1 .. Len(q) :
           Text(frame)[i] = "break" \/ \E j \in 1 .. Len(frame) : i = 2 * j - 1
      /\ \A i \in 1 .. Len(q) : q[i].text = Text(frame)[i]
  BY PieceShape
<1>5. "junk" \in Texts(q) <=> \E j \in 1 .. Len(frame) : frame[j] = "junk"
  <2>1. ASSUME NEW i \in 1 .. Len(q), q[i].text = "junk"
        PROVE  \E j \in 1 .. Len(frame) : frame[j] = "junk"
    <3>1. Text(frame)[i] = "junk"
      BY <1>4, <2>1
    <3>2. PICK j \in 1 .. Len(frame) : i = 2 * j - 1
      BY <1>4, <3>1
    <3> QED
      BY <1>4, <3>1, <3>2
  <2>2. ASSUME NEW j \in 1 .. Len(frame), frame[j] = "junk"
        PROVE  \E i \in 1 .. Len(q) : q[i].text = "junk"
    BY <1>4, <2>2
  <2> QED
    BY <2>1, <2>2 DEF Texts
<1>6. q = <<>> <=> frame = <<>>
  <2>1. q \in Seq(Piece) /\ Len(q) = IF frame = <<>> THEN 0 ELSE 2 * Len(frame) - 1
    BY TextShape DEF PiecesOf
  <2>2. Len(frame) = 0 <=> frame = <<>>
    OBVIOUS
  <2>3. Len(q) = 0 <=> q = <<>>
    BY <2>1
  <2>4. frame # <<>> => 2 * Len(frame) - 1 # 0
    BY <1>4, <2>2
  <2> QED
    BY <2>1, <2>3, <2>4
<1>7. frame = <<>> => D = {}
  BY DEF DataOf
<1> QED
  BY <1>2, <1>3, <1>5, <1>6, <1>7

(* What is recorded of a frame that holds a chunk                           *)
LineOf(q) == [of |-> q[CHOOSE i \in Data(q) : TRUE].of,
              text |-> IF Says(q, "a") THEN "a" ELSE "b"]

LEMMA LineSays ==
  ASSUME NEW frame \in Seq(Lines), NEW n, NEW q, PiecesOf(q, frame, n)
  PROVE  /\ LineOf(q).text \in {"a", "b"}
         /\ Says(q, LineOf(q).text) <=> IsChunk(frame)
         /\ IsChunk(frame) => LineOf(q).of = n /\ Holds(frame, LineOf(q).text)
<1>1. \A text : Says(q, text) <=> Holds(frame, text)
  BY DataSays
<1>2. LineOf(q).text = IF Says(q, "a") THEN "a" ELSE "b"
  BY DEF LineOf
<1>3. LineOf(q).text \in {"a", "b"} /\ (Says(q, LineOf(q).text) <=> IsChunk(frame))
  BY <1>1, <1>2 DEF IsChunk
<1>4. ASSUME IsChunk(frame)
      PROVE  LineOf(q).of = n
  <2>1. DataOf(frame) # {}
    BY <1>4 DEF IsChunk, Holds, WordsOf
  <2>2. (CHOOSE i \in Data(q) : TRUE) \in Data(q)
    BY <2>1, DataSays
  <2>3. (CHOOSE i \in Data(q) : TRUE) \in 1 .. Len(q)
    BY <2>2 DEF Data
  <2> QED
    BY <2>3 DEF PiecesOf, LineOf
<1> QED
  BY <1>1, <1>3, <1>4

LEMMA OneText ==
  ASSUME NEW frame
  PROVE  /\ \A t, u : Holds(frame, t) /\ Holds(frame, u) => t = u
         /\ IsDone(frame) => ~IsChunk(frame) /\ DataOf(frame) # {}
         /\ IsChunk(frame) => DataOf(frame) # {}
         /\ IsChunk(frame) <=> \E t \in {"a", "b"} : Holds(frame, t)
<1>1. \A t, u : Holds(frame, t) /\ Holds(frame, u) => t = u
  BY DEF Holds
<1>2. IsDone(frame) => ~IsChunk(frame)
  BY <1>1 DEF IsDone, IsChunk
<1>3. (IsDone(frame) \/ IsChunk(frame)) => DataOf(frame) # {}
  BY DEF IsDone, IsChunk, Holds, WordsOf
<1>4. IsChunk(frame) <=> \E t \in {"a", "b"} : Holds(frame, t)
  BY DEF IsChunk
<1> QED
  BY <1>1, <1>2, <1>3, <1>4

-----------------------------------------------------------------------------
(* The reference, one frame further                                         *)

Follows(frames, i) ==
  /\ \A j \in 1 .. Len(frames[i]) : frames[i][j] # "junk"
  /\ DataOf(frames[i]) = {} \/ IsDone(frames[i]) \/ IsChunk(frames[i])
  /\ frames[i] # <<>> => \A j \in 1 .. i - 1 : ~IsDone(frames[j])
  /\ IsChunk(frames[i]) =>
       \A j \in 1 .. i - 1 : IsChunk(frames[j]) => SameText(frames[j], frames[i])

SomeDone(frames, k) == \E i \in 1 .. k : IsDone(frames[i])

LEMMA OneFrameFurther ==
  ASSUME NEW frames, NEW k \in Nat
  PROVE  /\ Acceptable(frames, k + 1) <=> Acceptable(frames, k) /\ Follows(frames, k + 1)
         /\ ChunksTo(frames, k + 1) =
              ChunksTo(frames, k) \cup (IF IsChunk(frames[k + 1]) THEN {k + 1} ELSE {})
         /\ SomeDone(frames, k + 1) <=> SomeDone(frames, k) \/ IsDone(frames[k + 1])
<1>1. 1 .. k + 1 = (1 .. k) \cup {k + 1}
  OBVIOUS
<1>2. \A m : Acceptable(frames, m) <=> \A i \in 1 .. m : Follows(frames, i)
  BY DEF Acceptable, Follows
<1>3. Acceptable(frames, k + 1) <=> Acceptable(frames, k) /\ Follows(frames, k + 1)
  BY <1>1, <1>2
<1>4. ChunksTo(frames, k + 1) =
        ChunksTo(frames, k) \cup (IF IsChunk(frames[k + 1]) THEN {k + 1} ELSE {})
  BY <1>1 DEF ChunksTo
<1>5. SomeDone(frames, k + 1) <=> SomeDone(frames, k) \/ IsDone(frames[k + 1])
  BY <1>1 DEF SomeDone
<1> QED
  BY <1>3, <1>4, <1>5

LEMMA NothingYet ==
  ASSUME NEW frames
  PROVE  Acceptable(frames, 0) /\ ChunksTo(frames, 0) = {} /\ ~SomeDone(frames, 0)
         /\ Lists(<<>>, frames, 0)
<1>1. 1 .. 0 = {}
  OBVIOUS
<1>2. Acceptable(frames, 0)
  BY <1>1 DEF Acceptable
<1>3. ChunksTo(frames, 0) = {} /\ ~SomeDone(frames, 0)
  BY <1>1 DEF ChunksTo, SomeDone
<1>4. Ascends(<<>>) /\ ToSet(<<>>) = {}
  BY DEF Ascends, ToSet
<1> QED
  BY <1>2, <1>3, <1>4 DEF Lists

LEMMA ListsOneMore ==
  ASSUME NEW frames, NEW k \in Nat, NEW numbers \in Seq(Nat), Lists(numbers, frames, k),
         IsChunk(frames[k + 1])
  PROVE  Lists(Append(numbers, k + 1), frames, k + 1)
<1> DEFINE n == Len(numbers)
           longer == Append(numbers, k + 1)
<1>1. n \in Nat
  OBVIOUS
<1>2. /\ Len(longer) = n + 1 /\ longer[n + 1] = k + 1
      /\ \A i \in 1 .. n : longer[i] = numbers[i]
      /\ longer \in Seq(Nat) /\ DOMAIN longer = 1 .. n + 1
  <2>1. k + 1 \in Nat
    OBVIOUS
  <2> QED
    BY <2>1, AppendProperties
<1>3. \A i \in 1 .. n : numbers[i] \in ChunksTo(frames, k) /\ numbers[i] \in Nat /\ numbers[i] <= k
  <2>1. \A i \in 1 .. n : numbers[i] \in ToSet(numbers)
    BY DEF ToSet
  <2>2. \A c \in ChunksTo(frames, k) : c \in Nat /\ c <= k
    BY DEF ChunksTo
  <2> QED
    BY <2>1, <2>2 DEF Lists
<1> HIDE DEF longer
<1>4. Ascends(longer)
  <2> SUFFICES ASSUME NEW i \in 1 .. n + 1, NEW j \in 1 .. n + 1, i < j
               PROVE  longer[i] < longer[j]
    BY <1>2 DEF Ascends
  <2>1. i \in 1 .. n
    BY <1>1
  <2>2. CASE j = n + 1
    <3>1. numbers[i] < k + 1
      BY <1>3, <2>1
    <3> QED
      BY <1>2, <2>1, <2>2, <3>1
  <2>3. CASE j # n + 1
    <3>1. j \in 1 .. n
      <4> HIDE DEF n
      <4>1. \A m \in Nat : \A x \in 1 .. m + 1 : x # m + 1 => x \in 1 .. m
        OBVIOUS
      <4> QED
        BY <1>1, <2>3, <4>1
    <3>2. numbers[i] < numbers[j]
      BY <2>1, <3>1 DEF Lists, Ascends
    <3> QED
      BY <1>2, <2>1, <3>1, <3>2
  <2> QED
    BY <2>2, <2>3
<1>5. ToSet(longer) = ToSet(numbers) \cup {k + 1}
  <2>1. ToSet(longer) = {longer[i] : i \in 1 .. n + 1}
    BY <1>2 DEF ToSet
  <2>2. ToSet(numbers) = {numbers[i] : i \in 1 .. n}
    BY DEF ToSet
  <2>3. 1 .. n + 1 = (1 .. n) \cup {n + 1}
    BY <1>1
  <2> HIDE DEF n
  <2>4. ASSUME NEW i \in 1 .. n
        PROVE  longer[i] = numbers[i] /\ i \in 1 .. n + 1
    BY <1>2, <2>3
  <2>5. ToSet(longer) \subseteq ToSet(numbers) \cup {k + 1}
    <3>1. ASSUME NEW i \in 1 .. n + 1
          PROVE  longer[i] \in ToSet(numbers) \cup {k + 1}
      <4>1. i \in 1 .. n \/ i = n + 1
        BY <2>3
      <4> QED
        BY <1>2, <2>2, <2>4, <4>1
    <3> QED
      BY <2>1, <3>1
  <2>6. ToSet(numbers) \subseteq ToSet(longer)
    BY <2>1, <2>2, <2>4
  <2>7. k + 1 \in ToSet(longer)
    <3>1. n + 1 \in 1 .. n + 1
      BY <2>3
    <3> QED
      BY <1>2, <2>1, <3>1
  <2> QED
    BY <2>5, <2>6, <2>7
<1>6. ChunksTo(frames, k + 1) = ChunksTo(frames, k) \cup {k + 1}
  BY OneFrameFurther
<1> QED
  BY <1>4, <1>5, <1>6 DEF Lists, longer

-----------------------------------------------------------------------------
(* SseValidator agrees with the reference, frame by frame                   *)

(* G is what the frames read before have been turned into.                  *)
Agrees(v, G, frames, k) ==
  /\ v \in Parser /\ ~v.error
  /\ Acceptable(frames, k)
  /\ v.done <=> SomeDone(frames, k)
  /\ v.count >= 1 <=> ChunksTo(frames, k) # {}
  /\ v.message = NoMessage <=> ChunksTo(frames, k) = {}
  /\ \A i \in ChunksTo(frames, k) : Holds(frames[i], v.message)
  /\ Lists(G \o v.emitted, frames, k)

LEMMA NextFollows ==
  ASSUME NEW frames, NEW k \in Nat, frames[k + 1] \in Seq(Lines),
         NEW G, NEW v, Agrees(v, G, frames, k),
         NEW q, PiecesOf(q, frames[k + 1], k + 1)
  PROVE  Follows(frames, k + 1) <=>
           \/ q = <<>>
           \/ /\ ~v.done /\ "junk" \notin Texts(q)
              /\ \/ Data(q) = {}
                 \/ Says(q, "done")
                 \/ Says(q, LineOf(q).text) /\ SameMessage(v, LineOf(q).text)
<1> DEFINE frame == frames[k + 1]
           text == LineOf(q).text
<1>1. /\ Data(q) = {} <=> DataOf(frame) = {}
      /\ Says(q, "done") <=> IsDone(frame)
      /\ Says(q, text) <=> IsChunk(frame)
      /\ "junk" \in Texts(q) <=> \E j \in 1 .. Len(frame) : frame[j] = "junk"
      /\ q = <<>> <=> frame = <<>>
      /\ frame = <<>> => DataOf(frame) = {}
  BY DataSays, LineSays DEF IsDone
<1>2. IsChunk(frame) => text \in {"a", "b"} /\ Holds(frame, text)
  BY LineSays
<1>3. /\ IsDone(frame) => ~IsChunk(frame) /\ DataOf(frame) # {}
      /\ IsChunk(frame) => DataOf(frame) # {}
      /\ \A t, u : Holds(frame, t) /\ Holds(frame, u) => t = u
  BY OneText
<1>4. (k + 1) - 1 = k
  OBVIOUS
<1>5. v.done <=> \E j \in 1 .. k : IsDone(frames[j])
  BY DEF Agrees, SomeDone
<1>6. ASSUME IsChunk(frame)
      PROVE  SameMessage(v, text) <=>
               \A j \in 1 .. k : IsChunk(frames[j]) => SameText(frames[j], frame)
  <2>1. text \in {"a", "b"} /\ Holds(frame, text)
    BY <1>2, <1>6
  <2>2. ASSUME v.message = text
        PROVE  \A j \in 1 .. k : IsChunk(frames[j]) => SameText(frames[j], frame)
    <3> SUFFICES ASSUME NEW j \in 1 .. k, IsChunk(frames[j]), NEW t \in {"a", "b"}
                 PROVE  Holds(frames[j], t) <=> Holds(frame, t)
      BY DEF SameText
    <3>1. Holds(frames[j], text)
      BY <2>2 DEF Agrees, ChunksTo
    <3>2. Holds(frames[j], t) <=> t = text
      BY <3>1, OneText
    <3>3. Holds(frame, t) <=> t = text
      BY <1>3, <2>1
    <3> QED
      BY <3>2, <3>3
  <2>3. ASSUME v.message = NoMessage
        PROVE  \A j \in 1 .. k : ~IsChunk(frames[j])
    BY <2>3 DEF Agrees, ChunksTo
  <2>4. ASSUME v.message # text, v.message # NoMessage
        PROVE  \E j \in 1 .. k : IsChunk(frames[j]) /\ ~SameText(frames[j], frame)
    <3>1. PICK j \in ChunksTo(frames, k) : Holds(frames[j], v.message)
      BY <2>4 DEF Agrees
    <3>2. j \in 1 .. k /\ IsChunk(frames[j])
      BY <3>1 DEF ChunksTo
    <3>3. ~Holds(frames[j], text)
      BY <2>4, <3>1, OneText
    <3>4. ~SameText(frames[j], frame)
      BY <2>1, <3>3 DEF SameText
    <3> QED
      BY <3>2, <3>4
  <2> HIDE DEF frame, text
  <2> QED
    BY <2>2, <2>3, <2>4 DEF SameMessage
<1>7. Follows(frames, k + 1) <=>
        /\ \A j \in 1 .. Len(frame) : frame[j] # "junk"
        /\ DataOf(frame) = {} \/ IsDone(frame) \/ IsChunk(frame)
        /\ frame # <<>> => \A j \in 1 .. k : ~IsDone(frames[j])
        /\ IsChunk(frame) => \A j \in 1 .. k : IsChunk(frames[j]) => SameText(frames[j], frame)
  BY <1>4 DEF Follows
<1>8. frame = <<>> => \A j \in 1 .. Len(frame) : FALSE
  OBVIOUS
<1> HIDE DEF frame, text
<1>9. Follows(frames, k + 1) <=>
        \/ q = <<>>
        \/ /\ ~v.done /\ "junk" \notin Texts(q)
           /\ \/ Data(q) = {}
              \/ Says(q, "done")
              \/ Says(q, text) /\ SameMessage(v, text)
  <2>1. CASE frame = <<>>
    BY <1>1, <1>3, <1>7, <1>8, <2>1
  <2>2. CASE frame # <<>>
    <3>1. Follows(frames, k + 1) <=>
            /\ "junk" \notin Texts(q)
            /\ DataOf(frame) = {} \/ IsDone(frame) \/ IsChunk(frame)
            /\ ~v.done
            /\ IsChunk(frame) => SameMessage(v, text)
      BY <1>1, <1>5, <1>6, <1>7, <2>2
    <3> QED
      BY <1>1, <1>3, <2>2, <3>1
  <2> QED
    BY <2>1, <2>2
<1> QED
  BY <1>9 DEF text

LEMMA JoinedLonger ==
  ASSUME NEW G \in Seq(Nat), NEW e \in Seq(Nat), NEW n \in Nat
  PROVE  G \o e \in Seq(Nat) /\ Append(e, n) \in Seq(Nat) /\ G \o Append(e, n) = Append(G \o e, n)
<1>1. Append(e, n) = e \o <<n>> /\ <<n>> \in Seq(Nat)
  BY AppendIsConcat
<1>2. G \o e \in Seq(Nat)
  BY Joined
<1>3. Append(G \o e, n) = (G \o e) \o <<n>>
  BY <1>2, AppendIsConcat
<1>4. (G \o e) \o <<n>> = G \o (e \o <<n>>)
  BY <1>1, ConcatAssociative
<1>5. Append(e, n) \in Seq(Nat)
  BY AppendProperties
<1> QED
  BY <1>1, <1>2, <1>3, <1>4, <1>5

(* A reader, field by field                                                 *)
Reader(buffer, emitted, done, count, message, error) ==
  [buffer |-> buffer, emitted |-> emitted, done |-> done, count |-> count,
   message |-> message, error |-> error]

Fields(b, e, d, c, m, r) ==
  /\ b \in Seq(Piece) /\ e \in Seq(Nat) /\ d \in BOOLEAN /\ c \in Nat
  /\ m \in {"a", "b", NoMessage} /\ r \in BOOLEAN

LEMMA IsAReader ==
  ASSUME NEW v \in Parser
  PROVE  \E b, e, d, c, m, r : Fields(b, e, d, c, m, r) /\ v = Reader(b, e, d, c, m, r)
<1>1. v = Reader(v.buffer, v.emitted, v.done, v.count, v.message, v.error)
  BY DEF Reader, Parser
<1>2. Fields(v.buffer, v.emitted, v.done, v.count, v.message, v.error)
  BY DEF Fields, Parser
<1> QED
  BY Zenon, <1>1, <1>2

LEMMA ReaderTypes ==
  ASSUME NEW b, NEW e, NEW d, NEW c, NEW m, NEW r, Fields(b, e, d, c, m, r)
  PROVE  Reader(b, e, d, c, m, r) \in Parser
BY DEF Reader, Fields, Parser

ChunkRead(v, line) ==
  [v EXCEPT !.count = @ + 1, !.message = line.text, !.emitted = Append(@, line.of)]

LEMMA ReaderOfChunk ==
  ASSUME NEW v, NEW b, NEW e, NEW d, NEW c, NEW m, NEW r, v = Reader(b, e, d, c, m, r),
         NEW line
  PROVE  ChunkRead(v, line) = Reader(b, Append(e, line.of), d, c + 1, line.text, r)
<1> DEFINE emitted == Append(e, line.of)
           text == line.text
           count == c + 1
<1>1. v.emitted = e /\ v.count = c
  BY DEF Reader
<1>2. ChunkRead(v, line)
        = [[[v EXCEPT !.count = count] EXCEPT !.message = text] EXCEPT !.emitted = emitted]
  BY <1>1 DEF ChunkRead
<1> HIDE DEF emitted, text, count
<1>3. [v EXCEPT !.count = count] = Reader(b, e, d, count, m, r)
  BY DEF Reader
<1>4. [Reader(b, e, d, count, m, r) EXCEPT !.message = text] = Reader(b, e, d, count, text, r)
  BY DEF Reader
<1>5. [Reader(b, e, d, count, text, r) EXCEPT !.emitted = emitted]
        = Reader(b, emitted, d, count, text, r)
  BY DEF Reader
<1>6. ChunkRead(v, line) = Reader(b, emitted, d, count, text, r)
  BY <1>2, <1>3, <1>4, <1>5
<1> QED
  BY <1>6 DEF emitted, text, count

WithDone(v) == [v EXCEPT !.done = TRUE]
Counted(v) == [v EXCEPT !.count = @ + 1]

LEMMA ReaderSays ==
  ASSUME NEW b, NEW e, NEW d, NEW c, NEW m, NEW r
  PROVE  Reader(b, e, d, c, m, r).done = d /\ Reader(b, e, d, c, m, r).error = r
BY DEF Reader

LEMMA DoneFields ==
  ASSUME NEW v \in Parser
  PROVE  /\ WithDone(v) \in Parser /\ WithDone(v).done
         /\ WithDone(v).buffer = v.buffer /\ WithDone(v).emitted = v.emitted
         /\ WithDone(v).count = v.count /\ WithDone(v).message = v.message
         /\ WithDone(v).error = v.error
<1> DEFINE true == TRUE
<1>1. PICK b, e, d, c, m, r : Fields(b, e, d, c, m, r) /\ v = Reader(b, e, d, c, m, r)
  BY IsAReader
<1>2. Fields(b, e, true, c, m, r)
  BY <1>1 DEF Fields
<1>3. WithDone(v) = [v EXCEPT !.done = true] /\ true
  BY DEF WithDone
<1> HIDE DEF true
<1>4. WithDone(v) = Reader(b, e, true, c, m, r)
  BY <1>1, <1>3 DEF Reader
<1>5. WithDone(v) \in Parser
  BY <1>2, <1>4, ReaderTypes
<1>6. /\ WithDone(v).buffer = v.buffer /\ WithDone(v).emitted = v.emitted
      /\ WithDone(v).count = v.count /\ WithDone(v).message = v.message
      /\ WithDone(v).error = v.error
  BY <1>1, <1>4 DEF Reader
<1>7. WithDone(v).done = true
  BY <1>4, ReaderSays
<1> QED
  BY <1>3, <1>5, <1>6, <1>7

LEMMA RejectedFields ==
  ASSUME NEW v \in Parser
  PROVE  Rejected(v) \in Parser /\ Rejected(v).error
<1> DEFINE true == TRUE
<1>1. PICK b, e, d, c, m, r : Fields(b, e, d, c, m, r) /\ v = Reader(b, e, d, c, m, r)
  BY IsAReader
<1>2. Fields(b, e, d, c, m, true)
  BY <1>1 DEF Fields
<1>3. Rejected(v) = [v EXCEPT !.error = true] /\ true
  BY DEF Rejected
<1> HIDE DEF true
<1>4. Rejected(v) = Reader(b, e, d, c, m, true)
  BY <1>1, <1>3 DEF Reader
<1>5. Rejected(v) \in Parser
  BY <1>2, <1>4, ReaderTypes
<1>6. Rejected(v).error = true
  BY <1>4, ReaderSays
<1> QED
  BY <1>3, <1>5, <1>6

LEMMA CountedFields ==
  ASSUME NEW v \in Parser
  PROVE  Counted(v) \in Parser
<1>1. PICK b, e, d, c, m, r : Fields(b, e, d, c, m, r) /\ v = Reader(b, e, d, c, m, r)
  BY IsAReader
<1>2. Fields(b, e, d, c + 1, m, r)
  BY <1>1 DEF Fields
<1>3. Counted(v) = Reader(b, e, d, c + 1, m, r)
  BY <1>1 DEF Counted, Reader
<1> QED
  BY <1>2, <1>3, ReaderTypes

LEMMA ChunkFields ==
  ASSUME NEW v \in Parser, NEW line, line.of \in Nat, line.text \in {"a", "b"}
  PROVE  LET w == ChunkRead(v, line) IN
         /\ w \in Parser /\ v.emitted \in Seq(Nat) /\ v.count \in Nat
         /\ w.buffer = v.buffer /\ w.emitted = Append(v.emitted, line.of) /\ w.done = v.done
         /\ w.count = v.count + 1 /\ w.message = line.text /\ w.error = v.error
<1> DEFINE emitted == Append(v.emitted, line.of)
           text == line.text
           count == v.count + 1
           w == ChunkRead(v, line)
<1>1. PICK b, e, d, c, m, r : Fields(b, e, d, c, m, r) /\ v = Reader(b, e, d, c, m, r)
  BY IsAReader
<1>2. v.emitted = e /\ v.count = c
  BY <1>1 DEF Reader
<1>3. emitted \in Seq(Nat) /\ count \in Nat /\ text \in {"a", "b"}
  BY <1>1, <1>2, AppendProperties DEF Fields
<1>4. w = [[[v EXCEPT !.count = count] EXCEPT !.message = text] EXCEPT !.emitted = emitted]
  BY DEF ChunkRead
<1> HIDE DEF emitted, text, count, w
<1>5. [v EXCEPT !.count = count] = Reader(b, e, d, count, m, r)
  BY <1>1 DEF Reader
<1>6. [Reader(b, e, d, count, m, r) EXCEPT !.message = text] = Reader(b, e, d, count, text, r)
  BY DEF Reader
<1>7. [Reader(b, e, d, count, text, r) EXCEPT !.emitted = emitted]
        = Reader(b, emitted, d, count, text, r)
  BY DEF Reader
<1>8. w = Reader(b, emitted, d, count, text, r)
  BY <1>4, <1>5, <1>6, <1>7
<1>9. Fields(b, emitted, d, count, text, r)
  BY <1>1, <1>3 DEF Fields
<1>10. w \in Parser
  BY <1>8, <1>9, ReaderTypes
<1>11. /\ w.buffer = v.buffer /\ w.emitted = emitted /\ w.done = v.done
       /\ w.count = count /\ w.message = text /\ w.error = v.error
  BY <1>1, <1>8 DEF Reader
<1>12. v.emitted \in Seq(Nat) /\ v.count \in Nat
  BY <1>1, <1>2 DEF Fields
<1> QED
  BY <1>10, <1>11, <1>12 DEF emitted, text, count, w

(* What validate_frame makes of an acceptable frame, case by case           *)
NextLine(v, frames, k, line) ==
  /\ line.of = k + 1 /\ line.text \in {"a", "b"}
  /\ Holds(frames[k + 1], line.text) /\ SameMessage(v, line.text)

LEMMA ChunkAgrees ==
  ASSUME NEW frames, NEW k \in Nat, NEW G \in Seq(Nat), NEW v, Agrees(v, G, frames, k),
         Follows(frames, k + 1), IsChunk(frames[k + 1]), NEW line, NextLine(v, frames, k, line)
  PROVE  Agrees(ChunkRead(v, line), G, frames, k + 1) /\ ChunkRead(v, line).buffer = v.buffer
<1> USE DEF NextLine
<1> DEFINE w == ChunkRead(v, line)
<1>1. k + 1 \in Nat
  OBVIOUS
<1>2. v \in Parser
  BY DEF Agrees
<1>4. /\ w \in Parser
      /\ w.buffer = v.buffer /\ w.emitted = Append(v.emitted, k + 1) /\ w.done = v.done
      /\ w.count = v.count + 1 /\ w.message = line.text /\ w.error = v.error
  BY <1>1, <1>2, ChunkFields
<1>14. v.emitted \in Seq(Nat) /\ v.count \in Nat
  BY <1>1, <1>2, ChunkFields
<1> HIDE DEF w
<1>6. ~w.error
  BY <1>4 DEF Agrees
<1>7. /\ Acceptable(frames, k + 1)
      /\ ChunksTo(frames, k + 1) = ChunksTo(frames, k) \cup {k + 1}
      /\ SomeDone(frames, k + 1) <=> SomeDone(frames, k)
  <2>1. ~IsDone(frames[k + 1])
    BY OneText
  <2> QED
    BY <2>1, OneFrameFurther DEF Agrees
<1>8. w.done <=> SomeDone(frames, k + 1)
  BY <1>4, <1>7 DEF Agrees
<1>9. w.count >= 1 /\ ChunksTo(frames, k + 1) # {} /\ w.message # NoMessage
  <2>1. w.count >= 1
    BY <1>4, <1>14
  <2>2. w.message # NoMessage
    BY <1>4 DEF NoMessage
  <2> QED
    BY <1>7, <2>1, <2>2
<1>10. \A i \in ChunksTo(frames, k + 1) : Holds(frames[i], w.message)
  <2>1. ASSUME NEW i \in ChunksTo(frames, k)
        PROVE  Holds(frames[i], line.text)
    <3>1. v.message # NoMessage /\ Holds(frames[i], v.message)
      BY DEF Agrees
    <3> QED
      BY <3>1 DEF SameMessage
  <2> QED
    BY <1>4, <1>7, <2>1
<1>11. Lists(G \o w.emitted, frames, k + 1)
  <2>1. Lists(Append(G \o v.emitted, k + 1), frames, k + 1)
    <3>1. G \o v.emitted \in Seq(Nat)
      BY <1>14, Joined
    <3>2. Lists(G \o v.emitted, frames, k)
      BY DEF Agrees
    <3> QED
      BY <3>1, <3>2, ListsOneMore
  <2>2. G \o Append(v.emitted, k + 1) = Append(G \o v.emitted, k + 1)
    BY <1>1, <1>14, JoinedLonger
  <2> QED
    BY <1>4, <2>1, <2>2
<1>12. Agrees(w, G, frames, k + 1)
  BY <1>4, <1>6, <1>7, <1>8, <1>9, <1>10, <1>11 DEF Agrees
<1> QED
  BY <1>4, <1>12 DEF w

LEMMA DoneAgrees ==
  ASSUME NEW frames, NEW k \in Nat, NEW G, NEW v, Agrees(v, G, frames, k),
         Follows(frames, k + 1), IsDone(frames[k + 1])
  PROVE  Agrees(WithDone(v), G, frames, k + 1) /\ WithDone(v).buffer = v.buffer
<1> DEFINE w == WithDone(v)
<1>1. v \in Parser
  BY DEF Agrees
<1>4. /\ w \in Parser /\ w.done
      /\ w.buffer = v.buffer /\ w.emitted = v.emitted
      /\ w.count = v.count /\ w.message = v.message /\ w.error = v.error
  BY <1>1, DoneFields
<1> HIDE DEF w
<1>5. /\ Acceptable(frames, k + 1)
      /\ ChunksTo(frames, k + 1) = ChunksTo(frames, k)
      /\ SomeDone(frames, k + 1)
  <2>1. ~IsChunk(frames[k + 1])
    BY OneText
  <2>2. Acceptable(frames, k)
    BY DEF Agrees
  <2>3. /\ Acceptable(frames, k + 1) <=> Acceptable(frames, k) /\ Follows(frames, k + 1)
        /\ ChunksTo(frames, k + 1) =
             ChunksTo(frames, k) \cup (IF IsChunk(frames[k + 1]) THEN {k + 1} ELSE {})
        /\ SomeDone(frames, k + 1) <=> SomeDone(frames, k) \/ IsDone(frames[k + 1])
    BY OneFrameFurther
  <2>4. ChunksTo(frames, k + 1) = ChunksTo(frames, k)
    BY <2>1, <2>3
  <2> QED
    BY <2>2, <2>3, <2>4
<1>6. Lists(G \o w.emitted, frames, k + 1)
  <2>1. Lists(G \o v.emitted, frames, k)
    BY DEF Agrees
  <2>2. Lists(G \o v.emitted, frames, k + 1)
    BY <1>5, <2>1 DEF Lists
  <2> QED
    BY <1>4, <2>2
<1>7. Agrees(w, G, frames, k + 1)
  BY <1>4, <1>5, <1>6 DEF Agrees
<1> QED
  BY <1>4, <1>7 DEF w

LEMMA SilentAgrees ==
  ASSUME NEW frames, NEW k \in Nat, NEW G, NEW v, Agrees(v, G, frames, k),
         Follows(frames, k + 1), DataOf(frames[k + 1]) = {}
  PROVE  Agrees(v, G, frames, k + 1)
<1>1. /\ Acceptable(frames, k + 1)
      /\ ChunksTo(frames, k + 1) = ChunksTo(frames, k)
      /\ SomeDone(frames, k + 1) <=> SomeDone(frames, k)
  <2>1. ~IsChunk(frames[k + 1]) /\ ~IsDone(frames[k + 1])
    BY OneText
  <2> QED
    BY <2>1, OneFrameFurther DEF Agrees
<1>2. Lists(G \o v.emitted, frames, k + 1)
  BY <1>1 DEF Agrees, Lists
<1> QED
  BY <1>1, <1>2 DEF Agrees

LEMMA FrameRead ==
  ASSUME NEW frames, NEW k \in Nat, frames[k + 1] \in Seq(Lines),
         NEW G \in Seq(Nat), NEW v, Agrees(v, G, frames, k),
         NEW q, PiecesOf(q, frames[k + 1], k + 1)
  PROVE  \/ /\ Agrees(Validated(v, q), G, frames, k + 1)
            /\ Validated(v, q).buffer = v.buffer
         \/ Validated(v, q).error /\ Validated(v, q) \in Parser /\ ~Acceptable(frames, k + 1)
<1> DEFINE frame == frames[k + 1]
           line == LineOf(q)
           ok == \/ q = <<>>
                 \/ /\ ~v.done /\ "junk" \notin Texts(q)
                    /\ \/ Data(q) = {}
                       \/ Says(q, "done")
                       \/ Says(q, line.text) /\ SameMessage(v, line.text)
<1>1. Follows(frames, k + 1) <=> ok
  BY NextFollows
<1>2. Acceptable(frames, k + 1) => Follows(frames, k + 1)
  BY OneFrameFurther
<1>3. /\ Data(q) = {} <=> DataOf(frame) = {}
      /\ Says(q, "done") <=> IsDone(frame)
      /\ Says(q, line.text) <=> IsChunk(frame)
      /\ q = <<>> => DataOf(frame) = {}
  BY DataSays, LineSays DEF IsDone
<1>4. IsChunk(frame) => line.of = k + 1 /\ line.text \in {"a", "b"} /\ Holds(frame, line.text)
  BY LineSays
<1>5. IsDone(frame) => ~IsChunk(frame) /\ Data(q) # {}
  BY <1>3, OneText
<1>6. IsChunk(frame) => Data(q) # {}
  BY <1>3, OneText
<1>7. v \in Parser
  BY DEF Agrees
<1>8. /\ Rejected(v).error /\ Rejected(v) \in Parser
      /\ Rejected(Counted(v)).error /\ Rejected(Counted(v)) \in Parser
  BY <1>7, RejectedFields, CountedFields
<1> HIDE DEF line
<1>9. /\ q = <<>> => Validated(v, q) = v
      /\ q # <<>> /\ (v.done \/ "junk" \in Texts(q)) => Validated(v, q) = Rejected(v)
      /\ q # <<>> /\ ~v.done /\ "junk" \notin Texts(q) =>
           Validated(v, q) =
             IF Data(q) = {} THEN v
             ELSE IF Says(q, "done") THEN WithDone(v)
             ELSE IF Says(q, line.text) /\ SameMessage(v, line.text) THEN ChunkRead(v, line)
             ELSE Rejected(Counted(v))
  BY DEF Validated, line, LineOf, ChunkRead, WithDone, Counted
<1>10. CASE ~ok
  <2>1. ~Acceptable(frames, k + 1)
    BY <1>1, <1>2, <1>10
  <2>2. Validated(v, q) \in {Rejected(v), Rejected(Counted(v))}
    BY <1>9, <1>10
  <2> QED
    BY <1>8, <2>1, <2>2
<1>11. CASE ok
  <2>1. Follows(frames, k + 1)
    BY <1>1, <1>11
  <2>2. CASE q = <<>> \/ Data(q) = {}
    <3>1. Validated(v, q) = v
      BY <1>9, <1>11, <2>2
    <3>2. DataOf(frame) = {}
      BY <1>3, <2>2
    <3>3. Agrees(v, G, frames, k + 1)
      BY <2>1, <3>2, SilentAgrees
    <3> QED
      BY <3>1, <3>3
  <2>3. CASE q # <<>> /\ Data(q) # {} /\ Says(q, "done")
    <3>1. Validated(v, q) = WithDone(v)
      BY <1>9, <1>11, <2>3
    <3>2. IsDone(frame)
      BY <1>3, <2>3
    <3>3. Agrees(WithDone(v), G, frames, k + 1) /\ WithDone(v).buffer = v.buffer
      BY <2>1, <3>2, DoneAgrees
    <3> QED
      BY <3>1, <3>3
  <2>4. CASE q # <<>> /\ Data(q) # {} /\ ~Says(q, "done")
    <3>1. Says(q, line.text) /\ SameMessage(v, line.text)
      BY <1>11, <2>4
    <3>2. Validated(v, q) = ChunkRead(v, line)
      BY <1>9, <1>11, <2>4, <3>1
    <3>3. IsChunk(frame)
      BY <1>3, <3>1
    <3>4. line.of = k + 1 /\ line.text \in {"a", "b"} /\ Holds(frame, line.text)
      BY <1>4, <3>3
    <3>5. Agrees(ChunkRead(v, line), G, frames, k + 1) /\ ChunkRead(v, line).buffer = v.buffer
      <4>1. NextLine(v, frames, k, line)
        BY <3>1, <3>4 DEF NextLine
      <4> HIDE DEF ok
      <4> QED
        BY <2>1, <3>3, <4>1, ChunkAgrees
    <3> QED
      BY <3>2, <3>5
  <2> QED
    BY <2>2, <2>3, <2>4
<1> QED
  BY <1>10, <1>11

-----------------------------------------------------------------------------
(* SseValidator agrees with the reference, piece by piece                   *)

(* p pieces have been read, k frames among them; the rest is in the buffer. *)
Reads(v, G, s, T, k, p) ==
  /\ k \in 0 .. Len(s.frames) /\ p \in 0 .. Len(Sent(s))
  /\ Agrees(v, G, s.frames, k)
  /\ T[k] <= p /\ (k < Len(s.frames) => p < T[k + 1])
  /\ Len(v.buffer) = p - T[k]
  /\ \A j \in 1 .. Len(v.buffer) : v.buffer[j] = Sent(s)[T[k] + j]

Refuses(v, s, T, p) ==
  /\ v \in Parser /\ v.error
  /\ \E n \in 0 .. Len(s.frames) : T[n] <= p /\ ~Acceptable(s.frames, n)

WithBuffer(v, buffer) == [v EXCEPT !.buffer = buffer]

LEMMA BufferFields ==
  ASSUME NEW v \in Parser, NEW buffer \in Seq(Piece)
  PROVE  LET w == WithBuffer(v, buffer) IN
         /\ w \in Parser /\ w.buffer = buffer /\ w.emitted = v.emitted /\ w.done = v.done
         /\ w.count = v.count /\ w.message = v.message /\ w.error = v.error
<1>1. PICK b, e, d, c, m, r : Fields(b, e, d, c, m, r) /\ v = Reader(b, e, d, c, m, r)
  BY IsAReader
<1> DEFINE x == buffer
           w == WithBuffer(v, x)
<1>2. Fields(x, e, d, c, m, r)
  BY <1>1 DEF Fields
<1> HIDE DEF x
<1>3. w = Reader(x, e, d, c, m, r)
  BY <1>1 DEF WithBuffer, Reader
<1> HIDE DEF w
<1>4. w \in Parser
  BY <1>2, <1>3, ReaderTypes
<1>5. /\ w.buffer = x /\ w.emitted = v.emitted
      /\ w.count = v.count /\ w.message = v.message
  BY <1>1, <1>3 DEF Reader
<1>6. w.done = v.done /\ w.error = v.error
  BY <1>1, <1>3, ReaderSays
<1> QED
  BY <1>4, <1>5, <1>6 DEF x, w

LEMMA BufferAgrees ==
  ASSUME NEW v, NEW G, NEW frames, NEW k, Agrees(v, G, frames, k), NEW buffer \in Seq(Piece)
  PROVE  Agrees(WithBuffer(v, buffer), G, frames, k) /\ WithBuffer(v, buffer).buffer = buffer
<1> DEFINE w == WithBuffer(v, buffer)
<1>1. /\ w \in Parser /\ w.buffer = buffer /\ w.emitted = v.emitted /\ w.done = v.done
      /\ w.count = v.count /\ w.message = v.message /\ w.error = v.error
  BY BufferFields DEF Agrees
<1> HIDE DEF w
<1>2. Agrees(w, G, frames, k)
  BY <1>1 DEF Agrees
<1> QED
  BY <1>1, <1>2 DEF w

(* What Fed makes of the buffer                                             *)
LEMMA BufferGrows ==
  ASSUME NEW s \in Script, NEW T, IsStart(s, T), NEW G, NEW v, NEW k, NEW p,
         Reads(v, G, s, T, k, p), p < Len(Sent(s))
  PROVE  LET buffer == Append(v.buffer, Sent(s)[p + 1])
             n == Len(buffer)
             W == Part(s, k) IN
         /\ buffer \in Seq(Piece) /\ n \in Nat /\ n >= 1
         /\ p + 1 = T[k] + n /\ p + 1 <= T[k + 1] /\ n <= Len(W)
         /\ \A j \in 1 .. n : buffer[j] = Sent(s)[T[k] + j] /\ buffer[j] = W[j]
<1> DEFINE piece == Sent(s)[p + 1]
           buffer == Append(v.buffer, piece)
           n == Len(buffer)
           W == Part(s, k)
           m == Len(v.buffer)
<1>1. /\ k \in 0 .. Len(s.frames) /\ p \in 0 .. Len(Sent(s)) /\ T[k] <= p
      /\ (k < Len(s.frames) => p < T[k + 1]) /\ m = p - T[k]
      /\ \A j \in 1 .. m : v.buffer[j] = Sent(s)[T[k] + j]
      /\ v \in Parser
  BY DEF Reads, Agrees
<1>2. /\ Len(s.frames) \in Nat /\ k \in Nat /\ p \in Nat
      /\ Sent(s) \in Seq(Piece) /\ Len(Sent(s)) \in Nat
  BY <1>1, ScriptTypes, StartExists
<1>3. /\ k \in 0 .. Len(s.frames) + 1 /\ k + 1 \in 0 .. Len(s.frames) + 1
      /\ T[k] \in Nat /\ T[k + 1] \in Nat
  <2>1. k \in 0 .. Len(s.frames) + 1 /\ k + 1 \in 0 .. Len(s.frames) + 1
    BY <1>1, <1>2
  <2>2. \A i \in 0 .. Len(s.frames) + 1 : T[i] \in Nat
    BY DEF IsStart
  <2> QED
    BY <2>1, <2>2
<1>4. T[k + 1] = T[k] + Len(W) /\ Len(W) \in Nat
      /\ \A j \in 1 .. Len(W) : Sent(s)[T[k] + j] = W[j]
  BY <1>1, PartShape DEF IsStart
<1>5. p + 1 <= T[k + 1]
  <2>1. CASE k < Len(s.frames)
    BY <1>1, <1>2, <1>3, <2>1
  <2>2. CASE ~(k < Len(s.frames))
    <3>1. k + 1 = Len(s.frames) + 1
      BY <1>1, <1>2, <2>2
    <3>2. T[k + 1] = Len(Sent(s))
      BY <3>1 DEF IsStart
    <3> QED
      BY <1>2, <3>2
  <2> QED
    BY <2>1, <2>2
<1>6. piece \in Piece
  <2>1. p + 1 \in 1 .. Len(Sent(s))
    BY <1>2
  <2> QED
    BY <1>2, <2>1
<1>7. v.buffer \in Seq(Piece) /\ m \in Nat
  BY <1>1 DEF Parser
<1> HIDE DEF piece
<1>8. /\ buffer \in Seq(Piece) /\ n = m + 1
      /\ \A j \in 1 .. m : buffer[j] = v.buffer[j]
      /\ buffer[m + 1] = piece
  BY <1>6, <1>7, AppendProperties
<1> HIDE DEF buffer, n, W, m
<1>9. n \in Nat /\ n >= 1 /\ p + 1 = T[k] + n /\ n <= Len(W)
  <2>1. m = p - T[k] /\ T[k + 1] = T[k] + Len(W) /\ Len(W) \in Nat /\ n = m + 1
    BY <1>1, <1>4, <1>8
  <2>2. p \in Nat /\ T[k] \in Nat /\ m \in Nat /\ p + 1 <= T[k + 1]
    BY <1>2, <1>3, <1>5, <1>7
  <2> DEFINE t == T[k]
  <2>3. p \in Nat /\ t \in Nat /\ m \in Nat /\ m = p - t /\ n = m + 1
    BY <2>1, <2>2
  <2> HIDE DEF t
  <2>8. n \in Nat /\ n >= 1 /\ p + 1 = t + n
    BY <2>3
  <2>4. n \in Nat /\ n >= 1 /\ p + 1 = T[k] + n
    BY <2>8 DEF t
  <2>5. \A a, b, c \in Nat : a + b <= a + c => b <= c
    OBVIOUS
  <2>6. T[k] + n <= T[k] + Len(W)
    BY <2>1, <2>2, <2>4
  <2>7. n <= Len(W)
    BY <2>1, <2>2, <2>4, <2>5, <2>6
  <2> QED
    BY <2>4, <2>7
<1>10. ASSUME NEW j \in 1 .. n
       PROVE  buffer[j] = Sent(s)[T[k] + j] /\ buffer[j] = W[j]
  <2>1. j \in 1 .. Len(W)
    BY <1>4, <1>9
  <2>2. buffer[j] = Sent(s)[T[k] + j]
    <3>1. CASE j = m + 1
      <4>1. T[k] + j = p + 1
        BY <1>2, <1>3, <1>8, <1>9, <3>1
      <4> QED
        BY <1>8, <3>1, <4>1 DEF piece
    <3>2. CASE j # m + 1
      <4>1. j \in 1 .. m
        BY <1>7, <1>8, <3>2
      <4> QED
        BY <1>1, <1>8, <4>1
    <3> QED
      BY <3>1, <3>2
  <2> QED
    BY <1>4, <2>1, <2>2
<1> QED
  BY <1>5, <1>8, <1>9, <1>10 DEF buffer, n, W, piece

(* The pieces before the two breaks are those of the frame.                 *)
LEMMA CutsTheFrame ==
  ASSUME NEW s \in Script, NEW k \in 0 .. Len(s.frames), k < Len(s.frames),
         NEW buffer \in Seq(Piece), Len(buffer) = Len(Part(s, k)),
         \A j \in 1 .. Len(buffer) : buffer[j] = Part(s, k)[j]
  PROVE  /\ s.frames[k + 1] \in Seq(Lines)
         /\ PiecesOf(SubSeq(buffer, 1, Len(buffer) - 2), s.frames[k + 1], k + 1)
<1> DEFINE frame == s.frames[k + 1]
           m == Len(Text(frame))
           W == Whole(frame, k + 1)
           n == Len(buffer)
           q == SubSeq(buffer, 1, n - 2)
<1>1. k \in Nat /\ k + 1 \in Nat /\ k + 1 \in 1 .. Len(s.frames)
  BY ScriptTypes
<1>2. frame \in Seq(Lines)
  BY <1>1, ScriptTypes
<1>3. Part(s, k) = W
  BY DEF Part
<1> HIDE DEF frame
<1>4. /\ m \in Nat /\ Len(W) = m + 2
      /\ \A i \in 1 .. m + 2 : W[i].of = k + 1
      /\ \A i \in 1 .. m : W[i].text = Text(frame)[i]
  BY <1>1, <1>2, WholeShape
<1> HIDE DEF m, W
<1>5. n = m + 2 /\ n - 2 = m
  BY <1>3, <1>4
<1>6. \A i \in 1 .. m : i \in 1 .. n /\ buffer[i] \in Piece
  BY <1>4, <1>5
<1>7. q \in Seq(Piece) /\ Len(q) = m /\ \A i \in 1 .. m : q[i] = buffer[i]
  <2>1. q = SubSeq(buffer, 1, m)
    BY <1>5
  <2> HIDE DEF q
  <2>2. m \in Int /\ 1 \in Int /\ (m - 1) + 1 = m /\ \A i \in 1 .. m : (1 + i) - 1 = i
    BY <1>4
  <2> QED
    BY <1>4, <1>6, <2>1, <2>2, SubSeqProperties
<1> HIDE DEF q, n
<1>8. ASSUME NEW i \in 1 .. m
      PROVE  q[i].text = Text(frame)[i] /\ q[i].of = k + 1
  <2>1. i \in 1 .. m + 2 /\ i \in 1 .. n
    BY <1>4, <1>5
  <2>2. q[i] = W[i]
    BY <1>3, <1>7, <2>1 DEF n
  <2> QED
    BY <1>4, <2>1, <2>2
<1>9. PiecesOf(q, frame, k + 1)
  BY <1>7, <1>8 DEF PiecesOf, m
<1> QED
  BY <1>2, <1>9 DEF frame, q, n

LEMMA PieceRead ==
  ASSUME NEW s \in Script, NEW T, IsStart(s, T), NEW G \in Seq(Nat), NEW v, NEW k, NEW p,
         Reads(v, G, s, T, k, p), p < Len(Sent(s))
  PROVE  \/ \E l : Reads(Fed(v, Sent(s)[p + 1]), G, s, T, l, p + 1)
         \/ Refuses(Fed(v, Sent(s)[p + 1]), s, T, p + 1)
<1> DEFINE buffer == Append(v.buffer, Sent(s)[p + 1])
           n == Len(buffer)
           W == Part(s, k)
           w == Fed(v, Sent(s)[p + 1])
           ends == n >= 2 /\ buffer[n].text = "break" /\ buffer[n - 1].text = "break"
<1>1. /\ buffer \in Seq(Piece) /\ n \in Nat /\ n >= 1
      /\ p + 1 = T[k] + n /\ p + 1 <= T[k + 1] /\ n <= Len(W)
      /\ \A j \in 1 .. n : buffer[j] = Sent(s)[T[k] + j] /\ buffer[j] = W[j]
  BY BufferGrows
<1>2. /\ k \in 0 .. Len(s.frames) /\ p \in 0 .. Len(Sent(s)) /\ ~v.error
      /\ Agrees(v, G, s.frames, k)
  BY DEF Reads, Agrees
<1>3. /\ Len(s.frames) \in Nat /\ k \in Nat /\ k + 1 \in Nat /\ p \in Nat
      /\ Len(Sent(s)) \in Nat /\ p + 1 \in 0 .. Len(Sent(s))
  BY <1>2, ScriptTypes, StartExists
<1>4. /\ \A i \in 0 .. Len(s.frames) + 1 : T[i] \in Nat
      /\ \A i \in 0 .. Len(s.frames) : T[i + 1] = T[i] + Len(Part(s, i))
  BY DEF IsStart
<1>5. w = IF ends THEN Validated(WithBuffer(v, <<>>), SubSeq(buffer, 1, n - 2))
          ELSE WithBuffer(v, buffer)
  BY <1>2 DEF Fed, WithBuffer
<1> HIDE DEF buffer, w, W
<1>6. /\ Len(W) \in Nat
      /\ \A i \in 1 .. Len(W) - 1 : BreaksAt(W, i) <=> k < Len(s.frames) /\ i = Len(W) - 1
      /\ k < Len(s.frames) => Len(W) >= 2
  BY <1>2, PartShape DEF W
<1> HIDE DEF n
<1>7. ends <=> k < Len(s.frames) /\ n = Len(W)
  <2>1. CASE n = 1
    <3>1. ~(n >= 2)
      BY <2>1
    <3>2. Len(W) \in Nat /\ (k < Len(s.frames) => Len(W) >= 2)
      BY <1>6
    <3>3. \A x \in Nat : x >= 2 => x # 1
      OBVIOUS
    <3>4. k < Len(s.frames) => n # Len(W)
      BY <2>1, <3>2, <3>3
    <3> QED
      BY <3>1, <3>4 DEF ends
  <2>2. CASE n # 1
    <3>1. n - 1 \in 1 .. Len(W) - 1 /\ n - 1 \in 1 .. n /\ n \in 1 .. n /\ (n - 1) + 1 = n
      BY <1>1, <1>6, <2>2
    <3>2. BreaksAt(W, n - 1) <=> ends
      BY <1>1, <2>2, <3>1 DEF BreaksAt
    <3>3. n - 1 = Len(W) - 1 <=> n = Len(W)
      BY <1>1, <1>6
    <3> QED
      BY <1>6, <3>1, <3>2, <3>3
  <2> QED
    BY <2>1, <2>2
<1> HIDE DEF ends
<1>8. CASE ends
  <2> DEFINE u == WithBuffer(v, <<>>)
             q == SubSeq(buffer, 1, n - 2)
  <2>1. k < Len(s.frames) /\ n = Len(W)
    BY <1>7, <1>8
  <2>2. s.frames[k + 1] \in Seq(Lines) /\ PiecesOf(q, s.frames[k + 1], k + 1)
    BY <1>1, <1>2, <2>1, CutsTheFrame DEF W, n
  <2>3. Agrees(u, G, s.frames, k) /\ u.buffer = <<>>
    <3>1. <<>> \in Seq(Piece)
      OBVIOUS
    <3> QED
      BY <1>2, <3>1, BufferAgrees
  <2>4. w = Validated(u, q)
    BY <1>5, <1>8
  <2> HIDE DEF u, q
  <2>5. \/ Agrees(w, G, s.frames, k + 1) /\ w.buffer = <<>>
        \/ w.error /\ w \in Parser /\ ~Acceptable(s.frames, k + 1)
    BY <1>3, <2>2, <2>3, <2>4, FrameRead
  <2>6. k + 1 \in 0 .. Len(s.frames) /\ T[k + 1] = p + 1
    BY <1>1, <1>2, <1>3, <1>4, <2>1 DEF W
  <2>7. CASE Agrees(w, G, s.frames, k + 1) /\ w.buffer = <<>>
    <3>1. Len(w.buffer) = 0 /\ T[k + 1] <= p + 1 /\ 0 = (p + 1) - T[k + 1]
      BY <1>3, <2>6, <2>7
    <3>2. k + 1 < Len(s.frames) => p + 1 < T[(k + 1) + 1]
      <4>1. T[(k + 1) + 1] = T[k + 1] + Len(Part(s, k + 1))
        BY <1>4, <2>6
      <4>2. k + 1 < Len(s.frames) => Len(Part(s, k + 1)) >= 2
        BY <2>6, PartShape
      <4>3. Len(Part(s, k + 1)) \in Nat
        BY <2>6, PartShape
      <4> QED
        BY <1>3, <2>6, <4>1, <4>2, <4>3
    <3>3. \A j \in 1 .. Len(w.buffer) : w.buffer[j] = Sent(s)[T[k + 1] + j]
      BY <3>1
    <3>4. Reads(w, G, s, T, k + 1, p + 1)
      BY <1>3, <2>6, <2>7, <3>1, <3>2, <3>3 DEF Reads
    <3> QED
      BY <3>4 DEF w
  <2>8. CASE w.error /\ w \in Parser /\ ~Acceptable(s.frames, k + 1)
    <3>1. T[k + 1] <= p + 1
      BY <1>3, <2>6
    <3>2. Refuses(w, s, T, p + 1)
      BY <2>6, <2>8, <3>1 DEF Refuses
    <3> QED
      BY <3>2 DEF w
  <2> QED
    BY <2>5, <2>7, <2>8
<1>9. CASE ~ends
  <2>1. w = WithBuffer(v, buffer)
    BY <1>5, <1>9
  <2>2. Agrees(w, G, s.frames, k) /\ w.buffer = buffer
    BY <1>1, <1>2, <2>1, BufferAgrees
  <2>3. T[k] \in Nat /\ T[k + 1] = T[k] + Len(W) /\ T[k + 1] \in Nat
    <3>1. k \in 0 .. Len(s.frames) + 1 /\ k + 1 \in 0 .. Len(s.frames) + 1
      BY <1>2, <1>3
    <3> QED
      BY <1>2, <1>4, <3>1 DEF W
  <2>4. k < Len(s.frames) => p + 1 < T[k + 1]
    <3>1. k < Len(s.frames) => n # Len(W)
      BY <1>7, <1>9
    <3>2. p + 1 = T[k] + n /\ n <= Len(W) /\ n \in Nat /\ Len(W) \in Nat
      BY <1>1, <1>6
    <3> DEFINE t == T[k]
               l == Len(W)
    <3>3. t \in Nat /\ n \in Nat /\ l \in Nat /\ n <= l /\ p + 1 = t + n /\ T[k + 1] = t + l
      BY <2>3, <3>2
    <3> HIDE DEF t, l
    <3>4. n # l => t + n < t + l
      BY <3>3
    <3>5. n # l => p + 1 < T[k + 1]
      BY <3>3, <3>4
    <3> QED
      BY <3>1, <3>5 DEF l
  <2>5. T[k] <= p + 1 /\ Len(w.buffer) = (p + 1) - T[k]
    <3> DEFINE t == T[k]
    <3>1. t \in Nat /\ n \in Nat /\ p \in Nat /\ p + 1 = t + n
      BY <1>1, <1>3, <2>3
    <3>2. Len(w.buffer) = n
      BY <2>2 DEF n
    <3> HIDE DEF t
    <3>3. t <= p + 1 /\ n = (p + 1) - t
      BY <3>1
    <3> QED
      BY <3>2, <3>3 DEF t
  <2>6. \A j \in 1 .. Len(w.buffer) : w.buffer[j] = Sent(s)[T[k] + j]
    BY <1>1, <2>2 DEF n
  <2>7. Reads(w, G, s, T, k, p + 1)
    BY <1>2, <1>3, <2>2, <2>4, <2>5, <2>6 DEF Reads
  <2> QED
    BY <2>7 DEF w
<1> QED
  BY <1>8, <1>9

-----------------------------------------------------------------------------
(* SseValidator agrees with the reference, chunk by chunk                   *)

Reading(v, G, s, T, p) == (\E k : Reads(v, G, s, T, k, p)) \/ Refuses(v, s, T, p)

LEMMA PieceReading ==
  ASSUME NEW s \in Script, NEW T, IsStart(s, T), NEW G \in Seq(Nat), NEW v, NEW p \in Nat,
         Reading(v, G, s, T, p), p < Len(Sent(s))
  PROVE  Reading(Fed(v, Sent(s)[p + 1]), G, s, T, p + 1)
<1>1. CASE \E k : Reads(v, G, s, T, k, p)
  <2>1. PICK k : Reads(v, G, s, T, k, p)
    BY <1>1
  <2> QED
    BY <2>1, PieceRead DEF Reading
<1>2. CASE Refuses(v, s, T, p)
  <2>1. Fed(v, Sent(s)[p + 1]) = v
    BY <1>2 DEF Refuses, Fed
  <2>2. PICK n \in 0 .. Len(s.frames) : T[n] <= p /\ ~Acceptable(s.frames, n)
    BY <1>2 DEF Refuses
  <2>3. T[n] \in Nat
    <3>1. n \in 0 .. Len(s.frames) + 1
      BY ScriptTypes
    <3> QED
      BY <3>1 DEF IsStart
  <2>4. T[n] <= p + 1
    BY <2>2, <2>3
  <2>5. Refuses(v, s, T, p + 1)
    BY <1>2, <2>2, <2>4 DEF Refuses
  <2> QED
    BY <2>1, <2>5 DEF Reading
<1> QED
  BY <1>1, <1>2 DEF Reading

LEMMA FeedReads ==
  ASSUME NEW s \in Script, NEW T, IsStart(s, T), NEW G \in Seq(Nat), NEW v, NEW p \in Nat,
         Reading(v, G, s, T, p), NEW chunk \in Seq(Piece), p + Len(chunk) <= Len(Sent(s)),
         \A i \in 1 .. Len(chunk) : chunk[i] = Sent(s)[p + i]
  PROVE  Reading(Feed(v, chunk), G, s, T, p + Len(chunk))
<1> DEFINE n == Len(chunk)
<1>1. PICK h : /\ h[0] = v /\ h[n] = Feed(v, chunk)
               /\ \A i \in 0 .. n : i < n => h[i + 1] = Fed(h[i], chunk[i + 1])
  BY FeedReadsOneByOne
<1>2. n \in Nat /\ Len(Sent(s)) \in Nat
  BY LenProperties, StartExists
<1>3. p + n <= Len(Sent(s)) /\ \A i \in 1 .. n : chunk[i] = Sent(s)[p + i]
  OBVIOUS
<1> HIDE DEF n
<1> DEFINE P == {i \in 0 .. n : Reading(h[i], G, s, T, p + i)}
<1>4. 0 \in P
  <2>1. p + 0 = p /\ 0 \in 0 .. n
    BY <1>2
  <2>2. Reading(h[0], G, s, T, p + 0)
    BY <1>1, <2>1
  <2> QED
    BY <2>1, <2>2
<1>5. ASSUME NEW i \in 0 .. n, i \in P, i < n
      PROVE  i + 1 \in P
  <2>1. i + 1 \in 1 .. n /\ i + 1 \in 0 .. n /\ p + i \in Nat /\ (p + i) + 1 = p + (i + 1)
        /\ p + i < Len(Sent(s))
    BY <1>2, <1>3, <1>5
  <2>2. h[i + 1] = Fed(h[i], Sent(s)[(p + i) + 1])
    <3>1. chunk[i + 1] = Sent(s)[(p + i) + 1]
      BY <1>3, <2>1
    <3> QED
      BY <1>1, <1>5, <3>1
  <2>3. Reading(h[i], G, s, T, p + i)
    BY <1>5
  <2>4. Reading(h[i + 1], G, s, T, (p + i) + 1)
    BY <2>1, <2>2, <2>3, PieceReading
  <2> QED
    BY <2>1, <2>4
<1> HIDE DEF P
<1>6. \A i \in 0 .. n : i \in P
  BY <1>2, <1>4, <1>5, HoldsUpTo
<1>7. n \in P
  BY <1>2, <1>6
<1> QED
  BY <1>1, <1>7 DEF P, n

LEMMA FreshReads ==
  ASSUME NEW s \in Script, NEW T, IsStart(s, T)
  PROVE  Fresh \in Parser /\ ~Fresh.error /\ Reads(Fresh, <<>>, s, T, 0, 0)
<1>1. <<>> \in Seq(Piece) /\ <<>> \in Seq(Nat) /\ <<>> \o <<>> = <<>>
  OBVIOUS
<1> DEFINE false == FALSE
           f == Reader(<<>>, <<>>, false, 0, NoMessage, false)
<1>2. Fields(<<>>, <<>>, false, 0, NoMessage, false)
  BY <1>1 DEF Fields, NoMessage
<1>3. Fresh = f
  BY DEF Fresh, Reader
<1>4. ~false
  OBVIOUS
<1> HIDE DEF false
<1>5. f \in Parser
  BY <1>2, ReaderTypes
<1>6. /\ f.done = false /\ f.error = false
  BY ReaderSays
<1>7. f.buffer = <<>> /\ f.emitted = <<>> /\ f.count = 0 /\ f.message = NoMessage
  BY DEF Reader
<1> HIDE DEF f
<1>8. Agrees(f, <<>>, s.frames, 0)
  <2>1. Acceptable(s.frames, 0) /\ ChunksTo(s.frames, 0) = {} /\ ~SomeDone(s.frames, 0)
         /\ Lists(<<>>, s.frames, 0)
    BY NothingYet
  <2>2. ~(f.count >= 1)
    BY <1>7
  <2> QED
    BY <1>1, <1>4, <1>5, <1>6, <1>7, <2>1, <2>2 DEF Agrees
<1>9. /\ Len(s.frames) \in Nat /\ Len(Sent(s)) \in Nat
  BY ScriptTypes, StartExists
<1>10. 0 \in 0 .. Len(s.frames) /\ 0 \in 0 .. Len(Sent(s))
  BY <1>9
<1>11. T[0] = 0 /\ T[1] = T[0] + Len(Part(s, 0)) /\ Len(Part(s, 0)) \in Nat
       /\ (0 < Len(s.frames) => Len(Part(s, 0)) >= 2)
  <2>1. T[0 + 1] = T[0] + Len(Part(s, 0))
    BY <1>10 DEF IsStart
  <2> QED
    BY <1>10, <2>1, PartShape DEF IsStart
<1>12. T[0] <= 0 /\ (0 < Len(s.frames) => 0 < T[0 + 1]) /\ Len(f.buffer) = 0 - T[0]
  BY <1>7, <1>11
<1>13. \A j \in 1 .. Len(f.buffer) : f.buffer[j] = Sent(s)[T[0] + j]
  BY <1>7
<1>14. Reads(f, <<>>, s, T, 0, 0)
  BY <1>8, <1>10, <1>12, <1>13 DEF Reads
<1> QED
  BY <1>3, <1>4, <1>5, <1>6, <1>14

(* What Arrives does once the chunk is read: the frames it completed go to  *)
(* the queue.                                                               *)
Emptied(v) == [v EXCEPT !.emitted = <<>>]

LEMMA EmptiedFields ==
  ASSUME NEW v \in Parser
  PROVE  /\ Emptied(v) \in Parser /\ Emptied(v).emitted = <<>> /\ Emptied(v).buffer = v.buffer
         /\ Emptied(v).done = v.done /\ Emptied(v).count = v.count
         /\ Emptied(v).message = v.message /\ Emptied(v).error = v.error
<1>1. PICK b, e, d, c, m, r : Fields(b, e, d, c, m, r) /\ v = Reader(b, e, d, c, m, r)
  BY IsAReader
<1> DEFINE x == <<>>
           w == Emptied(v)
<1>2. x \in Seq(Nat)
  OBVIOUS
<1>3. w = [v EXCEPT !.emitted = x]
  BY DEF Emptied
<1> HIDE DEF x, w
<1>4. Fields(b, x, d, c, m, r)
  BY <1>1, <1>2 DEF Fields
<1>5. w = Reader(b, x, d, c, m, r)
  BY <1>1, <1>3 DEF Reader
<1>6. w \in Parser
  BY <1>4, <1>5, ReaderTypes
<1>7. /\ w.buffer = v.buffer /\ w.emitted = x
      /\ w.count = v.count /\ w.message = v.message
  BY <1>1, <1>5 DEF Reader
<1>8. w.done = v.done /\ w.error = v.error
  BY <1>1, <1>5, ReaderSays
<1> QED
  BY <1>6, <1>7, <1>8 DEF x, w

LEMMA EmptiedReads ==
  ASSUME NEW s, NEW T, NEW G \in Seq(Nat), NEW v, NEW k, NEW p, Reads(v, G, s, T, k, p)
  PROVE  Reads(Emptied(v), G \o v.emitted, s, T, k, p) /\ G \o v.emitted \in Seq(Nat)
<1> DEFINE w == Emptied(v)
           H == G \o v.emitted
<1>1. v \in Parser /\ v.emitted \in Seq(Nat)
  BY DEF Reads, Agrees, Parser
<1>2. /\ w \in Parser /\ w.emitted = <<>> /\ w.buffer = v.buffer
      /\ w.done = v.done /\ w.count = v.count
      /\ w.message = v.message /\ w.error = v.error
  BY <1>1, EmptiedFields
<1>3. H \in Seq(Nat)
  BY <1>1, Joined
<1> HIDE DEF w
<1>4. H \o w.emitted = G \o v.emitted
  <2> HIDE DEF H
  <2>1. H \o <<>> = H
    BY <1>3
  <2> QED
    BY <1>2, <2>1 DEF H
<1>5. Agrees(w, H, s.frames, k)
  BY <1>2, <1>4 DEF Reads, Agrees
<1>6. Reads(w, H, s, T, k, p)
  BY <1>2, <1>5 DEF Reads
<1> QED
  BY <1>3, <1>6 DEF w

-----------------------------------------------------------------------------
(* The relay agrees with the reference                                      *)

Starts(s) == CHOOSE T : IsStart(s, T)
At == Len(Sent(script)) - Len(wire)
Seen == out.given \o queue
Reached(n) == n \in ToFrame /\ Starts(script)[n] <= At

(* The wire is the rest of what was sent.                                   *)
WireInv ==
  /\ script \in Script
  /\ wire \in Seq(Piece) /\ Len(wire) <= Len(Sent(script))
  /\ \A i \in 1 .. Len(wire) : wire[i] = Sent(script)[At + i]

(* What was passed on and what waits in the queue are the chunks of the     *)
(* frames that were read.                                                   *)
ReadInv ==
  /\ parser \in Parser /\ parser.emitted = <<>>
  /\ queue \in Seq(Nat) /\ out.given \in Seq(Nat)
  /\ \E k \in ToFrame :
       Reached(k) /\ Acceptable(script.frames, k) /\ Lists(Seen, script.frames, k)
  /\ parser.error => Refuses(parser, script, Starts(script), At)
  /\ ~parser.error => \E k : Reads(parser, Seen, script, Starts(script), k, At)

AllGiven ==
  \E n \in ToFrame : Complete(script.frames, n) /\ Lists(out.given, script.frames, n)

ProtocolFault == \E n \in ToFrame : Arrived(n) /\ ~Acceptable(script.frames, n)
DoneWasLast ==
  \E n \in ToFrame : Arrived(n) /\ Complete(script.frames, n) /\ OnlyBreaksSince(n)
Justified(class) ==
  /\ class = "protocol" => ProtocolFault
  /\ class \in {"error", "incomplete", "idle"} => ~DoneWasLast

(* A verdict is taken once, for a cause that stays one.                     *)
CauseInv ==
  /\ stage \in {"priming", "handing", "failover", "refused"} => out = Nothing
  /\ stage \in {"priming", "handing", "failover", "refused", "relaying", "accounting"} =>
       guard.want = "open" /\ guard.class = "none" /\ row.class = "none" /\ out.final = "none"
  /\ stage \in {"priming", "handing", "relaying", "accounting"} => ~parser.error
  /\ stage = "accounting" => AllGiven
  /\ guard.want = "succeeded" => AllGiven
  /\ out.final = "done" => AllGiven
  /\ Justified(guard.class) /\ Justified(row.class)

FaithInv == StreamInv /\ WireInv /\ ReadInv /\ CauseInv

LEMMA StartsAre ==
  ASSUME NEW s \in Script
  PROVE  IsStart(s, Starts(s))
BY StartExists DEF Starts

LEMMA AtIsNatural ==
  ASSUME WireInv
  PROVE  /\ At \in Nat /\ Len(wire) \in Nat /\ Len(Sent(script)) \in Nat
         /\ At + Len(wire) = Len(Sent(script)) /\ Len(script.frames) \in Nat
<1>1. Len(Sent(script)) \in Nat /\ Len(wire) \in Nat /\ Len(script.frames) \in Nat
  BY StartExists, LenProperties, ScriptTypes DEF WireInv
<1>2. Len(wire) <= Len(Sent(script))
  BY DEF WireInv
<1> HIDE DEF WireInv
<1> QED
  BY <1>1, <1>2 DEF At

LEMMA ArrivedMeans ==
  ASSUME WireInv, NEW n \in ToFrame
  PROVE  Arrived(n) <=> Reached(n)
<1> DEFINE T == Starts(script)
           F == Len(script.frames)
<1>1. script \in Script /\ IsStart(script, T)
  BY StartsAre DEF WireInv
<1>2. /\ At \in Nat /\ Len(wire) \in Nat /\ Len(Sent(script)) \in Nat
      /\ At + Len(wire) = Len(Sent(script)) /\ F \in Nat
  BY AtIsNatural
<1>3. n \in 0 .. F /\ n \in 0 .. F + 1 /\ F + 1 \in 0 .. F + 1
  BY <1>2 DEF ToFrame
<1>4. T[n] \in Nat /\ T[F + 1] = Len(Sent(script))
  BY <1>1, <1>3 DEF IsStart
<1>5. Reached(n) <=> T[n] <= At
  BY DEF Reached
<1>6. CASE wire = <<>>
  <2>1. At = Len(Sent(script))
    BY <1>2, <1>6
  <2>2. n \in 0 .. F + 1
    BY <1>3
  <2>3. T[n] <= T[F + 1]
    BY <1>1, <1>3, <2>2, StartsAscend
  <2> QED
    BY <1>4, <1>5, <1>6, <2>1, <2>3 DEF Arrived
<1>7. CASE wire # <<>>
  <2>1. wire \in Seq(Piece) /\ \A i \in 1 .. Len(wire) : wire[i] = Sent(script)[At + i]
    BY DEF WireInv
  <2>2. Len(wire) >= 1 /\ Head(wire) = wire[1]
    BY <1>7, <2>1
  <2>3. 1 \in 1 .. Len(wire) /\ At + 1 \in 1 .. Len(Sent(script))
    BY <1>2, <2>2
  <2>4. Head(wire) = Sent(script)[At + 1]
    BY <2>1, <2>2, <2>3
  <2>5. Head(wire).of > n <=> T[n] < At + 1
    BY <1>1, <1>3, <2>3, <2>4, PiecesNameTheirFrame
  <2>6. T[n] < At + 1 <=> T[n] <= At
    BY <1>2, <1>4
  <2> QED
    BY <1>5, <1>7, <2>5, <2>6 DEF Arrived
<1> QED
  BY <1>6, <1>7

LEMMA WireMoves ==
  ASSUME WireInv, NEW n \in 1 .. Len(wire), script' = script,
         wire' = SubSeq(wire, n + 1, Len(wire))
  PROVE  /\ WireInv' /\ At' = At + n
         /\ SubSeq(wire, 1, n) \in Seq(Piece) /\ Len(SubSeq(wire, 1, n)) = n
         /\ \A i \in 1 .. n : SubSeq(wire, 1, n)[i] = Sent(script)[At + i]
<1> DEFINE S == Sent(script)
           m == Len(wire)
<1>1. /\ At \in Nat /\ m \in Nat /\ Len(S) \in Nat /\ At + m = Len(S)
      /\ n \in Nat /\ n >= 1 /\ n <= m
  BY AtIsNatural
<1>2. wire \in Seq(Piece) /\ \A i \in 1 .. m : wire[i] = S[At + i]
  BY DEF WireInv
<1> HIDE DEF S
<1>3. \A i \in 1 .. m : wire[i] \in Piece
  BY <1>2
<1>4. SubSeq(wire, 1, n) \in Seq(Piece) /\ Len(SubSeq(wire, 1, n)) = n
      /\ \A i \in 1 .. n : SubSeq(wire, 1, n)[i] = wire[i]
  BY <1>1, <1>2
<1>5. wire' \in Seq(Piece) /\ Len(wire') = m - n
      /\ \A i \in 1 .. m - n : wire'[i] = wire[n + i]
  BY <1>1, <1>2
<1> HIDE DEF m
<1>6. At' = At + n
  <2>1. At' = Len(S) - Len(wire')
    <3>1. Sent(script)' = S
      BY DEF S
    <3> QED
      BY <3>1 DEF At
  <2>2. At' = Len(S) - (m - n)
    BY <1>5, <2>1
  <2>3. \A a, b, c, d \in Nat : a + b = c => c - (b - d) = a + d
    OBVIOUS
  <2>4. At + m = Len(S) => Len(S) - (m - n) = At + n
    BY <1>1, <2>3
  <2> QED
    BY <1>1, <2>2, <2>4
<1>7. \A i \in 1 .. m - n : wire'[i] = S[At' + i]
  <2> TAKE i \in 1 .. m - n
  <2>1. n + i \in 1 .. m /\ At + (n + i) = (At + n) + i
    BY <1>1
  <2> QED
    BY <1>2, <1>5, <1>6, <2>1
<1>8. Len(wire') <= Len(S)
  BY <1>1, <1>5
<1>9. WireInv'
  <2>1. script' \in Script /\ Sent(script)' = S
    BY DEF WireInv, S
  <2> QED
    BY <1>5, <1>7, <1>8, <2>1 DEF WireInv
<1>10. \A i \in 1 .. n : SubSeq(wire, 1, n)[i] = S[At + i]
  BY <1>1, <1>2, <1>4
<1>11. \A i \in 1 .. n : SubSeq(wire, 1, n)[i] = Sent(script)[At + i]
  BY Zenon, <1>10 DEF S
<1> QED
  BY Zenon, <1>4, <1>6, <1>9, <1>11

LEMMA Regrouped ==
  ASSUME NEW a \in Seq(Nat), NEW b \in Seq(Nat), NEW c \in Seq(Nat)
  PROVE  (a \o b) \o c = a \o (b \o c)
BY ConcatAssociative

(* Arrives, for a reader that has not rejected anything                     *)
LEMMA ArrivesKeeps ==
  ASSUME WireInv, ReadInv, ~parser.error, UNCHANGED <<script, out>>,
         NEW n \in 1 .. Len(wire), Arrives(n)
  PROVE  WireInv' /\ ReadInv'
<1> DEFINE T == Starts(script)
           chunk == SubSeq(wire, 1, n)
           v == Feed(parser, chunk)
           F == Len(script.frames)
<1>1. /\ WireInv' /\ At' = At + n
      /\ chunk \in Seq(Piece) /\ Len(chunk) = n
      /\ \A i \in 1 .. n : chunk[i] = Sent(script)[At + i]
  <2>1. wire' = SubSeq(wire, n + 1, Len(wire))
    BY DEF Arrives
  <2> QED
    BY <2>1, WireMoves
<1>2. /\ At \in Nat /\ Len(wire) \in Nat /\ Len(Sent(script)) \in Nat
      /\ At + Len(wire) = Len(Sent(script)) /\ F \in Nat
  BY AtIsNatural
<1>3. script \in Script /\ IsStart(script, T)
  BY StartsAre DEF WireInv
<1>4. /\ parser' = Emptied(v)
      /\ queue' = IF v.error THEN queue ELSE queue \o v.emitted
      /\ out' = out /\ script' = script
  BY DEF Arrives, Emptied
<1>5. Seen \in Seq(Nat) /\ queue \in Seq(Nat) /\ out.given \in Seq(Nat)
  BY Joined DEF ReadInv, Seen
<1> HIDE DEF chunk, v
<1>6. Reading(v, Seen, script, T, At + n)
  <2>1. Reading(parser, Seen, script, T, At)
    BY DEF ReadInv, Reading
  <2>2. n \in Nat /\ At + n <= Len(Sent(script))
    BY <1>2
  <2>3. At + Len(chunk) <= Len(Sent(script))
    BY <1>1, <2>2
  <2>4. \A i \in 1 .. Len(chunk) : chunk[i] = Sent(script)[At + i]
    BY <1>1
  <2>5. Reading(Feed(parser, chunk), Seen, script, T, At + Len(chunk))
    BY <1>1, <1>2, <1>3, <1>5, <2>1, <2>3, <2>4, FeedReads
  <2> QED
    BY <1>1, <2>5 DEF v
<1>7. ToFrame = 0 .. F /\ ToFrame' = ToFrame /\ Starts(script)' = T
  BY <1>4 DEF ToFrame
<1>8. \A k \in ToFrame : T[k] \in Nat
  <2>1. \A k \in 0 .. F : k \in 0 .. F + 1
    BY <1>2
  <2> QED
    BY <1>3, <1>7, <2>1 DEF IsStart
<1>9. CASE Refuses(v, script, T, At + n)
  <2>1. v \in Parser /\ v.error
    BY <1>9 DEF Refuses
  <2>2. parser' \in Parser /\ parser'.emitted = <<>> /\ parser'.error
    BY <1>4, <2>1, EmptiedFields
  <2>3. queue' = queue /\ Seen' = Seen
    BY <1>4, <2>1 DEF Seen
  <2>4. Refuses(parser', script, T, At')
    BY <1>1, <1>9, <2>2 DEF Refuses
  <2>5. PICK k \in ToFrame :
          Reached(k) /\ Acceptable(script.frames, k) /\ Lists(Seen, script.frames, k)
    BY DEF ReadInv
  <2>6. Reached(k)'
    <3>1. T[k] <= At /\ T[k] \in Nat
      BY <1>8, <2>5 DEF Reached
    <3>2. T[k] <= At + n
      BY <1>2, <3>1
    <3> QED
      BY <1>1, <1>7, <3>2 DEF Reached
  <2>7. (Acceptable(script.frames, k) /\ Lists(Seen, script.frames, k))'
    BY <1>4, <2>3, <2>5
  <2>8. (\E j \in ToFrame :
           Reached(j) /\ Acceptable(script.frames, j) /\ Lists(Seen, script.frames, j))'
    BY <1>7, <2>6, <2>7
  <2>9. Refuses(parser, script, Starts(script), At)'
    BY <1>4, <1>7, <2>4
  <2> QED
    BY <1>1, <1>4, <1>5, <2>2, <2>3, <2>8, <2>9 DEF ReadInv
<1>10. CASE \E k : Reads(v, Seen, script, T, k, At + n)
  <2>1. PICK k : Reads(v, Seen, script, T, k, At + n)
    BY <1>10
  <2>2. v \in Parser /\ ~v.error /\ v.emitted \in Seq(Nat)
    BY <2>1 DEF Reads, Agrees, Parser
  <2>3. parser' \in Parser /\ parser'.emitted = <<>> /\ parser'.error = v.error
    BY <1>4, <2>2, EmptiedFields
  <2>4. queue' = queue \o v.emitted
    BY <1>4, <2>2
  <2>5. queue' \in Seq(Nat)
    BY <1>5, <2>2, <2>4, Joined
  <2>6. Seen' = Seen \o v.emitted
    <3>1. Seen' = out.given \o (queue \o v.emitted)
      BY <1>4, <2>4 DEF Seen
    <3>2. (out.given \o queue) \o v.emitted = out.given \o (queue \o v.emitted)
      BY <1>5, <2>2, Regrouped
    <3> QED
      BY <3>1, <3>2 DEF Seen
  <2>7. Reads(parser', Seen', script, T, k, At')
    <3>1. Reads(Emptied(v), Seen \o v.emitted, script, T, k, At + n)
      BY <1>5, <2>1, EmptiedReads
    <3> QED
      BY <1>1, <1>4, <2>6, <3>1
  <2>8. Seen' \in Seq(Nat) /\ Seen' \o <<>> = Seen'
    <3>1. Seen' \in Seq(Nat)
      BY <1>5, <2>2, <2>6, Joined
    <3> QED
      BY <3>1
  <2>9. /\ k \in ToFrame /\ T[k] <= At' /\ Acceptable(script.frames, k)
        /\ Lists(Seen', script.frames, k)
    BY <1>7, <2>3, <2>7, <2>8 DEF Reads, Agrees
  <2>10. (\E j \in ToFrame :
            Reached(j) /\ Acceptable(script.frames, j) /\ Lists(Seen, script.frames, j))'
    <3>1. Reached(k)'
      BY <1>7, <2>9 DEF Reached
    <3> QED
      BY <1>4, <1>7, <2>9, <3>1
  <2>11. (\E j : Reads(parser, Seen, script, Starts(script), j, At))'
    BY <1>4, <1>7, <2>7
  <2>12. ~parser'.error
    BY <2>2, <2>3
  <2> QED
    BY <1>1, <1>4, <1>5, <2>3, <2>5, <2>10, <2>11, <2>12 DEF ReadInv
<1> QED
  BY <1>6, <1>9, <1>10 DEF Reading

LEMMA PassOnReads ==
  ASSUME WireInv, ReadInv, StreamInv, PassOn
  PROVE  WireInv' /\ ReadInv'
<1>1. /\ out' = [given |-> Append(out.given, Head(queue)), final |-> out.final]
      /\ queue # <<>> /\ queue' = Tail(queue) /\ UNCHANGED <<script, wire, parser>>
  BY DEF PassOn, StreamInv
<1>2. queue \in Seq(Nat) /\ out.given \in Seq(Nat)
  BY DEF ReadInv
<1>3. Head(queue) \in Nat /\ Tail(queue) \in Seq(Nat) /\ queue = <<Head(queue)>> \o Tail(queue)
  <2>1. Head(queue) \in Nat /\ Tail(queue) \in Seq(Nat)
    BY <1>1, <1>2, HeadTailProperties
  <2>2. queue = <<Head(queue)>> \o Tail(queue)
    BY <1>1, <1>2
  <2> QED
    BY <2>1, <2>2
<1>4. out'.given = out.given \o <<Head(queue)>> /\ out'.given \in Seq(Nat)
  <2>1. out'.given = Append(out.given, Head(queue))
    BY <1>1
  <2> QED
    BY <1>2, <1>3, <2>1, AppendProperties, AppendIsConcat
<1>5. Seen' = Seen
  <2>1. Seen' = (out.given \o <<Head(queue)>>) \o Tail(queue)
    BY <1>1, <1>4 DEF Seen
  <2>2. <<Head(queue)>> \in Seq(Nat)
    BY <1>3
  <2>3. Seen' = out.given \o (<<Head(queue)>> \o Tail(queue))
    BY <1>2, <1>3, <2>1, <2>2, Regrouped
  <2> QED
    BY <1>3, <2>3 DEF Seen
<1>6. At' = At /\ ToFrame' = ToFrame
  BY <1>1 DEF At, ToFrame
<1>7. WireInv'
  BY <1>1, <1>6 DEF WireInv
<1>8. queue' \in Seq(Nat)
  BY <1>1, <1>3
<1>9. ReadInv'
  BY <1>1, <1>4, <1>5, <1>6, <1>8 DEF ReadInv, Reached
<1> QED
  BY <1>7, <1>9

(* Whatever reads nothing and gives nothing keeps both.                     *)
LEMMA ReadStays ==
  ASSUME WireInv, ReadInv, UNCHANGED <<script, wire, parser, queue>>, out'.given = out.given
  PROVE  WireInv' /\ ReadInv'
<1>1. At' = At /\ ToFrame' = ToFrame /\ Seen' = Seen
  BY DEF At, ToFrame, Seen
<1>2. WireInv'
  BY <1>1 DEF WireInv
<1>3. ReadInv'
  BY <1>1 DEF ReadInv, Reached
<1> QED
  BY <1>2, <1>3

-----------------------------------------------------------------------------
(* What the invariant says of the client and of the causes                  *)

(* The numbers passed on so far list the chunks up to the last of them.     *)
LEMMA PrefixLists ==
  ASSUME NEW frames, NEW a \in Seq(Nat), NEW b \in Seq(Nat), NEW k \in Nat,
         Lists(a \o b, frames, k)
  PROVE  \E n \in 0 .. k : Lists(a, frames, n)
<1> DEFINE c == a \o b
           l == Len(a)
           m == Len(c)
<1>1. /\ c \in Seq(Nat) /\ l \in Nat /\ m \in Nat /\ l <= m
      /\ \A j \in 1 .. l : c[j] = a[j]
  BY Joined
<1>2. /\ \A i, j \in 1 .. m : i < j => c[i] < c[j]
      /\ ToSet(c) = ChunksTo(frames, k)
  BY DEF Lists, Ascends
<1>3. ToSet(c) = {c[i] : i \in 1 .. m} /\ ToSet(a) = {a[i] : i \in 1 .. l}
  <2>1. DOMAIN c = 1 .. m /\ DOMAIN a = 1 .. l
    BY <1>1
  <2> QED
    BY <2>1 DEF ToSet
<1>4. \A i \in 1 .. m : c[i] \in Nat
  BY <1>1
<1> HIDE DEF c, m, l
<1>5. CASE l = 0
  <2>1. a = <<>>
    BY <1>5 DEF l
  <2>2. Lists(a, frames, 0) /\ 0 \in 0 .. k
    BY <2>1, NothingYet
  <2> QED
    BY <2>2
<1>6. CASE l # 0
  <2> DEFINE n == a[l]
  <2>1. l \in 1 .. l /\ l \in 1 .. m /\ \A i \in 1 .. l : i \in 1 .. m
    BY <1>1, <1>6
  <2>2. n = c[l] /\ n \in Nat
    BY <1>1, <1>4, <2>1
  <2>3. n \in ChunksTo(frames, k)
    BY <1>2, <1>3, <2>1, <2>2
  <2>4. n \in 1 .. k /\ n \in 0 .. k
    BY <2>2, <2>3 DEF ChunksTo
  <2> HIDE DEF n
  <2>5. Ascends(a)
    <3> SUFFICES ASSUME NEW i \in 1 .. l, NEW j \in 1 .. l, i < j PROVE a[i] < a[j]
      BY DEF Ascends, l
    <3> QED
      BY <1>1, <1>2, <2>1
  <2>6. ASSUME NEW i \in 1 .. l
        PROVE  a[i] \in ChunksTo(frames, n)
    <3>1. i \in 1 .. m /\ a[i] = c[i] /\ c[i] \in Nat
      BY <1>1, <1>4, <2>1
    <3>2. a[i] \in ChunksTo(frames, k)
      BY <1>2, <1>3, <3>1
    <3>3. a[i] <= n
      <4>1. CASE i = l
        BY <2>2, <4>1 DEF n
      <4>2. CASE i # l
        <5>1. i < l
          BY <1>1, <4>2
        <5>2. c[i] < c[l]
          BY <1>2, <2>1, <3>1, <5>1
        <5> QED
          BY <2>2, <3>1, <5>2
      <4> QED
        BY <4>1, <4>2
    <3> QED
      BY <2>2, <3>1, <3>2, <3>3 DEF ChunksTo
  <2>7. ASSUME NEW x \in ChunksTo(frames, n)
        PROVE  x \in ToSet(a)
    <3>1. x \in ChunksTo(frames, k) /\ x \in Nat /\ x <= n
      BY <2>2, <2>4 DEF ChunksTo
    <3>2. PICK j \in 1 .. m : x = c[j]
      BY <1>2, <1>3, <3>1
    <3>3. ~(l < j)
      <4>1. l < j => c[l] < c[j]
        BY <1>2, <2>1
      <4> QED
        BY <2>2, <3>1, <3>2, <4>1
    <3>4. j \in 1 .. l
      BY <1>1, <3>3
    <3> QED
      BY <1>1, <1>3, <3>2, <3>4
  <2>8. ToSet(a) = ChunksTo(frames, n)
    BY <1>3, <2>6, <2>7
  <2> QED
    BY <2>4, <2>5, <2>8 DEF Lists
<1> QED
  BY <1>5, <1>6

LEMMA EarlierIsAcceptable ==
  ASSUME NEW frames, NEW k \in Nat, NEW n \in 0 .. k, Acceptable(frames, k)
  PROVE  Acceptable(frames, n)
<1>1. \A i \in 1 .. n : i \in 1 .. k
  OBVIOUS
<1> QED
  BY <1>1 DEF Acceptable

LEMMA StartsBefore ==
  ASSUME WireInv, NEW k \in ToFrame, NEW n \in 0 .. k
  PROVE  /\ n \in ToFrame /\ k \in Nat
         /\ Starts(script)[n] \in Nat /\ Starts(script)[k] \in Nat
         /\ Starts(script)[n] <= Starts(script)[k]
<1> DEFINE T == Starts(script)
           F == Len(script.frames)
<1>1. script \in Script /\ IsStart(script, T) /\ F \in Nat
  BY StartsAre, ScriptTypes DEF WireInv
<1>2. k \in 0 .. F
  BY DEF ToFrame
<1>3. n \in 0 .. F /\ k \in 0 .. F + 1 /\ n \in 0 .. F + 1 /\ k \in Nat
  BY <1>1, <1>2
<1>4. T[n] \in Nat /\ T[k] \in Nat
  BY <1>1, <1>3 DEF IsStart
<1>5. T[n] <= T[k]
  BY <1>1, <1>3, StartsAscend
<1> QED
  BY <1>3, <1>4, <1>5 DEF ToFrame

LEMMA GivenIsFaithful ==
  ASSUME WireInv, ReadInv
  PROVE  \E n \in ToFrame :
           Arrived(n) /\ Acceptable(script.frames, n) /\ Lists(out.given, script.frames, n)
<1>1. PICK k \in ToFrame :
        Reached(k) /\ Acceptable(script.frames, k) /\ Lists(Seen, script.frames, k)
  BY DEF ReadInv
<1>2. k \in Nat
  <2>1. Len(script.frames) \in Nat
    BY AtIsNatural
  <2> QED
    BY <2>1 DEF ToFrame
<1>3. PICK n \in 0 .. k : Lists(out.given, script.frames, n)
  <2>1. out.given \in Seq(Nat) /\ queue \in Seq(Nat)
    BY DEF ReadInv
  <2> QED
    BY <1>1, <1>2, <2>1, PrefixLists DEF Seen
<1>4. /\ n \in ToFrame /\ Starts(script)[n] \in Nat /\ Starts(script)[k] \in Nat
      /\ Starts(script)[n] <= Starts(script)[k]
  BY StartsBefore
<1>5. At \in Nat /\ Starts(script)[k] <= At
  BY <1>1, AtIsNatural DEF Reached
<1>6. Reached(n)
  <2>1. Starts(script)[n] <= At
    BY <1>4, <1>5
  <2> QED
    BY <1>4, <2>1 DEF Reached
<1>7. Acceptable(script.frames, n)
  BY <1>1, <1>2, EarlierIsAcceptable
<1> QED
  BY <1>3, <1>4, <1>6, <1>7, ArrivedMeans

(* A chunk whose data is one line is that line.                             *)
LEMMA OneLineIsLegible ==
  ASSUME NEW frame, IsChunk(frame), OnOneLine(frame)
  PROVE  Legible(frame)
<1>1. PICK j \in DataOf(frame) : DataOf(frame) = {j}
  BY DEF OnOneLine
<1>2. \A k \in WordsOf(frame) : k = j
  BY <1>1 DEF WordsOf
<1>3. j \in Int /\ j <= j
  BY DEF DataOf
<1>4. PICK text \in {"a", "b"} : Holds(frame, text)
  BY DEF IsChunk
<1>5. frame[j] = text
  <2>1. ASSUME NEW x \in WordsOf(frame), NEW y \in WordsOf(frame), x < y
        PROVE  FALSE
    BY <1>2, <1>3, <2>1
  <2> QED
    BY <1>2, <1>4, <2>1 DEF Holds
<1> QED
  BY <1>1, <1>3, <1>4, <1>5 DEF Legible

LEMMA GivenIsLegible ==
  ASSUME WireInv, ReadInv, NEW i \in 1 .. Len(out.given),
         OnOneLine(script.frames[out.given[i]])
  PROVE  Legible(script.frames[out.given[i]])
<1>1. PICK n \in ToFrame : Lists(out.given, script.frames, n)
  BY GivenIsFaithful
<1>2. out.given[i] \in ToSet(out.given)
  <2>1. out.given \in Seq(Nat)
    BY DEF ReadInv
  <2>2. DOMAIN out.given = 1 .. Len(out.given)
    BY <2>1
  <2> QED
    BY <2>2 DEF ToSet
<1>3. IsChunk(script.frames[out.given[i]])
  BY <1>1, <1>2 DEF Lists, ChunksTo
<1> QED
  BY <1>3, OneLineIsLegible

(* A reader that is not finished has not seen [DONE], or has seen something *)
(* since.                                                                   *)
LEMMA UnfinishedForCause ==
  ASSUME WireInv, ReadInv, ~parser.error, ~Finished(parser), NEW n \in ToFrame,
         Arrived(n), Complete(script.frames, n), OnlyBreaksSince(n)
  PROVE  FALSE
<1> DEFINE T == Starts(script)
           F == Len(script.frames)
           f == script.frames
           v == parser
<1>1. PICK k : Reads(v, Seen, script, T, k, At)
  BY DEF ReadInv
<1>2. /\ k \in 0 .. F /\ At \in 0 .. Len(Sent(script)) /\ Agrees(v, Seen, f, k)
      /\ T[k] <= At /\ (k < F => At < T[k + 1]) /\ Len(v.buffer) = At - T[k]
      /\ \A j \in 1 .. Len(v.buffer) : v.buffer[j] = Sent(script)[T[k] + j]
  BY <1>1 DEF Reads
<1>3. /\ At \in Nat /\ Len(Sent(script)) \in Nat /\ F \in Nat
  BY AtIsNatural
<1>4. script \in Script /\ IsStart(script, T)
  BY StartsAre DEF WireInv
<1>5. T[n] <= At /\ n \in 0 .. F
  BY ArrivedMeans DEF Reached, ToFrame
<1>6. n <= k
  <2>1. SUFFICES ASSUME ~(n <= k) PROVE FALSE
    OBVIOUS
  <2>2. k < F /\ k + 1 \in 0 .. n
    BY <1>2, <1>3, <1>5, <2>1
  <2>3. T[k + 1] <= T[n] /\ T[k + 1] \in Nat /\ T[n] \in Nat
    BY <2>2, StartsBefore
  <2>4. At < T[k + 1]
    BY <1>2, <2>2
  <2> QED
    BY <1>3, <1>5, <2>3, <2>4
<1>7. k \in ToFrame /\ n \in 0 .. k
  BY <1>2, <1>3, <1>5, <1>6 DEF ToFrame
<1>8. T[n] <= T[k] /\ T[n] \in Nat /\ T[k] \in Nat
  BY <1>7, StartsBefore
<1>9. v.done /\ v.count >= 1
  <2>1. \A i \in 1 .. n : i \in 1 .. k
    BY <1>7
  <2>2. SomeDone(f, k)
    BY <2>1 DEF Complete, SomeDone
  <2>3. ChunksTo(f, k) # {}
    BY <2>1 DEF Complete, ChunksTo
  <2> QED
    BY <1>2, <2>2, <2>3 DEF Agrees
<1>10. ASSUME NEW j \in 1 .. Len(v.buffer)
       PROVE  v.buffer[j].text = "break"
  <2>1. T[k] + j \in 1 .. At /\ T[k] + j \in 1 .. Len(Sent(script)) /\ T[n] < T[k] + j
    BY <1>2, <1>3, <1>8
  <2>2. Sent(script)[T[k] + j].of > n
    BY <1>4, <1>5, <2>1, PiecesNameTheirFrame
  <2>3. Sent(script)[T[k] + j].text = "break"
    BY <2>1, <2>2 DEF OnlyBreaksSince, At
  <2> QED
    BY <1>2, <2>3
<1>11. Blank(v.buffer)
  BY <1>10 DEF Blank, Texts
<1> QED
  BY <1>9, <1>11 DEF Finished

LEMMA FinishedHasAll ==
  ASSUME WireInv, ReadInv, ~parser.error, Finished(parser), queue = <<>>
  PROVE  AllGiven
<1> DEFINE f == script.frames
<1>1. PICK k : Reads(parser, Seen, script, Starts(script), k, At)
  BY DEF ReadInv
<1>2. k \in ToFrame /\ Agrees(parser, Seen, f, k)
  BY <1>1 DEF Reads, ToFrame
<1>3. Seen = out.given /\ Seen \o parser.emitted = out.given
  <2>1. out.given \in Seq(Nat) /\ parser.emitted = <<>>
    BY DEF ReadInv
  <2>2. out.given \o <<>> = out.given
    BY <2>1
  <2> QED
    BY <2>1, <2>2 DEF Seen
<1>4. Acceptable(f, k) /\ SomeDone(f, k) /\ ChunksTo(f, k) # {} /\ Lists(out.given, f, k)
  BY <1>2, <1>3 DEF Agrees, Finished
<1>5. Complete(f, k)
  BY <1>4 DEF Complete, SomeDone
<1> QED
  BY <1>2, <1>4, <1>5 DEF AllGiven

LEMMA RefusedForCause ==
  WireInv /\ ReadInv /\ parser.error => ProtocolFault
<1> SUFFICES ASSUME WireInv, ReadInv, parser.error PROVE ProtocolFault
  OBVIOUS
<1>1. PICK n \in 0 .. Len(script.frames) :
        Starts(script)[n] <= At /\ ~Acceptable(script.frames, n)
  BY DEF ReadInv, Refuses
<1>2. n \in ToFrame /\ Reached(n)
  BY <1>1 DEF ToFrame, Reached
<1> QED
  BY <1>1, <1>2, ArrivedMeans DEF ProtocolFault

LEMMA RefusedNext ==
  (WireInv /\ ReadInv /\ parser.error => ProtocolFault)'
BY RefusedForCause, PTL

LEMMA CausesStay ==
  ASSUME UNCHANGED <<script, wire>>
  PROVE  (ProtocolFault' <=> ProtocolFault) /\ (DoneWasLast' <=> DoneWasLast)
<1>1. ProtocolFault' <=> ProtocolFault
  BY DEF ProtocolFault, ToFrame, Arrived
<1>2. DoneWasLast' <=> DoneWasLast
  BY DEF DoneWasLast, ToFrame, Arrived, OnlyBreaksSince
<1> QED
  BY <1>1, <1>2

LEMMA AllGivenStays ==
  ASSUME script' = script, out'.given = out.given
  PROVE  AllGiven' <=> AllGiven
BY DEF AllGiven, ToFrame

(* Steps                                                                    *)

LEMMA FaithStarts ==
  Init => WireInv /\ ReadInv /\ CauseInv
<1> SUFFICES ASSUME Init PROVE WireInv /\ ReadInv /\ CauseInv
  OBVIOUS
<1> DEFINE T == Starts(script)
<1>1. /\ script \in Script /\ wire = Sent(script) /\ parser = Fresh /\ queue = <<>>
      /\ out.given = <<>> /\ out = Nothing /\ out.final = "none" /\ stage = "priming"
      /\ guard.want = "open" /\ guard.class = "none" /\ row.class = "none"
  BY DEF Init, Nothing
<1>2. /\ Sent(script) \in Seq(Piece) /\ Len(Sent(script)) \in Nat
      /\ Len(script.frames) \in Nat /\ IsStart(script, T)
  BY <1>1, StartExists, ScriptTypes, StartsAre
<1>3. At = 0
  BY <1>1, <1>2 DEF At
<1>4. WireInv
  <2>1. \A i \in 1 .. Len(wire) : wire[i] = Sent(script)[At + i]
    <3>1. \A i \in 1 .. Len(wire) : 0 + i = i
      BY <1>1, <1>2
    <3> QED
      BY <1>1, <1>3, <3>1
  <2> QED
    BY <1>1, <1>2, <2>1 DEF WireInv
<1>5. Fresh \in Parser /\ ~Fresh.error /\ Reads(Fresh, <<>>, script, T, 0, 0)
  BY <1>1, <1>2, FreshReads
<1>6. Seen = <<>> /\ <<>> \in Seq(Nat) /\ Fresh.emitted = <<>>
  <2>1. <<>> \o <<>> = <<>> /\ <<>> \in Seq(Nat)
    OBVIOUS
  <2> QED
    BY <1>1, <2>1 DEF Seen, Fresh
<1>7. 0 \in ToFrame /\ Reached(0) /\ Acceptable(script.frames, 0)
      /\ Lists(Seen, script.frames, 0)
  <2>1. T[0] = 0
    BY <1>2 DEF IsStart
  <2>2. 0 \in ToFrame
    BY <1>2 DEF ToFrame
  <2> QED
    BY <1>3, <1>6, <2>1, <2>2, NothingYet DEF Reached
<1>8. ReadInv
  <2>1. \E k : Reads(parser, Seen, script, T, k, At)
    BY <1>1, <1>3, <1>5, <1>6
  <2> QED
    BY <1>1, <1>5, <1>6, <1>7, <2>1 DEF ReadInv
<1>9. CauseInv
  BY <1>1, <1>5 DEF CauseInv, Justified
<1> QED
  BY <1>4, <1>8, <1>9

LEMMA PrimeChunkIsFaithful ==
  ASSUME FaithInv, PrimeChunk
  PROVE  WireInv' /\ ReadInv' /\ CauseInv'
<1>1. PICK n \in 1 .. Len(wire) : Arrives(n)
  BY DEF PrimeChunk
<1>2. /\ stage = "priming" /\ UNCHANGED <<script, guard, row, out>>
      /\ stage' \in {"failover", "handing", "priming"}
      /\ stage' # "failover" => ~parser'.error
  BY DEF PrimeChunk
<1>3. /\ ~parser.error /\ out = Nothing /\ out.final = "none"
      /\ guard.want = "open" /\ guard.class = "none" /\ row.class = "none"
  BY <1>2 DEF FaithInv, CauseInv
<1>4. WireInv' /\ ReadInv'
  BY <1>1, <1>2, <1>3, ArrivesKeeps DEF FaithInv
<1>5. CauseInv'
  BY <1>2, <1>3 DEF CauseInv, Justified
<1> QED
  BY <1>4, <1>5

(* What finish_stream_failure leaves                                        *)
LEMMA FailsLeaves ==
  ASSUME StreamInv, NEW class, Fails(class)
  PROVE  stage' = "closing" /\ guard'.want = "failed" /\ guard'.class = class
BY DEF StreamInv, Fails

LEMMA RelayChunkIsFaithful ==
  ASSUME FaithInv, RelayChunk
  PROVE  WireInv' /\ ReadInv' /\ CauseInv'
<1>1. PICK n \in 1 .. Len(wire) : Arrives(n)
  BY DEF RelayChunk
<1>2. /\ stage = "relaying" /\ UNCHANGED <<script, row, out>>
      /\ IF parser'.error THEN Fails("protocol") ELSE UNCHANGED <<guard, stage>>
  BY DEF RelayChunk, Waiting
<1>3. /\ ~parser.error /\ out.final = "none"
      /\ guard.want = "open" /\ guard.class = "none" /\ row.class = "none"
  BY <1>2 DEF FaithInv, CauseInv
<1>4. WireInv' /\ ReadInv'
  BY <1>1, <1>2, <1>3, ArrivesKeeps DEF FaithInv
<1>5. CASE parser'.error
  <2>1. stage' = "closing" /\ guard'.want = "failed" /\ guard'.class = "protocol"
    BY <1>2, <1>5, FailsLeaves DEF FaithInv
  <2>2. ProtocolFault'
    BY <1>4, <1>5, RefusedNext
  <2>3. CauseInv'
    BY <1>2, <1>3, <2>1, <2>2 DEF CauseInv, Justified
  <2> QED
    BY <1>4, <2>3
<1>6. CASE ~parser'.error
  <2>1. CauseInv'
    BY <1>2, <1>3, <1>6 DEF CauseInv, Justified
  <2> QED
    BY <1>4, <2>1
<1> QED
  BY <1>5, <1>6

(* The provider fails, ends or is silent: nothing was left to be read.      *)
LEMMA ProviderIsBlamedForCause ==
  ASSUME FaithInv, ProviderFails \/ ProviderEnds \/ IdleTimeout
  PROVE  WireInv' /\ ReadInv' /\ CauseInv'
<1>1. /\ stage = "relaying" /\ ~Finished(parser)
      /\ UNCHANGED <<script, wire, parser, queue, row, out>>
  BY DEF ProviderFails, ProviderEnds, IdleTimeout, Waiting
<1>2. PICK class \in {"error", "incomplete", "idle"} : Fails(class)
  BY DEF ProviderFails, ProviderEnds, IdleTimeout
<1>3. /\ ~parser.error /\ out.final = "none"
      /\ guard.want = "open" /\ guard.class = "none" /\ row.class = "none"
  BY <1>1 DEF FaithInv, CauseInv
<1>4. stage' = "closing" /\ guard'.want = "failed" /\ guard'.class = class
  BY <1>2, FailsLeaves DEF FaithInv
<1>5. ~DoneWasLast'
  <2>1. ~DoneWasLast
    BY <1>1, <1>3, UnfinishedForCause DEF FaithInv, DoneWasLast
  <2> QED
    BY <1>1, <2>1, CausesStay
<1>6. WireInv' /\ ReadInv'
  BY <1>1, ReadStays DEF FaithInv
<1>7. CauseInv'
  BY <1>1, <1>3, <1>4, <1>5 DEF CauseInv, Justified
<1> QED
  BY <1>6, <1>7

LEMMA PassOnIsFaithful ==
  ASSUME FaithInv, PassOn
  PROVE  WireInv' /\ ReadInv' /\ CauseInv'
<1>1. /\ stage = "relaying" /\ stage' = "relaying" /\ UNCHANGED <<script, wire, parser, row>>
      /\ out' = [given |-> Append(out.given, Head(queue)), final |-> out.final]
      /\ guard'.want = guard.want /\ guard'.class = guard.class
  BY DEF PassOn, FaithInv, StreamInv
<1>2. /\ ~parser.error /\ out.final = "none"
      /\ guard.want = "open" /\ guard.class = "none" /\ row.class = "none"
  BY <1>1 DEF FaithInv, CauseInv
<1>3. WireInv' /\ ReadInv'
  BY PassOnReads DEF FaithInv
<1>4. CauseInv'
  BY <1>1, <1>2 DEF CauseInv, Justified
<1> QED
  BY <1>3, <1>4

(* Whatever reads nothing and gives nothing keeps what was established.     *)
LEMMA NothingMoves ==
  ASSUME FaithInv, UNCHANGED <<script, wire, parser, queue>>, out'.given = out.given
  PROVE  /\ WireInv' /\ ReadInv' /\ (AllGiven' <=> AllGiven)
         /\ (ProtocolFault' <=> ProtocolFault) /\ (DoneWasLast' <=> DoneWasLast)
BY ReadStays, CausesStay, AllGivenStays DEF FaithInv

LEMMA HandingIsFaithful ==
  ASSUME FaithInv, PrimeEnds \/ HandOver \/ HandOverFails
  PROVE  WireInv' /\ ReadInv' /\ CauseInv'
<1>1. /\ stage \in {"priming", "handing"}
      /\ UNCHANGED <<script, wire, parser, queue, row, out>>
      /\ guard'.want = guard.want /\ guard'.class = guard.class
      /\ stage' \in {"failover", "relaying", "refused"}
  BY DEF PrimeEnds, HandOver, HandOverFails, FaithInv, StreamInv
<1>2. /\ ~parser.error /\ out = Nothing /\ out.final = "none"
      /\ guard.want = "open" /\ guard.class = "none" /\ row.class = "none"
  BY <1>1 DEF FaithInv, CauseInv
<1>3. WireInv' /\ ReadInv'
  BY <1>1, NothingMoves
<1>4. CauseInv'
  BY <1>1, <1>2 DEF CauseInv, Justified
<1> QED
  BY <1>3, <1>4

LEMMA SeesDoneIsFaithful ==
  ASSUME FaithInv, SeesDone
  PROVE  WireInv' /\ ReadInv' /\ CauseInv'
<1>1. /\ stage = "relaying" /\ stage' = "accounting" /\ queue = <<>> /\ Finished(parser)
      /\ UNCHANGED <<script, wire, parser, queue, guard, row, out>>
  BY DEF SeesDone
<1>2. /\ ~parser.error /\ out.final = "none"
      /\ guard.want = "open" /\ guard.class = "none" /\ row.class = "none"
  BY <1>1 DEF FaithInv, CauseInv
<1>3. WireInv' /\ ReadInv' /\ (AllGiven' <=> AllGiven)
  BY <1>1, NothingMoves
<1>4. AllGiven'
  BY <1>1, <1>2, <1>3, FinishedHasAll DEF FaithInv
<1>5. CauseInv'
  BY <1>1, <1>2, <1>4 DEF CauseInv, Justified
<1> QED
  BY <1>3, <1>5

LEMMA AccountsIsFaithful ==
  ASSUME FaithInv, Accounts
  PROVE  WireInv' /\ ReadInv' /\ CauseInv'
<1>1. /\ stage = "accounting" /\ stage' = "closing"
      /\ UNCHANGED <<script, wire, parser, queue, row, out>>
      /\ guard'.class \in {guard.class, "accounting"}
  BY DEF Accounts, FaithInv, StreamInv
<1>2. /\ AllGiven /\ out.final = "none" /\ guard.class = "none" /\ row.class = "none"
  BY <1>1 DEF FaithInv, CauseInv
<1>3. WireInv' /\ ReadInv' /\ (AllGiven' <=> AllGiven)
  BY <1>1, NothingMoves
<1>4. CauseInv'
  BY <1>1, <1>2, <1>3 DEF CauseInv, Justified
<1> QED
  BY <1>3, <1>4

(* The writes of finish_request_and_attempt and of the guard's Drop: a row  *)
(* takes the class that the guard holds, or one that blames no provider.    *)
LEMMA CloseIsFaithful ==
  ASSUME FaithInv, CloseCommits \/ CloseFails \/ Recovers \/ Drop
  PROVE  WireInv' /\ ReadInv' /\ CauseInv'
<1> DEFINE closes == row' = row \/ row'.class \in {guard.class, "evidence", "none"}
           keeps == guard'.want = guard.want /\ guard'.class = guard.class
           waits == /\ UNCHANGED <<script, wire, parser, queue>> /\ out'.given = out.given
                    /\ stage' \in {"over", "recovering", "dropped"}
<1>0. StreamInv
  BY DEF FaithInv
<1>1. waits /\ keeps /\ closes
  <2>1. CASE CloseCommits
    BY <1>0, <2>1 DEF CloseCommits, Close, StreamInv
  <2>2. CASE CloseFails
    BY <1>0, <2>2 DEF CloseFails, Close, StreamInv
  <2>3. CASE Recovers
    BY <1>0, <2>3 DEF Recovers, Close, StreamInv
  <2>4. CASE Drop
    BY <1>0, <2>4 DEF Drop, DropWrites, Close
  <2> QED
    BY <2>1, <2>2, <2>3, <2>4
<1>2. out'.final \in {out.final, "evidence", guard.class} \/ guard.want = "succeeded"
  BY <1>0 DEF CloseCommits, CloseFails, Recovers, Drop, FinalFrame, ErrorFrame, StreamInv
<1>3. /\ WireInv' /\ ReadInv' /\ (AllGiven' <=> AllGiven)
      /\ (ProtocolFault' <=> ProtocolFault) /\ (DoneWasLast' <=> DoneWasLast)
  BY <1>1, NothingMoves
<1>4. /\ guard.want = "succeeded" => AllGiven
      /\ out.final = "done" => AllGiven
      /\ Justified(guard.class) /\ Justified(row.class)
  BY DEF FaithInv, CauseInv
<1>5. out'.final = "done" => AllGiven
  <2>1. CASE CloseCommits \/ Recovers
    <3>1. guard.want = "succeeded" \/ guard.class \in Class
      BY <1>0, <2>1 DEF CloseCommits, Recovers, StreamInv, Decided, Recovering
    <3>2. "done" \notin Class
      BY DEF Class
    <3> QED
      BY <1>2, <1>4, <3>1, <3>2
  <2>2. CASE CloseFails \/ Drop
    BY <1>4, <2>2 DEF CloseFails, Drop
  <2> QED
    BY <2>1, <2>2
<1>6. row'.class = row.class \/ row'.class \in {guard.class, "evidence", "none"}
  BY <1>1
<1>7. CauseInv'
  BY <1>1, <1>3, <1>4, <1>5, <1>6 DEF CauseInv, Justified
<1> QED
  BY <1>3, <1>7

LEMMA FaithStutters ==
  ASSUME FaithInv, UNCHANGED vars
  PROVE  WireInv' /\ ReadInv' /\ CauseInv'
<1>1. /\ UNCHANGED <<script, wire, parser, queue, stage, guard, row, out>>
      /\ out'.given = out.given
  BY DEF vars
<1>2. /\ WireInv' /\ ReadInv' /\ (AllGiven' <=> AllGiven)
      /\ (ProtocolFault' <=> ProtocolFault) /\ (DoneWasLast' <=> DoneWasLast)
  BY <1>1, NothingMoves
<1>3. CauseInv'
  BY <1>1, <1>2 DEF FaithInv, CauseInv, Justified
<1> QED
  BY <1>2, <1>3

LEMMA FaithKeeps ==
  FaithInv /\ [Next]_vars => FaithInv'
<1> SUFFICES ASSUME FaithInv, [Next]_vars PROVE FaithInv'
  OBVIOUS
<1>1. StreamInv'
  BY StepKeeps DEF FaithInv
<1>2. WireInv' /\ ReadInv' /\ CauseInv'
  BY FaithStutters, PrimeChunkIsFaithful, HandingIsFaithful, PassOnIsFaithful,
     RelayChunkIsFaithful, ProviderIsBlamedForCause, SeesDoneIsFaithful, AccountsIsFaithful,
     CloseIsFaithful DEF Next
<1> QED
  BY <1>1, <1>2 DEF FaithInv

(* For any provider, however its bytes are cut into chunks (SseValidator's  *)
(* feed and validate_frame, prefix and chat_response_stream): the client is *)
(* given the data frames of one message in the order they were sent, none   *)
(* twice and none left out, and can read each that was sent on one line;    *)
(* one that is told [DONE] has them all; and one whose request can still    *)
(* fail over has nothing.  A chunk that was sent over several lines is      *)
(* given in its place, but FramesArriveWhole does not hold of it.           *)
THEOREM ClientIsFaithfullyServed ==
  Spec => []ClientSeesWhatWasSent
<1>1. FaithInv => ClientSeesWhatWasSent
  BY GivenIsFaithful, GivenIsLegible DEF FaithInv, CauseInv, AllGiven, ClientSeesWhatWasSent
<1>2. Init => FaithInv
  BY InitHolds, FaithStarts DEF FaithInv
<1> QED
  BY <1>1, <1>2, FaithKeeps, PTL DEF Spec

(* A row that says protocol error was closed after a frame that no reader   *)
(* accepts; and one that says the provider failed, broke off or was silent  *)
(* (finish_stream_failure in chat_response_stream) is not that of a stream  *)
(* whose last word was [DONE].                                              *)
THEOREM FailuresHaveACause ==
  Spec => []StreamsFailForCause
<1>1. FaithInv => StreamsFailForCause
  BY DEF FaithInv, CauseInv, Justified, ProtocolFault, DoneWasLast, StreamsFailForCause
<1>2. Init => FaithInv
  BY InitHolds, FaithStarts DEF FaithInv
<1> QED
  BY <1>1, <1>2, FaithKeeps, PTL DEF Spec

-----------------------------------------------------------------------------
(* Types                                                                    *)

Guards == [drop: {"failed", "cancelled"}, bytes: Bytes, want: Verdict, class: Class,
           armed: BOOLEAN]
Rows == [verdict: Verdict, class: Class, bytes: Bytes]
Outs == [given: Seq(Nat), final: Final]

RecordsOK == guard \in Guards /\ row \in Rows /\ out \in Outs

LEMMA FailedGuard ==
  ASSUME NEW g \in Guards, NEW want \in Verdict, NEW class \in Class, NEW h,
         \/ h = [g EXCEPT !.bytes.final = class, !.want = want, !.class = class]
         \/ h = [g EXCEPT !.want = want, !.class = class, !.bytes.final = class]
  PROVE  h \in Guards
<1>1. PICK d \in {"failed", "cancelled"}, b \in Bytes, w \in Verdict, c \in Class, a \in BOOLEAN :
        g = [drop |-> d, bytes |-> b, want |-> w, class |-> c, armed |-> a]
  <2>1. g = [drop |-> g.drop, bytes |-> g.bytes, want |-> g.want, class |-> g.class,
             armed |-> g.armed]
    BY DEF Guards
  <2>2. /\ g.drop \in {"failed", "cancelled"} /\ g.bytes \in Bytes /\ g.want \in Verdict
        /\ g.class \in Class /\ g.armed \in BOOLEAN
    BY DEF Guards
  <2> QED
    BY Zenon, <2>1, <2>2
<1>2. h = [drop |-> d, bytes |-> [b EXCEPT !.final = class], want |-> want, class |-> class, armed |-> a]
  BY <1>1
<1>3. [b EXCEPT !.final = class] \in Bytes
  BY DEF Bytes, Final
<1>4. [drop |-> d, bytes |-> [b EXCEPT !.final = class], want |-> want, class |-> class,
       armed |-> a] \in Guards
  BY <1>3 DEF Guards
<1> QED
  BY <1>2, <1>4

LEMMA CountedFrame ==
  ASSUME NEW g \in Guards
  PROVE  [g EXCEPT !.bytes.frames = @ + 1] \in Guards
<1> DEFINE b == [g.bytes EXCEPT !.frames = @ + 1]
<1>1. b \in Bytes
  BY DEF Guards, Bytes
<1>2. [g EXCEPT !.bytes.frames = @ + 1] =
        [drop |-> g.drop, bytes |-> b, want |-> g.want, class |-> g.class, armed |-> g.armed]
  BY DEF Guards
<1> HIDE DEF b
<1> QED
  BY <1>1, <1>2 DEF Guards

LEMMA ClosedRow ==
  ASSUME row \in Rows, NEW verdict \in Verdict, NEW class \in Class, NEW bytes \in Bytes,
         Close(verdict, class, bytes)
  PROVE  row' \in Rows
BY DEF Close, Rows

LEMMA GivenStays ==
  ASSUME out \in Outs, NEW final \in Final,
         out' = out \/ out' = [out EXCEPT !.final = final]
  PROVE  out' \in Outs
BY DEF Outs

LEMMA RecordsKeep ==
  ASSUME FaithInv, RecordsOK, [Next]_vars
  PROVE  RecordsOK'
<1>0. /\ guard \in Guards /\ row \in Rows /\ out \in Outs
      /\ guard.bytes \in Bytes /\ guard.want \in Verdict /\ guard.class \in Class
      /\ guard.drop \in Verdict /\ {"done", "evidence"} \subseteq Final /\ Class \subseteq Final
      /\ {"evidence", "none", "accounting"} \subseteq Class
      /\ {"failed", "succeeded"} \subseteq Verdict
  BY DEF RecordsOK, Guards, Verdict, Class, Final
<1>00. SuccessBytes \in Bytes /\ RecoveryBytes \in Bytes
  BY <1>0 DEF SuccessBytes, RecoveryBytes, CountedWith, Bytes
<1>1. CASE UNCHANGED <<guard, row, out>>
  BY <1>1 DEF RecordsOK
<1>2. CASE HandOver
  <2>1. guard' \in Guards /\ UNCHANGED <<row, out>>
    BY <1>0, <1>2 DEF HandOver, Guards
  <2> QED
    BY <1>0, <2>1 DEF RecordsOK
<1>3. CASE PassOn
  <2>1. guard' \in Guards
    BY <1>0, <1>3, CountedFrame DEF PassOn
  <2>2. out'.given \in Seq(Nat)
    <3>1. ReadInv'
      BY FaithKeeps DEF FaithInv
    <3> QED
      BY <3>1 DEF ReadInv
  <2>3. out' = [given |-> out'.given, final |-> out.final] /\ row' = row
    BY <1>0, <1>3 DEF PassOn, Outs
  <2>4. out' \in Outs
    BY <1>0, <2>2, <2>3 DEF Outs
  <2> QED
    BY <1>0, <2>1, <2>3, <2>4 DEF RecordsOK
<1>4. ASSUME NEW class \in Class, Fails(class), UNCHANGED <<row, out>>
      PROVE  RecordsOK'
  <2>1. guard' \in Guards
    BY <1>0, <1>4, FailedGuard DEF Fails
  <2> QED
    BY <1>0, <1>4, <2>1 DEF RecordsOK
<1>5. CASE RelayChunk \/ ProviderFails \/ ProviderEnds \/ IdleTimeout
  <2>1. UNCHANGED <<row, out>>
    BY <1>5 DEF RelayChunk, ProviderFails, ProviderEnds, IdleTimeout
  <2>2. (\E class \in Class : Fails(class)) \/ UNCHANGED guard
    BY <1>5 DEF RelayChunk, ProviderFails, ProviderEnds, IdleTimeout, Class
  <2> QED
    BY <1>1, <1>4, <2>1, <2>2
<1>6. CASE Accounts
  <2>1. UNCHANGED <<row, out>>
    BY <1>6 DEF Accounts
  <2>2. CASE guard' = [guard EXCEPT !.want = "succeeded"]
    <3>1. guard' \in Guards
      BY <1>0, <2>2 DEF Guards
    <3> QED
      BY <1>0, <2>1, <3>1 DEF RecordsOK
  <2>3. CASE guard' = [guard EXCEPT !.want = "failed", !.class = "accounting",
                                   !.bytes.final = "accounting"]
    <3>1. guard' \in Guards
      BY <1>0, <2>3, FailedGuard
    <3> QED
      BY <1>0, <2>1, <3>1 DEF RecordsOK
  <2> QED
    BY <1>6, <2>2, <2>3 DEF Accounts
<1>7. CASE CloseCommits
  <2>1. guard' \in Guards
    BY <1>0, <1>00, <1>7 DEF CloseCommits, Guards
  <2>2. row' \in Rows
    BY <1>0, <1>00, <1>7, ClosedRow DEF CloseCommits
  <2>3. out' \in Outs
    <3>1. FinalFrame \in Final /\ out' = [out EXCEPT !.final = FinalFrame]
      BY <1>0, <1>7 DEF CloseCommits, FinalFrame
    <3> QED
      BY <1>0, <3>1 DEF Outs
  <2> QED
    BY <2>1, <2>2, <2>3 DEF RecordsOK
<1>8. CASE CloseFails
  <2>1. guard' \in Guards /\ out' = out
    BY <1>0, <1>00, <1>8 DEF CloseFails, Guards
  <2>2. row' \in Rows
    BY <1>0, <1>00, <1>8, ClosedRow DEF CloseFails
  <2> QED
    BY <1>0, <2>1, <2>2 DEF RecordsOK
<1>9. CASE Recovers
  <2>1. guard' \in Guards
    BY <1>0, <1>9 DEF Recovers, Guards
  <2>2. row' \in Rows
    BY <1>0, <1>9, ClosedRow DEF Recovers
  <2>3. out' \in Outs
    <3>1. ErrorFrame \in Final /\ out' = [out EXCEPT !.final = ErrorFrame]
      BY <1>0, <1>9 DEF Recovers, ErrorFrame
    <3> QED
      BY <1>0, <3>1 DEF Outs
  <2> QED
    BY <2>1, <2>2, <2>3 DEF RecordsOK
<1>10. CASE Drop
  <2>1. guard' = guard /\ out' = out
    BY <1>10 DEF Drop
  <2>2. row' \in Rows
    BY <1>0, <1>10, ClosedRow DEF Drop, DropWrites
  <2> QED
    BY <1>0, <2>1, <2>2 DEF RecordsOK
<1>11. CASE PrimeChunk \/ PrimeEnds \/ HandOverFails \/ SeesDone
  BY <1>1, <1>11 DEF PrimeChunk, PrimeEnds, HandOverFails, SeesDone
<1> QED
  BY <1>1, <1>2, <1>3, <1>5, <1>6, <1>7, <1>8, <1>9, <1>10, <1>11 DEF Next, vars

(* Every variable keeps its type; the wire never holds more than what was   *)
(* sent, and the queue only the numbers of frames.                          *)
THEOREM TypeCorrect ==
  Spec => []TypeOK
<1>1. FaithInv /\ RecordsOK => TypeOK
  BY DEF FaithInv, StreamInv, WireInv, ReadInv, RecordsOK, Guards, Rows, Outs, TypeOK
<1>2. Init => FaithInv /\ RecordsOK
  <2>1. Init => RecordsOK
    <3>1. <<>> \in Seq(Nat)
      OBVIOUS
    <3> QED
      BY <3>1 DEF Init, RecordsOK, Guards, Rows, Outs, Nothing, NoBytes, Bytes, Final, Verdict,
                  Class
  <2> QED
    BY <2>1, InitHolds, FaithStarts DEF FaithInv
<1>3. FaithInv /\ RecordsOK /\ [Next]_vars => FaithInv' /\ RecordsOK'
  BY FaithKeeps, RecordsKeep
<1> QED
  BY <1>1, <1>2, <1>3, PTL DEF Spec

=============================================================================
