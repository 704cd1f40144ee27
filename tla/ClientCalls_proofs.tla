-------------------------- MODULE ClientCalls_proofs --------------------------
(***************************************************************************)
(* Proofs about ClientCalls, for any names, any number of challenges and   *)
(* any clicks: whom the client believes to be, and what the dialogs of     *)
(* challenges answer.                                                      *)
(*                                                                         *)
(* A challenge goes from the messages on their way to the jobs of the main *)
(* loop, to a dialog, and to the answers.  All that the argument needs of  *)
(* the three sequences is the numbers of the challenges in them.           *)
(***************************************************************************)
EXTENDS ClientCalls, TLAPS

\* The numbers of the challenges in a sequence; what is not one counts as 0.
Nums(s, f) == [i \in 1..Len(s) |-> f[s[i]]]
DialogId == [d \in Dialogs |-> IF d.what = "challenge" THEN d.id ELSE 0]
JobId == [j \in Jobs |-> IF j.what = "challenge" THEN j.id ELSE 0]
MsgId == [m \in Msgs |-> IF m.type = "CHALLENGE_RECEIVED" THEN m.id ELSE 0]

InSeq(n) == {n[i] : i \in DOMAIN n} \ {0}
Increasing(n) ==
  \A i, j \in DOMAIN n : i < j /\ n[i] # 0 /\ n[j] # 0 => n[i] < n[j]
Decreasing(n) ==
  \A i, j \in DOMAIN n : i < j /\ n[i] # 0 /\ n[j] # 0 => n[i] > n[j]

OnDialogs == InSeq(Nums(dialogs, DialogId))
InJobs == InSeq(Nums(idle, JobId))
InMsgs == InSeq(Nums(toClient, MsgId))
Asked == {a.asked : a \in answers}

\* Challenges have numbers, a login has a user, and the user of a login that
\* succeeds has been accepted.
GoodDialogs == {d \in Dialogs : d.what = "challenge" => d.id # 0}
GoodJobs == {j \in Jobs : j.what = "challenge" => j.id # 0}
GoodReqs == {q \in Reqs : q.kind = "LOGIN" => q.user \in Users}
GoodMsgs ==
  {m \in Msgs : /\ m.type = "CHALLENGE_RECEIVED" <=> m.id # 0
                /\ m.kind = "LOGIN" /\ m.ok => m.user \in accepted}

DataInv ==
  /\ TypeOK /\ AuthJustified
  /\ dialogs \in Seq(GoodDialogs) /\ idle \in Seq(GoodJobs)
  /\ toServer \in Seq(GoodReqs) /\ toClient \in Seq(GoodMsgs)
  /\ call.kind = "LOGIN" => call.user \in Users
  /\ call.kind = "NONE" => call = NoCall

SortedInv ==
  /\ Decreasing(Nums(dialogs, DialogId))
  /\ Increasing(Nums(idle, JobId)) /\ Increasing(Nums(toClient, MsgId))

\* A challenge is in one place at a time, and older ones are further.
PlacesInv ==
  /\ Asked \cup OnDialogs \cup InJobs \cup InMsgs \subseteq 1..offered
  /\ \A x \in Asked \cup OnDialogs : \A y \in InJobs \cup InMsgs : x < y
  /\ \A x \in InJobs : \A y \in InMsgs : x < y
  /\ Asked \cap OnDialogs = {}

\* The ids are those of the innermost dialog, which has them unless one that
\* was opened after it has been closed.
IdsInv ==
  /\ onScreen \in {0, challenge}
  /\ challenge # 0 => challenge \in OnDialogs /\ \A y \in OnDialogs : y <= challenge
  /\ \A x \in OnDialogs :
       (\A y \in OnDialogs : y <= x) /\ (\A y \in Asked : y < x) => challenge = x

ChallengeInv == SortedInv /\ PlacesInv /\ IdsInv /\ AnswersOwnChallenge

Inv == DataInv /\ ChallengeInv

-----------------------------------------------------------------------------
(* Sequences of numbers.                                                   *)

LEMMA AppendNum ==
  ASSUME NEW n \in Seq(Nat), NEW x \in Nat
  PROVE  /\ x = 0 => InSeq(Append(n, x)) = InSeq(n)
         /\ x # 0 => InSeq(Append(n, x)) = InSeq(n) \cup {x}
         /\ Increasing(n) /\ (x # 0 => \A y \in InSeq(n) : y < x)
              => Increasing(Append(n, x))
<1> DEFINE m == Append(n, x)
<1>1. /\ DOMAIN n = 1..Len(n) /\ Len(n) \in Nat /\ DOMAIN m = 1..Len(n) + 1
      /\ \A i \in 1..Len(n) : m[i] = n[i] /\ n[i] \in Nat
      /\ m[Len(n) + 1] = x
  OBVIOUS
<1>2. \A i \in DOMAIN m : i \in DOMAIN n \/ i = Len(n) + 1
  BY <1>1
<1>3. {m[i] : i \in DOMAIN m} = {n[i] : i \in DOMAIN n} \cup {x}
  <2>1. DOMAIN n \subseteq DOMAIN m /\ Len(n) + 1 \in DOMAIN m
    BY <1>1
  <2> HIDE DEF m
  <2> QED
    BY <1>1, <1>2, <2>1
<1>4. (x = 0 => InSeq(m) = InSeq(n)) /\ (x # 0 => InSeq(m) = InSeq(n) \cup {x})
  BY <1>3 DEF InSeq
<1>5. ASSUME Increasing(n), x # 0 => \A y \in InSeq(n) : y < x
      PROVE  Increasing(m)
  <2> SUFFICES ASSUME NEW i \in DOMAIN m, NEW j \in DOMAIN m,
                      i < j, m[i] # 0, m[j] # 0
               PROVE  m[i] < m[j]
    BY DEF Increasing
  <2>1. i \in DOMAIN n /\ m[i] = n[i]
    BY <1>1
  <2>2. CASE j \in DOMAIN n
    BY <1>1, <1>5, <2>1, <2>2 DEF Increasing
  <2>3. CASE j = Len(n) + 1
    <3>1. m[j] = x /\ x # 0
      BY <1>1, <2>3
    <3>2. n[i] \in InSeq(n)
      BY <2>1 DEF InSeq
    <3> QED
      BY <1>5, <2>1, <3>1, <3>2
  <2> QED
    BY <1>2, <2>2, <2>3
<1> QED
  BY <1>4, <1>5

LEMMA TailNum ==
  ASSUME NEW n \in Seq(Nat), n # <<>>
  PROVE  /\ Head(n) = 0 => InSeq(Tail(n)) = InSeq(n)
         /\ Head(n) # 0 => InSeq(n) = InSeq(Tail(n)) \cup {Head(n)}
         /\ Increasing(n) => Increasing(Tail(n))
         /\ Increasing(n) /\ Head(n) # 0 => \A y \in InSeq(Tail(n)) : Head(n) < y
         /\ Decreasing(n) => Decreasing(Tail(n))
         /\ Decreasing(n) /\ Head(n) # 0 => \A y \in InSeq(Tail(n)) : Head(n) > y
<1> DEFINE m == Tail(n)
<1>1. /\ Len(n) \in Nat /\ Len(n) >= 1 /\ DOMAIN n = 1..Len(n) /\ Head(n) = n[1]
      /\ DOMAIN m = 1..Len(n) - 1
      /\ \A i \in 1..Len(n) - 1 : m[i] = n[i + 1]
      /\ \A i \in DOMAIN n : n[i] \in Nat
  OBVIOUS
<1> HIDE DEF m
<1>2. \A i \in DOMAIN m : i + 1 \in DOMAIN n /\ i + 1 > 1 /\ i \in Nat
  BY <1>1
<1>3. \A i \in DOMAIN n : i = 1 \/ (i - 1 \in DOMAIN m /\ n[i] = m[i - 1])
  BY <1>1
<1>4. {n[i] : i \in DOMAIN n} = {m[i] : i \in DOMAIN m} \cup {Head(n)}
  <2>1. {m[i] : i \in DOMAIN m} \cup {Head(n)} \subseteq {n[i] : i \in DOMAIN n}
    <3>1. 1 \in DOMAIN n
      BY <1>1
    <3> QED
      BY <1>1, <1>2, <3>1
  <2>2. {n[i] : i \in DOMAIN n} \subseteq {m[i] : i \in DOMAIN m} \cup {Head(n)}
    <3> SUFFICES ASSUME NEW i \in DOMAIN n
                 PROVE  n[i] \in {m[k] : k \in DOMAIN m} \cup {Head(n)}
      OBVIOUS
    <3>1. i = 1 \/ (i - 1 \in DOMAIN m /\ n[i] = m[i - 1])
      BY <1>3
    <3> QED
      BY <1>1, <3>1
  <2> QED
    BY <2>1, <2>2
<1>5. /\ Head(n) = 0 => InSeq(m) = InSeq(n)
      /\ Head(n) # 0 => InSeq(n) = InSeq(m) \cup {Head(n)}
  BY <1>4 DEF InSeq
<1>6. \A y \in InSeq(m) : \E i \in DOMAIN n : i > 1 /\ y = n[i] /\ y # 0
  BY <1>1, <1>2 DEF InSeq
<1>7. 1 \in DOMAIN n /\ n[1] = Head(n)
  BY <1>1
<1>8. /\ Increasing(n) /\ Head(n) # 0 => \A y \in InSeq(m) : Head(n) < y
      /\ Decreasing(n) /\ Head(n) # 0 => \A y \in InSeq(m) : Head(n) > y
  BY <1>6, <1>7 DEF Increasing, Decreasing
<1>9. (Increasing(n) => Increasing(m)) /\ (Decreasing(n) => Decreasing(m))
  <2>1. \A i, j \in DOMAIN m : i < j => i + 1 < j + 1
    BY <1>2
  <2>2. \A i \in DOMAIN m : i + 1 \in DOMAIN n /\ m[i] = n[i + 1]
    BY <1>1, <1>2
  <2> QED
    BY <2>1, <2>2 DEF Increasing, Decreasing
<1> QED
  BY <1>5, <1>8, <1>9 DEF m

LEMMA PushNum ==
  ASSUME NEW n \in Seq(Nat), NEW x \in Nat
  PROVE  /\ x = 0 => InSeq(<<x>> \o n) = InSeq(n)
         /\ x # 0 => InSeq(<<x>> \o n) = InSeq(n) \cup {x}
         /\ Decreasing(n) /\ (x # 0 => \A y \in InSeq(n) : y < x)
              => Decreasing(<<x>> \o n)
<1> DEFINE m == <<x>> \o n
<1>1. /\ Len(n) \in Nat /\ DOMAIN n = 1..Len(n) /\ DOMAIN m = 1..Len(n) + 1
      /\ m[1] = x /\ \A i \in DOMAIN n : m[i + 1] = n[i] /\ n[i] \in Nat
  OBVIOUS
<1> HIDE DEF m
<1>2. \A i \in DOMAIN n : i + 1 \in DOMAIN m
  BY <1>1
<1>3. \A i \in DOMAIN m : i = 1 \/ (i - 1 \in DOMAIN n /\ m[i] = n[i - 1])
  <2> SUFFICES ASSUME NEW i \in DOMAIN m, i # 1
               PROVE  i - 1 \in DOMAIN n /\ m[i] = n[i - 1]
    OBVIOUS
  <2>1. i - 1 \in DOMAIN n /\ (i - 1) + 1 = i
    BY <1>1
  <2> QED
    BY <1>1, <2>1
<1>4. {m[i] : i \in DOMAIN m} = {n[i] : i \in DOMAIN n} \cup {x}
  <2>1. {n[i] : i \in DOMAIN n} \cup {x} \subseteq {m[i] : i \in DOMAIN m}
    <3>1. 1 \in DOMAIN m
      BY <1>1
    <3> QED
      BY <1>1, <1>2, <3>1
  <2>2. {m[i] : i \in DOMAIN m} \subseteq {n[i] : i \in DOMAIN n} \cup {x}
    BY <1>1, <1>3
  <2> QED
    BY <2>1, <2>2
<1>5. (x = 0 => InSeq(m) = InSeq(n)) /\ (x # 0 => InSeq(m) = InSeq(n) \cup {x})
  BY <1>4 DEF InSeq
<1>6. ASSUME Decreasing(n), x # 0 => \A y \in InSeq(n) : y < x
      PROVE  Decreasing(m)
  <2> SUFFICES ASSUME NEW i \in DOMAIN m, NEW j \in DOMAIN m,
                      i < j, m[i] # 0, m[j] # 0
               PROVE  m[i] > m[j]
    BY DEF Decreasing
  <2>1. i \in Nat /\ j \in Nat /\ i >= 1 /\ j - 1 \in DOMAIN n /\ m[j] = n[j - 1]
    BY <1>1, <1>3
  <2>2. CASE i = 1
    <3>1. m[i] = x /\ n[j - 1] \in InSeq(n)
      BY <1>1, <2>1, <2>2 DEF InSeq
    <3> QED
      BY <1>6, <2>1, <3>1
  <2>3. CASE i # 1
    <3>1. i - 1 \in DOMAIN n /\ m[i] = n[i - 1] /\ i - 1 < j - 1
      BY <1>3, <2>1, <2>3
    <3> QED
      BY <1>6, <2>1, <3>1 DEF Decreasing
  <2> QED
    BY <2>2, <2>3
<1> QED
  BY <1>5, <1>6 DEF m

-----------------------------------------------------------------------------
(* The numbers of the three sequences.                                     *)

LEMMA NumsOf ==
  ASSUME NEW S, NEW f \in [S -> Nat], NEW s \in Seq(S)
  PROVE  /\ Nums(s, f) \in Seq(Nat) /\ Len(Nums(s, f)) = Len(s)
         /\ \A x \in S : Nums(Append(s, x), f) = Append(Nums(s, f), f[x])
         /\ \A x \in S : Nums(<<x>> \o s, f) = <<f[x]>> \o Nums(s, f)
         /\ s # <<>> => /\ Nums(s, f) # <<>> /\ Head(Nums(s, f)) = f[Head(s)]
                       /\ Nums(Tail(s), f) = Tail(Nums(s, f))
<1>1. Len(s) \in Nat /\ \A i \in 1..Len(s) : s[i] \in S /\ f[s[i]] \in Nat
  OBVIOUS
<1>2. Nums(s, f) \in Seq(Nat) /\ Len(Nums(s, f)) = Len(s)
  BY <1>1 DEF Nums
<1>3. ASSUME NEW x \in S
      PROVE  Nums(Append(s, x), f) = Append(Nums(s, f), f[x])
  <2>1. /\ Len(Append(s, x)) = Len(s) + 1
        /\ \A i \in 1..Len(s) + 1 :
             Append(s, x)[i] = IF i = Len(s) + 1 THEN x ELSE s[i]
    BY <1>1
  <2>2. Nums(Append(s, x), f)
          = [i \in 1..Len(s) + 1 |-> IF i = Len(s) + 1 THEN f[x] ELSE f[s[i]]]
    BY <2>1 DEF Nums
  <2>3. Append(Nums(s, f), f[x])
          = [i \in 1..Len(s) + 1 |-> IF i = Len(s) + 1 THEN f[x] ELSE f[s[i]]]
    BY <1>1, <1>2 DEF Nums
  <2> QED
    BY <2>2, <2>3
<1>4. ASSUME NEW x \in S
      PROVE  Nums(<<x>> \o s, f) = <<f[x]>> \o Nums(s, f)
  <2>1. /\ Len(<<x>> \o s) = Len(s) + 1
        /\ \A i \in 1..Len(s) + 1 :
             (<<x>> \o s)[i] = IF i = 1 THEN x ELSE s[i - 1]
    BY <1>1
  <2>2. Nums(<<x>> \o s, f)
          = [i \in 1..Len(s) + 1 |-> IF i = 1 THEN f[x] ELSE f[s[i - 1]]]
    BY <2>1 DEF Nums
  <2>3. <<f[x]>> \o Nums(s, f)
          = [i \in 1..Len(s) + 1 |-> IF i = 1 THEN f[x] ELSE f[s[i - 1]]]
    BY <1>1, <1>2 DEF Nums
  <2> QED
    BY <2>2, <2>3
<1>5. ASSUME s # <<>>
      PROVE  /\ Nums(s, f) # <<>> /\ Head(Nums(s, f)) = f[Head(s)]
             /\ Nums(Tail(s), f) = Tail(Nums(s, f))
  <2>1. Len(s) >= 1 /\ Head(s) = s[1]
    BY <1>5
  <2>2. /\ Len(Tail(s)) = Len(s) - 1
        /\ \A i \in 1..Len(s) - 1 : Tail(s)[i] = s[i + 1]
    BY <1>1, <1>5, <2>1
  <2>3. Nums(Tail(s), f) = [i \in 1..Len(s) - 1 |-> f[s[i + 1]]]
    BY <2>2 DEF Nums
  <2>4. Tail(Nums(s, f)) = [i \in 1..Len(s) - 1 |-> f[s[i + 1]]]
    BY <1>1, <1>2, <2>1 DEF Nums
  <2>5. Nums(s, f) # <<>> /\ Head(Nums(s, f)) = f[s[1]]
    BY <1>1, <1>2, <2>1 DEF Nums
  <2> QED
    BY <2>1, <2>3, <2>4, <2>5
<1> QED
  BY <1>2, <1>3, <1>4, <1>5

LEMMA IdTypes ==
  /\ DialogId \in [Dialogs -> Nat] /\ JobId \in [Jobs -> Nat] /\ MsgId \in [Msgs -> Nat]
BY CallsAssumption DEF DialogId, JobId, MsgId, Dialogs, Jobs, Msgs, ChallengeIds

\* One more job at the end of the main loop's queue.
LEMMA AppendJob ==
  ASSUME NEW s \in Seq(Jobs), NEW j \in Jobs
  PROVE  LET n == Nums(s, JobId)
             m == Nums(Append(s, j), JobId)
         IN  /\ j.what # "challenge" =>
                  InSeq(m) = InSeq(n) /\ (Increasing(n) => Increasing(m))
             /\ j.what = "challenge" /\ j.id # 0 =>
                  /\ InSeq(m) = InSeq(n) \cup {j.id}
                  /\ Increasing(n) /\ (\A y \in InSeq(n) : y < j.id) => Increasing(m)
<1>1. /\ Nums(s, JobId) \in Seq(Nat)
      /\ Nums(Append(s, j), JobId) = Append(Nums(s, JobId), JobId[j])
  <2>1. JobId \in [Jobs -> Nat]
    BY IdTypes
  <2> QED
    BY <2>1, NumsOf
<1>2. JobId[j] \in Nat /\ JobId[j] = IF j.what = "challenge" THEN j.id ELSE 0
  BY IdTypes DEF JobId
<1> QED
  BY <1>1, <1>2, AppendNum

\* The first job is taken.
LEMMA TakeJob ==
  ASSUME NEW s \in Seq(Jobs), s # <<>>
  PROVE  LET n == Nums(s, JobId)
             m == Nums(Tail(s), JobId)
         IN  /\ Increasing(n) => Increasing(m)
             /\ Head(s).what # "challenge" => InSeq(m) = InSeq(n)
             /\ Head(s).what = "challenge" /\ Head(s).id # 0 =>
                  /\ InSeq(n) = InSeq(m) \cup {Head(s).id}
                  /\ Increasing(n) => \A y \in InSeq(m) : Head(s).id < y
<1>1. /\ Nums(s, JobId) \in Seq(Nat) /\ Nums(s, JobId) # <<>>
      /\ Nums(Tail(s), JobId) = Tail(Nums(s, JobId))
      /\ Head(Nums(s, JobId)) = JobId[Head(s)]
  <2>1. JobId \in [Jobs -> Nat]
    BY IdTypes
  <2> QED
    BY <2>1, NumsOf
<1>2. /\ Head(s) \in Jobs
      /\ JobId[Head(s)] = IF Head(s).what = "challenge" THEN Head(s).id ELSE 0
  BY DEF JobId
<1> DEFINE n == Nums(s, JobId)
           m == Nums(Tail(s), JobId)
<1>3. n \in Seq(Nat) /\ n # <<>> /\ m = Tail(n) /\ Head(n) = JobId[Head(s)]
  BY <1>1
<1> HIDE DEF n, m
<1>4. /\ Increasing(n) => Increasing(m)
      /\ Head(n) = 0 => InSeq(m) = InSeq(n)
      /\ Head(n) # 0 => InSeq(n) = InSeq(m) \cup {Head(n)}
      /\ Head(n) # 0 /\ Increasing(n) => \A y \in InSeq(m) : Head(n) < y
  BY <1>3, TailNum
<1> QED
  BY <1>2, <1>3, <1>4 DEF n, m

LEMMA AppendMsg ==
  ASSUME NEW s \in Seq(Msgs), NEW x \in Msgs
  PROVE  LET n == Nums(s, MsgId)
             m == Nums(Append(s, x), MsgId)
         IN  /\ x.type # "CHALLENGE_RECEIVED" =>
                  InSeq(m) = InSeq(n) /\ (Increasing(n) => Increasing(m))
             /\ x.type = "CHALLENGE_RECEIVED" /\ x.id # 0 =>
                  /\ InSeq(m) = InSeq(n) \cup {x.id}
                  /\ Increasing(n) /\ (\A y \in InSeq(n) : y < x.id) => Increasing(m)
<1>1. /\ Nums(s, MsgId) \in Seq(Nat)
      /\ Nums(Append(s, x), MsgId) = Append(Nums(s, MsgId), MsgId[x])
  <2>1. MsgId \in [Msgs -> Nat]
    BY IdTypes
  <2> QED
    BY <2>1, NumsOf
<1>2. MsgId[x] \in Nat /\ MsgId[x] = IF x.type = "CHALLENGE_RECEIVED" THEN x.id ELSE 0
  BY IdTypes DEF MsgId
<1> QED
  BY <1>1, <1>2, AppendNum

LEMMA TakeMsg ==
  ASSUME NEW s \in Seq(Msgs), s # <<>>
  PROVE  LET n == Nums(s, MsgId)
             m == Nums(Tail(s), MsgId)
         IN  /\ Increasing(n) => Increasing(m)
             /\ Head(s).type # "CHALLENGE_RECEIVED" => InSeq(m) = InSeq(n)
             /\ Head(s).type = "CHALLENGE_RECEIVED" /\ Head(s).id # 0 =>
                  /\ InSeq(n) = InSeq(m) \cup {Head(s).id}
                  /\ Increasing(n) => \A y \in InSeq(m) : Head(s).id < y
<1>1. /\ Nums(s, MsgId) \in Seq(Nat) /\ Nums(s, MsgId) # <<>>
      /\ Nums(Tail(s), MsgId) = Tail(Nums(s, MsgId))
      /\ Head(Nums(s, MsgId)) = MsgId[Head(s)]
  <2>1. MsgId \in [Msgs -> Nat]
    BY IdTypes
  <2> QED
    BY <2>1, NumsOf
<1>2. /\ Head(s) \in Msgs
      /\ MsgId[Head(s)] = IF Head(s).type = "CHALLENGE_RECEIVED" THEN Head(s).id ELSE 0
  BY DEF MsgId
<1> DEFINE n == Nums(s, MsgId)
           m == Nums(Tail(s), MsgId)
<1>3. n \in Seq(Nat) /\ n # <<>> /\ m = Tail(n) /\ Head(n) = MsgId[Head(s)]
  BY <1>1
<1> HIDE DEF n, m
<1>4. /\ Increasing(n) => Increasing(m)
      /\ Head(n) = 0 => InSeq(m) = InSeq(n)
      /\ Head(n) # 0 => InSeq(n) = InSeq(m) \cup {Head(n)}
      /\ Head(n) # 0 /\ Increasing(n) => \A y \in InSeq(m) : Head(n) < y
  BY <1>3, TailNum
<1> QED
  BY <1>2, <1>3, <1>4 DEF n, m

\* A dialog opens in front of the others, and the first one is closed.
LEMMA PushDialog ==
  ASSUME NEW s \in Seq(Dialogs), NEW d \in Dialogs
  PROVE  LET n == Nums(s, DialogId)
             m == Nums(<<d>> \o s, DialogId)
         IN  /\ d.what # "challenge" =>
                  InSeq(m) = InSeq(n) /\ (Decreasing(n) => Decreasing(m))
             /\ d.what = "challenge" /\ d.id # 0 =>
                  /\ InSeq(m) = InSeq(n) \cup {d.id}
                  /\ Decreasing(n) /\ (\A y \in InSeq(n) : y < d.id) => Decreasing(m)
<1>1. /\ Nums(s, DialogId) \in Seq(Nat)
      /\ Nums(<<d>> \o s, DialogId) = <<DialogId[d]>> \o Nums(s, DialogId)
  <2>1. DialogId \in [Dialogs -> Nat]
    BY IdTypes
  <2> QED
    BY <2>1, NumsOf
<1>2. /\ DialogId[d] \in Nat
      /\ DialogId[d] = IF d.what = "challenge" THEN d.id ELSE 0
  BY IdTypes DEF DialogId
<1> DEFINE n == Nums(s, DialogId)
           m == Nums(<<d>> \o s, DialogId)
<1>3. n \in Seq(Nat) /\ m = <<DialogId[d]>> \o n
  BY <1>1
<1> HIDE DEF n, m
<1>4. \A x \in Nat : m = <<x>> \o n =>
        /\ x = 0 => InSeq(m) = InSeq(n)
        /\ x # 0 => InSeq(m) = InSeq(n) \cup {x}
        /\ Decreasing(n) /\ (x # 0 => \A y \in InSeq(n) : y < x) => Decreasing(m)
  BY <1>3, PushNum
<1>5. LET x == DialogId[d]
      IN  /\ x = 0 => InSeq(m) = InSeq(n)
          /\ x # 0 => InSeq(m) = InSeq(n) \cup {x}
          /\ Decreasing(n) /\ (x # 0 => \A y \in InSeq(n) : y < x) => Decreasing(m)
  BY <1>2, <1>3, <1>4
<1> QED
  BY <1>2, <1>5 DEF n, m

LEMMA TakeDialog ==
  ASSUME NEW s \in Seq(Dialogs), s # <<>>
  PROVE  LET n == Nums(s, DialogId)
             m == Nums(Tail(s), DialogId)
         IN  /\ Decreasing(n) => Decreasing(m)
             /\ Head(s).what # "challenge" => InSeq(m) = InSeq(n)
             /\ Head(s).what = "challenge" /\ Head(s).id # 0 =>
                  /\ InSeq(n) = InSeq(m) \cup {Head(s).id}
                  /\ Decreasing(n) => \A y \in InSeq(m) : Head(s).id > y
<1>1. /\ Nums(s, DialogId) \in Seq(Nat) /\ Nums(s, DialogId) # <<>>
      /\ Nums(Tail(s), DialogId) = Tail(Nums(s, DialogId))
      /\ Head(Nums(s, DialogId)) = DialogId[Head(s)]
  <2>1. DialogId \in [Dialogs -> Nat]
    BY IdTypes
  <2> QED
    BY <2>1, NumsOf
<1>2. /\ Head(s) \in Dialogs
      /\ DialogId[Head(s)] = IF Head(s).what = "challenge" THEN Head(s).id ELSE 0
  BY DEF DialogId
<1> DEFINE n == Nums(s, DialogId)
           m == Nums(Tail(s), DialogId)
<1>3. n \in Seq(Nat) /\ n # <<>> /\ m = Tail(n) /\ Head(n) = DialogId[Head(s)]
  BY <1>1
<1> HIDE DEF n, m
<1>4. /\ Decreasing(n) => Decreasing(m)
      /\ Head(n) = 0 => InSeq(m) = InSeq(n)
      /\ Head(n) # 0 => InSeq(n) = InSeq(m) \cup {Head(n)}
      /\ Head(n) # 0 /\ Decreasing(n) => \A y \in InSeq(m) : Head(n) > y
  BY <1>3, TailNum
<1> QED
  BY <1>2, <1>3, <1>4 DEF n, m

-----------------------------------------------------------------------------
(* What the steps have in common.                                          *)

LEMMA SeqOfMore ==
  ASSUME NEW S, NEW T, S \subseteq T, NEW s \in Seq(S)
  PROVE  s \in Seq(T)
<1>1. Len(s) \in Nat /\ DOMAIN s = 1..Len(s) /\ \A i \in 1..Len(s) : s[i] \in T
  OBVIOUS
<1>2. s = [i \in 1..Len(s) |-> s[i]]
  BY <1>1
<1> QED
  BY <1>1, <1>2

LEMMA GoodTypes ==
  /\ Seq(GoodDialogs) \subseteq Seq(Dialogs) /\ Seq(GoodJobs) \subseteq Seq(Jobs)
  /\ Seq(GoodReqs) \subseteq Seq(Reqs) /\ Seq(GoodMsgs) \subseteq Seq(Msgs)
<1>1. /\ GoodDialogs \subseteq Dialogs /\ GoodJobs \subseteq Jobs
      /\ GoodReqs \subseteq Reqs /\ GoodMsgs \subseteq Msgs
  BY DEF GoodDialogs, GoodJobs, GoodReqs, GoodMsgs
<1> QED
  BY <1>1, SeqOfMore

\* Steps that open and close no dialog of a challenge and answer none: the
\* challenges on their way are still where they were, or are lost.
LEMMA KeepChallenges ==
  ASSUME ChallengeInv, SortedInv', UNCHANGED <<offered, answers, challenge>>,
         onScreen' \in {0, onScreen}, OnDialogs' = OnDialogs,
         InJobs' = InJobs, InMsgs' \subseteq InMsgs
  PROVE  ChallengeInv'
<1>1. PlacesInv'
  BY DEF ChallengeInv, PlacesInv, Asked
<1>2. IdsInv'
  BY DEF ChallengeInv, IdsInv, Asked
<1>3. AnswersOwnChallenge'
  BY DEF ChallengeInv, AnswersOwnChallenge
<1> QED
  BY <1>1, <1>2, <1>3 DEF ChallengeInv

LEMMA KeepQueues ==
  ASSUME ChallengeInv,
         UNCHANGED <<idle, dialogs, toClient, offered, answers, challenge>>,
         onScreen' \in {0, onScreen}
  PROVE  ChallengeInv'
<1>1. SortedInv' /\ OnDialogs' = OnDialogs /\ InJobs' = InJobs /\ InMsgs' = InMsgs
  BY DEF ChallengeInv, SortedInv, OnDialogs, InJobs, InMsgs
<1> QED
  BY <1>1, KeepChallenges

\* A new screen keeps the challenges that wait in the main loop.
LEMMA ScreenJobs ==
  ASSUME NEW jobs \in Seq(GoodJobs), NEW s \in Screens, ShowScreen(s, jobs)
  PROVE  /\ screen' = s /\ onScreen' = 0 /\ challenge' = challenge
         /\ reload' = TRUE /\ listHere' = FALSE /\ lobbySeen' \in BOOLEAN
         /\ idle' \in Seq(GoodJobs)
         /\ InJobs' = InSeq(Nums(jobs, JobId))
         /\ Increasing(Nums(jobs, JobId)) => Increasing(Nums(idle', JobId))
<1> DEFINE left == StaleReloads(jobs)
<1>1. \A w \in {"reload", "stale"} : Job(w, 0) \in GoodJobs
  BY CallsAssumption DEF Job, GoodJobs, Jobs, ChallengeIds
<1>2. jobs \in Seq(Jobs) /\ DOMAIN jobs = 1..Len(jobs) /\ Len(jobs) \in Nat
  BY GoodTypes
<1>3. left \in Seq(GoodJobs) /\ Len(left) = Len(jobs)
  <2>1. \A i \in 1..Len(jobs) :
          (IF jobs[i].what = "reload" THEN Job("stale", 0) ELSE jobs[i]) \in GoodJobs
    BY <1>1, <1>2
  <2> QED
    BY <1>2, <2>1 DEF StaleReloads
<1>4. Nums(left, JobId) = Nums(jobs, JobId)
  <2>1. \A i \in 1..Len(jobs) : JobId[left[i]] = JobId[jobs[i]]
    <3> SUFFICES ASSUME NEW i \in 1..Len(jobs)
                 PROVE  JobId[left[i]] = JobId[jobs[i]]
      OBVIOUS
    <3>1. left[i] = IF jobs[i].what = "reload" THEN Job("stale", 0) ELSE jobs[i]
      BY DEF StaleReloads
    <3>2. jobs[i] \in Jobs /\ Job("stale", 0) \in Jobs
      BY <1>1, <1>2 DEF GoodJobs
    <3>3. JobId[Job("stale", 0)] = 0
      BY <3>2 DEF JobId, Job
    <3>4. jobs[i].what = "reload" => JobId[jobs[i]] = 0
      BY <3>2 DEF JobId
    <3> QED
      BY <3>1, <3>3, <3>4
  <2> QED
    BY <1>3, <2>1 DEF Nums
<1>5. idle' = left \/ idle' = Append(left, Job("reload", 0))
  BY DEF ShowScreen
<1> HIDE DEF left
<1>6. idle' \in Seq(GoodJobs)
  BY <1>1, <1>3, <1>5
<1>7. /\ InJobs' = InSeq(Nums(jobs, JobId))
      /\ Increasing(Nums(jobs, JobId)) => Increasing(Nums(idle', JobId))
  <2>1. CASE idle' = left
    BY <1>4, <2>1 DEF InJobs
  <2>2. CASE idle' = Append(left, Job("reload", 0))
    <3>1. left \in Seq(Jobs) /\ Job("reload", 0) \in Jobs
      BY <1>1, <1>3, GoodTypes DEF GoodJobs
    <3>2. Job("reload", 0).what # "challenge"
      BY DEF Job
    <3> QED
      BY <1>4, <2>2, <3>1, <3>2, AppendJob DEF InJobs
  <2> QED
    BY <1>5, <2>1, <2>2
<1>8. /\ screen' = s /\ onScreen' = 0 /\ challenge' = challenge
      /\ reload' = TRUE /\ listHere' = FALSE /\ lobbySeen' = (lobbySeen \/ s = "LOBBY")
  BY DEF ShowScreen
<1> QED
  BY <1>6, <1>7, <1>8

\* A job that is not a challenge, or none.
LEMMA OtherJob ==
  ASSUME DataInv, ChallengeInv, NEW what, what # "challenge", Job(what, 0) \in Jobs,
         idle' \in {idle, Append(idle, Job(what, 0))},
         UNCHANGED <<dialogs, offered, answers, challenge>>,
         onScreen' \in {0, onScreen}, InMsgs' \subseteq InMsgs,
         Increasing(Nums(toClient', MsgId))
  PROVE  idle' \in Seq(GoodJobs) /\ ChallengeInv'
<1>1. Job(what, 0).what = what /\ Job(what, 0) \in GoodJobs
  BY DEF Job, GoodJobs
<1>2. idle \in Seq(Jobs) /\ idle \in Seq(GoodJobs)
  BY GoodTypes DEF DataInv
<1>3. InJobs' = InJobs /\ Increasing(Nums(idle', JobId))
  <2>1. CASE idle' = idle
    BY <2>1 DEF InJobs, ChallengeInv, SortedInv
  <2>2. CASE idle' = Append(idle, Job(what, 0))
    BY <1>1, <1>2, <2>2, AppendJob DEF InJobs, ChallengeInv, SortedInv
  <2> QED
    BY <2>1, <2>2
<1>4. SortedInv' /\ OnDialogs' = OnDialogs
  BY <1>3 DEF ChallengeInv, SortedInv, OnDialogs
<1> QED
  BY <1>1, <1>2, <1>3, <1>4, KeepChallenges

\* The first message is taken.
LEMMA TakeAny ==
  ASSUME DataInv, ChallengeInv, toClient # <<>>, toClient' = Tail(toClient)
  PROVE  /\ toClient' \in Seq(GoodMsgs) /\ Head(toClient) \in GoodMsgs
         /\ InMsgs' \subseteq InMsgs /\ Increasing(Nums(toClient', MsgId))
<1>1. toClient \in Seq(GoodMsgs) /\ toClient \in Seq(Msgs)
  BY GoodTypes DEF DataInv
<1>2. toClient' \in Seq(GoodMsgs) /\ Head(toClient) \in GoodMsgs
  BY <1>1
<1>3. Head(toClient).type = "CHALLENGE_RECEIVED" => Head(toClient).id # 0
  BY <1>2 DEF GoodMsgs
<1> QED
  BY <1>1, <1>2, <1>3, TakeMsg DEF InMsgs, ChallengeInv, SortedInv

\* A notice opens in front of the dialogs, or none does.
LEMMA OtherDialog ==
  ASSUME DataInv, SortedInv, NEW what \in {"error", "registered"},
         dialogs' \in {dialogs, <<[what |-> what, id |-> 0]>> \o dialogs}
  PROVE  /\ dialogs' \in Seq(GoodDialogs) /\ OnDialogs' = OnDialogs
         /\ Decreasing(Nums(dialogs', DialogId))
<1> DEFINE d == [what |-> what, id |-> 0]
<1>1. d \in Dialogs /\ d \in GoodDialogs /\ d.what # "challenge"
  BY CallsAssumption DEF GoodDialogs, Dialogs, ChallengeIds
<1>2. dialogs \in Seq(GoodDialogs) /\ dialogs \in Seq(Dialogs)
  BY GoodTypes DEF DataInv
<1>3. CASE dialogs' = dialogs
  BY <1>2, <1>3 DEF OnDialogs, SortedInv
<1>4. CASE dialogs' = <<d>> \o dialogs
  <2> HIDE DEF d
  <2>1. <<d>> \o dialogs \in Seq(GoodDialogs)
    BY <1>1, <1>2
  <2> QED
    BY <1>1, <1>2, <1>4, <2>1, PushDialog DEF OnDialogs, SortedInv
<1> QED
  BY <1>3, <1>4

LEMMA SameAccepted ==
  ASSUME UNCHANGED accepted
  PROVE  GoodMsgs' = GoodMsgs
BY DEF GoodMsgs

\* A new screen with the jobs that wait, or all but the first of them.
LEMMA ScreenChallenges ==
  ASSUME ChallengeInv, NEW s \in Screens, NEW jobs \in Seq(GoodJobs),
         InSeq(Nums(jobs, JobId)) = InJobs, Increasing(Nums(jobs, JobId)),
         ShowScreen(s, jobs), UNCHANGED <<offered, answers>>,
         OnDialogs' = OnDialogs, Decreasing(Nums(dialogs', DialogId)),
         InMsgs' \subseteq InMsgs, Increasing(Nums(toClient', MsgId))
  PROVE  ChallengeInv'
<1>1. /\ InJobs' = InJobs /\ SortedInv' /\ onScreen' = 0 /\ challenge' = challenge
  BY ScreenJobs DEF SortedInv
<1> QED
  BY <1>1, KeepChallenges

LEMMA IdleAsItIs ==
  ASSUME DataInv, ChallengeInv
  PROVE  /\ idle \in Seq(GoodJobs) /\ InSeq(Nums(idle, JobId)) = InJobs
         /\ Increasing(Nums(idle, JobId))
BY DEF DataInv, ChallengeInv, SortedInv, InJobs

LEMMA IdleButFirst ==
  ASSUME DataInv, ChallengeInv, idle # <<>>, Head(idle).what # "challenge"
  PROVE  /\ Tail(idle) \in Seq(GoodJobs) /\ InSeq(Nums(Tail(idle), JobId)) = InJobs
         /\ Increasing(Nums(Tail(idle), JobId))
<1>1. idle \in Seq(GoodJobs) /\ idle \in Seq(Jobs)
  BY GoodTypes DEF DataInv
<1> QED
  BY <1>1, IdleAsItIs, TakeJob DEF InJobs

LEMMA KeptQueues ==
  ASSUME ChallengeInv, UNCHANGED <<dialogs, toClient>>
  PROVE  /\ OnDialogs' = OnDialogs /\ Decreasing(Nums(dialogs', DialogId))
         /\ InMsgs' \subseteq InMsgs /\ Increasing(Nums(toClient', MsgId))
BY DEF ChallengeInv, SortedInv, OnDialogs, InMsgs

-----------------------------------------------------------------------------
(* The steps.                                                              *)

LEMMA ConnStep ==
  ASSUME Inv, Connect \/ ServerCloses \/ ReceiveEnds
  PROVE  Inv'
<1>0. DataInv /\ ChallengeInv /\ SortedInv
  BY DEF Inv, ChallengeInv
<1>1. /\ status' \in {"CONNECTED", "ERROR_STATE"} \/ status' = status
      /\ sock' \in {"none", "up", "closed"} /\ receiving' \in BOOLEAN
      /\ listed' \in BOOLEAN
      /\ toServer' \in {toServer, <<>>}
      /\ dialogs' \in {dialogs, <<[what |-> "error", id |-> 0]>> \o dialogs}
      /\ UNCHANGED <<userId, pending, call, listHere, idle, screen, reload,
                     challenge, onScreen, lobbySeen, clicks, toClient, peer,
                     session, offered, invited, accepted, answers>>
  BY <1>0 DEF Connect, ServerCloses, ReceiveEnds, Job, srvVars, netVars, guiVars,
              DataInv, TypeOK
<1>2. /\ dialogs' \in Seq(GoodDialogs) /\ OnDialogs' = OnDialogs
      /\ Decreasing(Nums(dialogs', DialogId))
  BY <1>0, <1>1, OtherDialog
<1>3. DataInv'
  <2>1. toServer' \in Seq(GoodReqs) /\ toServer' \in Seq(Reqs)
    <3>1. <<>> \in Seq(GoodReqs) /\ toServer \in Seq(GoodReqs)
      BY <1>0 DEF DataInv
    <3> QED
      BY <1>1, <3>1, GoodTypes
  <2>2. dialogs' \in Seq(Dialogs)
    BY <1>2, GoodTypes
  <2> QED
    BY <1>0, <1>1, <1>2, <2>1, <2>2, SameAccepted DEF DataInv, TypeOK, AuthJustified
<1>4. ChallengeInv'
  <2>1. SortedInv' /\ InJobs' = InJobs /\ InMsgs' = InMsgs
    BY <1>0, <1>1, <1>2 DEF SortedInv, InJobs, InMsgs
  <2> QED
    BY <1>0, <1>1, <1>2, <2>1, KeepChallenges
<1> QED
  BY <1>3, <1>4 DEF Inv

\* What a click may change.
Requested ==
  /\ pending' \in Kinds \cup {"NONE"}
  /\ call' \in [kind : Kinds \cup {"NONE"}, user : Users \cup {Nobody}]
  /\ call'.kind = "LOGIN" => call'.user \in Users
  /\ call'.kind = "NONE" => call' = NoCall
  /\ listHere' \in BOOLEAN /\ reload' \in BOOLEAN
  /\ clicks' \in 0..MaxClicks
  /\ idle' \in {idle, Append(idle, Job("failed", 0))}
  /\ UNCHANGED <<status, userId, receiving, screen, dialogs, challenge, onScreen,
                 lobbySeen, sock, toServer, toClient, srvVars, answers>>

\* The clicks that begin a request, or fail for want of a connection.
LEMMA RequestStep ==
  ASSUME Inv,
         \/ \E kind \in {"LOGIN", "REGISTER"}, u \in Users \cup {Nobody} :
              ClickAuth(kind, u)
         \/ \E kind \in {"SEND_CHALLENGE", "LOGOUT", "SHIP_PLACEMENT"} :
              ClickRequest(kind)
         \/ ClickReload
  PROVE  Inv'
<1>0. DataInv /\ ChallengeInv /\ SortedInv /\ TypeOK
  BY DEF Inv, ChallengeInv, DataInv
<1>1. Requested
  <2>0. /\ clicks < MaxClicks => clicks + 1 \in 0..MaxClicks
        /\ {"LOGIN", "REGISTER", "SEND_CHALLENGE", "LOGOUT", "SHIP_PLACEMENT",
             "PLAYER_LIST"} \subseteq Kinds
        /\ pending \in Kinds \cup {"NONE"}
        /\ call \in [kind : Kinds \cup {"NONE"}, user : Users \cup {Nobody}]
        /\ call.kind = "LOGIN" => call.user \in Users
        /\ call.kind = "NONE" => call = NoCall
        /\ listHere \in BOOLEAN /\ reload \in BOOLEAN
    BY <1>0, CallsAssumption DEF TypeOK, DataInv, Kinds, Answered, AuthKinds
  <2>1. ASSUME NEW kind \in {"LOGIN", "REGISTER"}, NEW u \in Users \cup {Nobody},
               ClickAuth(kind, u)
        PROVE  Requested
    BY <2>0, <2>1 DEF ClickAuth, Click, SetRequest, netVars, guiVars,
                    Requested
  <2>2. ASSUME NEW kind \in {"SEND_CHALLENGE", "LOGOUT", "SHIP_PLACEMENT"},
               ClickRequest(kind)
        PROVE  Requested
    BY <2>0, <2>2 DEF ClickRequest, Click, SetRequest, netVars, guiVars,
                    Requested
  <2>3. CASE ClickReload
    <3>1. CASE IsAuthenticated
      <4>1. /\ pending' = "PLAYER_LIST"
            /\ call' = [kind |-> "PLAYER_LIST", user |-> Nobody]
            /\ listHere' = TRUE /\ reload' = FALSE /\ status' = status
            /\ userId' = userId /\ clicks < MaxClicks /\ clicks' = clicks + 1
            /\ UNCHANGED <<receiving, idle, screen, dialogs, challenge, onScreen,
                           lobbySeen, sock, toServer, toClient, srvVars, answers>>
        BY <2>3, <3>1 DEF ClickReload, Refresh, Click, SetRequest
      <4>2. call'.kind = "PLAYER_LIST" /\ call'.user = Nobody
        BY <4>1
      <4> QED
        BY <2>0, <4>1, <4>2 DEF Requested
    <3>2. CASE ~IsAuthenticated
      BY <2>0, <2>3, <3>2 DEF ClickReload, Refresh, Click, netVars, Requested
    <3> QED
      BY <3>1, <3>2
  <2> QED
    BY <2>1, <2>2, <2>3
<1>2. Job("failed", 0) \in Jobs
  BY CallsAssumption DEF Job, Jobs, ChallengeIds
<1>3. idle' \in Seq(GoodJobs) /\ ChallengeInv'
  <2>1. InMsgs' \subseteq InMsgs /\ Increasing(Nums(toClient', MsgId))
    BY <1>0, <1>1 DEF InMsgs, SortedInv, Requested
  <2>2. /\ UNCHANGED <<dialogs, offered, answers, challenge>>
        /\ onScreen' \in {0, onScreen} /\ "failed" # "challenge"
        /\ idle' \in {idle, Append(idle, Job("failed", 0))}
    BY <1>1 DEF Requested, srvVars
  <2> QED
    BY <1>0, <1>2, <2>1, <2>2, OtherJob
<1>4. DataInv'
  <2>1. idle' \in Seq(Jobs) /\ GoodMsgs' = GoodMsgs
    BY <1>1, <1>3, GoodTypes, SameAccepted DEF srvVars, Requested
  <2> QED
    BY <1>0, <1>1, <1>3, <2>1 DEF DataInv, TypeOK, AuthJustified, srvVars, Requested
<1> QED
  BY <1>3, <1>4 DEF Inv

LEMMA NavigationStep ==
  ASSUME Inv, ClickNavigation
  PROVE  Inv'
<1>0. DataInv /\ ChallengeInv /\ TypeOK
  BY DEF Inv, DataInv
<1>1. PICK way \in Navigation : ShowScreen(way[2], idle)
  BY DEF ClickNavigation
<1>2. way[2] \in Screens
  BY DEF Navigation, Screens
<1>3. /\ clicks' \in 0..MaxClicks
      /\ UNCHANGED <<status, userId, pending, call, dialogs, receiving, sock, toServer,
                     toClient, srvVars, answers>>
  BY <1>0, CallsAssumption DEF ClickNavigation, Click, TypeOK
<1>4. /\ screen' \in Screens /\ onScreen' = 0 /\ challenge' = challenge
      /\ reload' = TRUE /\ listHere' = FALSE /\ lobbySeen' \in BOOLEAN
      /\ idle' \in Seq(GoodJobs) /\ idle' \in Seq(Jobs)
  BY <1>0, <1>1, <1>2, IdleAsItIs, ScreenJobs, GoodTypes
<1>5. ChallengeInv'
  <2>1. UNCHANGED <<offered, answers>>
    BY <1>3 DEF srvVars
  <2> QED
    BY <1>0, <1>1, <1>2, <1>3, <2>1, IdleAsItIs, KeptQueues, ScreenChallenges
<1>6. DataInv'
  <2>1. 0 \in ChallengeIds /\ GoodMsgs' = GoodMsgs
    BY <1>3, SameAccepted, CallsAssumption DEF srvVars, ChallengeIds
  <2> QED
    <3>1. UNCHANGED <<peer, listed, session, offered, invited, accepted>>
      BY <1>3 DEF srvVars
    <3>2. {listHere', receiving', reload', lobbySeen', listed', session'} \subseteq BOOLEAN
      BY <1>0, <1>3, <1>4, <3>1 DEF TypeOK
    <3>3. challenge' \in ChallengeIds /\ onScreen' \in ChallengeIds
      BY <1>0, <1>4, <2>1 DEF TypeOK
    <3>4. TypeOK'
      BY <1>0, <1>3, <1>4, <3>1, <3>2, <3>3 DEF TypeOK
    <3> QED
      BY <1>0, <1>3, <1>4, <2>1, <3>1, <3>4 DEF DataInv, AuthJustified
<1> QED
  BY <1>5, <1>6 DEF Inv

LEMMA SendStep ==
  ASSUME Inv, SendRequest
  PROVE  Inv'
<1>0. DataInv /\ ChallengeInv /\ TypeOK
  BY DEF Inv, DataInv
<1> DEFINE q == Req(call.kind, call.user)
<1>1. /\ call # NoCall /\ call' = NoCall
      /\ pending' \in {pending, "NONE"} /\ reload' \in BOOLEAN
      /\ idle' \in {idle, Append(idle, Job("failed", 0))}
      /\ toServer' \in {toServer, Append(toServer, q)}
      /\ UNCHANGED <<status, userId, listHere, receiving, screen, dialogs,
                     challenge, onScreen, lobbySeen, clicks, sock, toClient,
                     srvVars, answers>>
  BY <1>0 DEF SendRequest, SendFails, SendWorks, TypeOK
<1>2. q \in GoodReqs
  <2>1. call.kind \in Kinds /\ call.user \in Users \cup {Nobody}
    BY <1>0, <1>1 DEF DataInv, TypeOK
  <2> QED
    BY <1>0, <2>1, CallsAssumption DEF DataInv, Req, Reqs, GoodReqs, ChallengeIds
<1>3. Job("failed", 0) \in Jobs
  BY CallsAssumption DEF Job, Jobs, ChallengeIds
<1>4. idle' \in Seq(GoodJobs) /\ ChallengeInv'
  <2>1. /\ UNCHANGED <<dialogs, offered, answers, challenge>>
        /\ onScreen' \in {0, onScreen} /\ "failed" # "challenge"
    BY <1>1 DEF srvVars
  <2> QED
    BY <1>0, <1>1, <1>3, <2>1, KeptQueues, OtherJob
<1>5. DataInv'
  <2>1. toServer \in Seq(GoodReqs)
    BY <1>0 DEF DataInv
  <2> HIDE DEF q
  <2>2. toServer' \in Seq(GoodReqs) /\ toServer' \in Seq(Reqs)
    BY <1>1, <1>2, <2>1, GoodTypes
  <2>3. idle' \in Seq(Jobs) /\ GoodMsgs' = GoodMsgs
    BY <1>1, <1>4, GoodTypes, SameAccepted DEF srvVars
  <2>4. /\ NoCall \in [kind : Kinds \cup {"NONE"}, user : Users \cup {Nobody}]
        /\ NoCall.kind = "NONE"
    BY DEF NoCall
  <2> QED
    BY <1>0, <1>1, <1>4, <2>2, <2>3, <2>4 DEF DataInv, TypeOK, AuthJustified, srvVars
<1> QED
  BY <1>4, <1>5 DEF Inv

\* Answers, lists and acknowledgements.
LEMMA AnswerStep ==
  ASSUME Inv, ReceiveAuth \/ ReceiveList \/ ReceiveAck
  PROVE  Inv'
<1>0. DataInv /\ ChallengeInv /\ TypeOK
  BY DEF Inv, DataInv
<1> DEFINE m == Head(toClient)
<1>1. /\ toClient # <<>> /\ toClient' = Tail(toClient)
      /\ UNCHANGED <<call, receiving, clicks, sock, toServer, srvVars, answers, dialogs>>
      /\ pending' \in {pending, "NONE"}
  BY DEF ReceiveAuth, ReceiveList, ReceiveAck, Takes, ListAnswered, guiVars
<1>2. /\ toClient' \in Seq(GoodMsgs) /\ toClient' \in Seq(Msgs) /\ m \in GoodMsgs
      /\ InMsgs' \subseteq InMsgs /\ Increasing(Nums(toClient', MsgId))
  BY <1>0, <1>1, TakeAny, GoodTypes
<1>3. OnDialogs' = OnDialogs /\ Decreasing(Nums(dialogs', DialogId))
  BY <1>0, <1>1 DEF ChallengeInv, SortedInv, OnDialogs
<1>4. UNCHANGED <<offered, answers, accepted, peer, listed, session,
                 invited>>
  BY <1>1 DEF srvVars
<1>5. CASE /\ ReceiveAuth /\ pending = "LOGOUT" /\ Succeeds(m)
           /\ status' = "CONNECTED" /\ userId' = Nobody /\ ShowScreen("LOGIN", idle)
  <2>1. "LOGIN" \in Screens
    BY DEF Screens
  <2>2. /\ screen' \in Screens /\ onScreen' = 0 /\ challenge' = challenge
        /\ reload' = TRUE /\ listHere' = FALSE /\ lobbySeen' \in BOOLEAN
        /\ idle' \in Seq(GoodJobs) /\ idle' \in Seq(Jobs)
    BY <1>0, <1>5, <2>1, IdleAsItIs, ScreenJobs, GoodTypes
  <2>3. ChallengeInv'
    BY <1>0, <1>2, <1>3, <1>4, <1>5, <2>1, IdleAsItIs, ScreenChallenges
  <2>4. 0 \in ChallengeIds /\ GoodMsgs' = GoodMsgs
    BY <1>4, SameAccepted, CallsAssumption DEF ChallengeIds
  <2>5. DataInv'
    BY <1>0, <1>1, <1>2, <1>4, <1>5, <2>2, <2>4 DEF DataInv, TypeOK, AuthJustified
  <2> QED
    BY <2>3, <2>5 DEF Inv
<1>6. ASSUME NEW what \in {"loggedIn", "registered", "failed"},
             idle' \in {idle, Append(idle, Job(what, 0))}, reload' \in BOOLEAN,
             UNCHANGED <<listHere, screen, challenge, onScreen, lobbySeen>>,
             \/ UNCHANGED <<status, userId>>
             \/ status' = "AUTHENTICATED" /\ userId' = m.user /\ m.user \in accepted
      PROVE  Inv'
  <2>1. what # "challenge" /\ Job(what, 0) \in Jobs
    BY CallsAssumption DEF Job, Jobs, ChallengeIds
  <2>2. idle' \in Seq(GoodJobs) /\ ChallengeInv'
    BY <1>0, <1>1, <1>2, <1>4, <1>6, <2>1, OtherJob
  <2>3. idle' \in Seq(Jobs) /\ GoodMsgs' = GoodMsgs
    BY <1>4, <2>2, GoodTypes, SameAccepted
  <2>4. /\ status' \in {"DISCONNECTED", "CONNECTED", "AUTHENTICATED", "ERROR_STATE"}
        /\ userId' \in Users \cup {Nobody}
        /\ status' = "AUTHENTICATED" => userId' # Nobody /\ userId' \in accepted'
    BY <1>0, <1>4, <1>6, CallsAssumption DEF DataInv, TypeOK, AuthJustified
  <2>5. DataInv'
    BY <1>0, <1>1, <1>2, <1>4, <1>6, <2>2, <2>3, <2>4
       DEF DataInv, TypeOK, AuthJustified
  <2> QED
    BY <2>2, <2>5 DEF Inv
<1>7. CASE ReceiveList \/ ReceiveAck
  <2>1. /\ UNCHANGED <<status, userId, listHere, idle, screen, challenge, onScreen,
                       lobbySeen>>
        /\ reload' \in BOOLEAN
    BY <1>0, <1>7 DEF ReceiveList, ReceiveAck, guiVars, TypeOK
  <2> QED
    BY <1>6, <2>1
<1>8. CASE ReceiveAuth
  <2>0. reload \in BOOLEAN
    BY <1>0 DEF TypeOK
  <2>1. CASE pending = "LOGIN"
    <3>1. CASE Succeeds(m)
      <4>1. m.user \in accepted
        BY <1>2, <2>1, <3>1 DEF Succeeds, GoodMsgs
      <4>2. /\ status' = "AUTHENTICATED" /\ userId' = m.user
            /\ idle' = Append(idle, Job("loggedIn", 0))
            /\ UNCHANGED <<listHere, guiVars>>
        BY <1>8, <2>1, <3>1 DEF ReceiveAuth
      <4> QED
        BY <1>6, <2>0, <4>1, <4>2 DEF guiVars
    <3>2. CASE ~Succeeds(m)
      <4>1. /\ UNCHANGED <<status, userId, listHere, guiVars>>
            /\ idle' = Append(idle, Job("failed", 0))
        BY <1>8, <2>1, <3>2 DEF ReceiveAuth
      <4> QED
        BY <1>6, <2>0, <4>1 DEF guiVars
    <3> QED
      BY <3>1, <3>2
  <2>2. CASE pending = "REGISTER"
    <3>1. /\ UNCHANGED <<status, userId, listHere, guiVars>>
          /\ \E what \in {"registered", "failed"} : idle' = Append(idle, Job(what, 0))
      BY <1>8, <2>2 DEF ReceiveAuth
    <3> QED
      BY <1>6, <2>0, <3>1 DEF guiVars
  <2>3. CASE pending \notin {"LOGIN", "REGISTER"}
    <3>1. CASE UNCHANGED <<status, userId, listHere, idle, guiVars>>
      BY <1>6, <2>0, <3>1 DEF guiVars
    <3>2. CASE ~UNCHANGED <<status, userId, listHere, idle, guiVars>>
      BY <1>5, <1>8, <2>3, <3>2 DEF ReceiveAuth
    <3> QED
      BY <3>1, <3>2
  <2> QED
    BY <2>1, <2>2, <2>3
<1> QED
  BY <1>7, <1>8

\* A match begins, or a challenge arrives: before the first lobby both are lost.
LEMMA PushStep ==
  ASSUME Inv, \/ ReceivePush("CHALLENGE_RECEIVED", "challenge")
              \/ ReceivePush("MATCH_START", "match")
  PROVE  Inv'
<1>0. DataInv /\ ChallengeInv /\ SortedInv /\ PlacesInv /\ IdsInv /\ TypeOK
  BY DEF Inv, DataInv, ChallengeInv
<1> DEFINE m == Head(toClient)
<1>1. /\ toClient # <<>> /\ toClient' = Tail(toClient)
      /\ UNCHANGED <<netVars, receiving, guiVars, clicks, sock, toServer, srvVars,
                     answers>>
  BY DEF ReceivePush, Takes
<1>2. /\ toClient' \in Seq(GoodMsgs) /\ toClient' \in Seq(Msgs) /\ m \in GoodMsgs
      /\ InMsgs' \subseteq InMsgs /\ Increasing(Nums(toClient', MsgId))
  BY <1>0, <1>1, TakeAny, GoodTypes
<1>3. UNCHANGED <<offered, answers, dialogs, challenge, onScreen, accepted>>
  BY <1>1 DEF srvVars, guiVars
<1>4. ASSUME idle' \in Seq(GoodJobs)
      PROVE  DataInv'
  <2>1. idle' \in Seq(Jobs) /\ GoodMsgs' = GoodMsgs
    BY <1>3, <1>4, GoodTypes, SameAccepted
  <2> QED
    BY <1>0, <1>1, <1>2, <1>4, <2>1
       DEF DataInv, TypeOK, AuthJustified, netVars, guiVars, srvVars
<1>5. CASE idle' \in {idle, Append(idle, Job("match", 0))}
  <2>1. Job("match", 0) \in Jobs /\ "match" # "challenge"
    BY CallsAssumption DEF Job, Jobs, ChallengeIds
  <2>2. idle' \in Seq(GoodJobs) /\ ChallengeInv'
    BY <1>0, <1>2, <1>3, <1>5, <2>1, OtherJob
  <2> QED
    BY <1>4, <2>2 DEF Inv
<1>6. CASE m.type = "CHALLENGE_RECEIVED" /\ idle' = Append(idle, Job("challenge", m.id))
  <2> DEFINE j == Job("challenge", m.id)
  <2>1. m \in Msgs /\ m.id \in ChallengeIds /\ m.id # 0
    BY <1>2, <1>6 DEF GoodMsgs, Msgs
  <2>2. j \in Jobs /\ j \in GoodJobs /\ j.what = "challenge" /\ j.id = m.id
    BY <2>1 DEF Job, Jobs, GoodJobs
  <2>3. /\ InMsgs = InMsgs' \cup {m.id} /\ \A y \in InMsgs' : m.id < y
    <3>1. toClient \in Seq(Msgs)
      BY <1>0, GoodTypes DEF DataInv
    <3> QED
      BY <1>0, <1>1, <1>6, <2>1, <3>1, TakeMsg DEF InMsgs, SortedInv
  <2> HIDE DEF m, j
  <2>4. idle \in Seq(GoodJobs) /\ idle \in Seq(Jobs) /\ idle' = Append(idle, j)
    BY <1>0, <1>6, GoodTypes DEF DataInv, m, j
  <2>5. \A y \in InJobs : y < m.id
    BY <1>0, <2>3 DEF PlacesInv
  <2>6. InJobs' = InJobs \cup {m.id} /\ Increasing(Nums(idle', JobId))
    BY <1>0, <2>1, <2>2, <2>4, <2>5, AppendJob DEF InJobs, SortedInv
  <2>7. OnDialogs' = OnDialogs /\ Asked' = Asked /\ SortedInv'
    BY <1>0, <1>2, <1>3, <2>6 DEF OnDialogs, Asked, SortedInv
  <2>8. PlacesInv'
    BY <1>0, <1>3, <2>3, <2>6, <2>7 DEF PlacesInv
  <2>9. IdsInv' /\ AnswersOwnChallenge'
    BY <1>0, <1>3, <2>7 DEF IdsInv, ChallengeInv, AnswersOwnChallenge
  <2>10. idle' \in Seq(GoodJobs)
    BY <2>2, <2>4
  <2> QED
    BY <1>4, <2>7, <2>8, <2>9, <2>10 DEF Inv, ChallengeInv
<1>7. CASE ReceivePush("MATCH_START", "match")
  <2>1. m.id = 0
    BY <1>2, <1>7 DEF ReceivePush, Takes, GoodMsgs
  <2>2. idle' \in {idle, Append(idle, Job("match", 0))}
    BY <1>7, <2>1 DEF ReceivePush
  <2> QED
    BY <1>5, <2>2
<1>8. CASE ReceivePush("CHALLENGE_RECEIVED", "challenge")
  <2>1. /\ m.type = "CHALLENGE_RECEIVED"
        /\ idle' = idle \/ idle' = Append(idle, Job("challenge", m.id))
    BY <1>8 DEF ReceivePush, Takes
  <2> QED
    BY <1>5, <1>6, <2>1
<1> QED
  BY <1>7, <1>8

\* The jobs of the main loop that are no challenge.
LEMMA IdleStep ==
  ASSUME Inv, RunIdle, ~RunChallenge
  PROVE  Inv'
<1>0. DataInv /\ ChallengeInv /\ SortedInv /\ TypeOK
  BY DEF Inv, DataInv, ChallengeInv
<1>1. UNCHANGED <<receiving, clicks, sock, toServer, toClient, srvVars, answers>>
  BY DEF RunIdle
<1>2. /\ UNCHANGED <<offered, answers, accepted>> /\ GoodMsgs' = GoodMsgs
      /\ 0 \in ChallengeIds
  BY <1>1, SameAccepted, CallsAssumption DEF srvVars, ChallengeIds
<1>3. idle # <<>> /\ Head(idle).what # "challenge"
  BY DEF RunIdle, RunScreen, RunNotice, RunReload, RunStale, Idles
<1>4. /\ Tail(idle) \in Seq(GoodJobs) /\ InSeq(Nums(Tail(idle), JobId)) = InJobs
      /\ Increasing(Nums(Tail(idle), JobId))
  BY <1>0, <1>3, IdleButFirst
<1>5. InMsgs' \subseteq InMsgs /\ Increasing(Nums(toClient', MsgId))
  BY <1>0, <1>1 DEF InMsgs, SortedInv
<1>6. CASE RunScreen
  <2>1. PICK s \in {"MAIN_MENU", "SHIP_PLACEMENT"} : ShowScreen(s, Tail(idle))
    BY <1>6 DEF RunScreen
  <2>2. s \in Screens
    BY DEF Screens
  <2>3. UNCHANGED <<status, userId, pending, call, dialogs>>
    BY <1>6 DEF RunScreen
  <2>4. /\ screen' \in Screens /\ onScreen' = 0 /\ challenge' = challenge
        /\ reload' = TRUE /\ listHere' = FALSE /\ lobbySeen' \in BOOLEAN
        /\ idle' \in Seq(GoodJobs) /\ idle' \in Seq(Jobs)
    BY <1>4, <2>1, <2>2, ScreenJobs, GoodTypes
  <2>5. ChallengeInv'
    BY <1>0, <1>1, <1>2, <1>4, <2>1, <2>2, <2>3, KeptQueues, ScreenChallenges
  <2>6. DataInv'
    <3>1. UNCHANGED <<peer, listed, session, offered, invited, accepted, receiving, clicks, sock,
                      toServer, toClient, answers>>
      BY <1>1 DEF srvVars
    <3>2. {listHere', receiving', reload', lobbySeen', listed', session'} \subseteq BOOLEAN
      BY <1>0, <2>4, <3>1 DEF TypeOK
    <3>3. challenge' \in ChallengeIds /\ onScreen' \in ChallengeIds
      BY <1>0, <1>2, <2>4 DEF TypeOK
    <3>4. TypeOK'
      BY <1>0, <2>3, <2>4, <3>1, <3>2, <3>3 DEF TypeOK
    <3> QED
      BY <1>0, <1>2, <2>3, <2>4, <3>1, <3>4 DEF DataInv, AuthJustified
  <2> QED
    BY <2>5, <2>6 DEF Inv
<1>7. CASE RunNotice \/ RunReload \/ RunStale
  <2>1. /\ idle' = Tail(idle)
        /\ UNCHANGED <<status, userId, screen, challenge, onScreen, lobbySeen>>
    BY <1>7 DEF RunNotice, RunReload, RunStale, Refresh, SetRequest, netVars, guiVars
  <2>2. /\ pending' \in Kinds \cup {"NONE"}
        /\ call' \in [kind : Kinds \cup {"NONE"}, user : Users \cup {Nobody}]
        /\ call'.kind = "LOGIN" => call'.user \in Users
        /\ call'.kind = "NONE" => call' = NoCall
        /\ listHere' \in BOOLEAN /\ reload' \in BOOLEAN
    <3>1. \/ UNCHANGED <<pending, call, listHere, reload>>
          \/ UNCHANGED <<pending, call, listHere>> /\ reload' = TRUE
          \/ /\ pending' = "PLAYER_LIST"
             /\ call' = [kind |-> "PLAYER_LIST", user |-> Nobody]
             /\ listHere' = TRUE /\ reload' = FALSE
      BY <1>7 DEF RunNotice, RunReload, RunStale, Refresh, SetRequest, netVars, guiVars
    <3>2. "PLAYER_LIST" \in Kinds /\ "PLAYER_LIST" \notin {"LOGIN", "NONE"}
      BY DEF Kinds, Answered
    <3>3. CASE /\ pending' = "PLAYER_LIST"
               /\ call' = [kind |-> "PLAYER_LIST", user |-> Nobody]
               /\ listHere' = TRUE /\ reload' = FALSE
      <4>1. call'.kind = "PLAYER_LIST"
        BY <3>3
      <4> QED
        BY <3>2, <3>3, <4>1
    <3>4. CASE UNCHANGED <<pending, call, listHere>> /\ reload' \in {TRUE, reload}
      BY <1>0, <3>4 DEF DataInv, TypeOK
    <3> QED
      BY <3>1, <3>3, <3>4
  <2>3. /\ dialogs' \in Seq(GoodDialogs) /\ OnDialogs' = OnDialogs
        /\ Decreasing(Nums(dialogs', DialogId))
    <3>1. \E what \in {"error", "registered"} :
            dialogs' \in {dialogs, <<[what |-> what, id |-> 0]>> \o dialogs}
      BY <1>7 DEF RunNotice, RunReload, RunStale, Open, guiVars
    <3> QED
      BY <1>0, <3>1, OtherDialog
  <2>4. dialogs' \in Seq(Dialogs) /\ idle' \in Seq(Jobs) /\ idle' \in Seq(GoodJobs)
    BY <1>4, <2>1, <2>3, GoodTypes
  <2>5. InJobs' = InJobs /\ SortedInv'
    BY <1>4, <1>5, <2>1, <2>3 DEF InJobs, SortedInv
  <2>6. ChallengeInv'
    BY <1>0, <1>2, <1>5, <2>1, <2>3, <2>5, KeepChallenges
  <2>7. DataInv'
    BY <1>0, <1>1, <1>2, <2>1, <2>2, <2>3, <2>4
       DEF DataInv, TypeOK, AuthJustified, srvVars
  <2> QED
    BY <2>6, <2>7 DEF Inv
<1> QED
  BY <1>6, <1>7 DEF RunIdle

\* The dialog of a challenge opens: it is the newest of those on the screen, and
\* the ids become its own.
LEMMA OpenChallengeStep ==
  ASSUME Inv, RunIdle, RunChallenge
  PROVE  Inv'
<1>0. DataInv /\ ChallengeInv /\ SortedInv /\ PlacesInv /\ IdsInv /\ TypeOK
  BY DEF Inv, DataInv, ChallengeInv
<1> DEFINE j == Head(idle)
           d == [what |-> "challenge", id |-> j.id]
<1>1. /\ idle # <<>> /\ j.what = "challenge" /\ idle' = Tail(idle)
      /\ challenge' = j.id /\ onScreen' = j.id
      /\ dialogs' = <<d>> \o dialogs
      /\ UNCHANGED <<netVars, screen, reload, lobbySeen>>
      /\ UNCHANGED <<receiving, clicks, sock, toServer, toClient, srvVars, answers>>
  BY DEF RunIdle, RunChallenge, Idles, Open
<1>2. /\ j \in GoodJobs /\ j.id \in ChallengeIds /\ j.id # 0 /\ j.id \in Nat
      /\ idle \in Seq(Jobs) /\ idle' \in Seq(GoodJobs) /\ idle' \in Seq(Jobs)
  <2>1. idle \in Seq(GoodJobs) /\ Seq(GoodJobs) \subseteq Seq(Jobs)
    BY <1>0, GoodTypes DEF DataInv
  <2>2. j \in GoodJobs /\ idle' \in Seq(GoodJobs)
    BY <1>1, <2>1
  <2>3. ChallengeIds \subseteq Nat
    BY CallsAssumption DEF ChallengeIds
  <2>4. \A x \in GoodJobs :
          x.id \in ChallengeIds /\ (x.what = "challenge" => x.id # 0)
    BY DEF GoodJobs, Jobs
  <2> QED
    BY <1>1, <2>1, <2>2, <2>3, <2>4
<1>3. d \in GoodDialogs /\ d \in Dialogs /\ d.what = "challenge" /\ d.id = j.id
  BY <1>2 DEF GoodDialogs, Dialogs
<1>4. /\ InJobs = InJobs' \cup {j.id} /\ \A y \in InJobs' : j.id < y
      /\ Increasing(Nums(idle', JobId))
  BY <1>0, <1>1, <1>2, TakeJob DEF InJobs, SortedInv
<1> HIDE DEF j, d
<1>5. \A y \in OnDialogs \cup Asked : y \in Nat /\ y < j.id
  <2>1. offered \in Nat
    BY <1>0, CallsAssumption DEF TypeOK, ChallengeIds
  <2> QED
    BY <1>0, <1>4, <2>1 DEF PlacesInv
<1>6. /\ dialogs' \in Seq(GoodDialogs) /\ dialogs' \in Seq(Dialogs)
      /\ OnDialogs' = OnDialogs \cup {j.id} /\ Decreasing(Nums(dialogs', DialogId))
  <2>1. dialogs \in Seq(GoodDialogs) /\ dialogs \in Seq(Dialogs)
    BY <1>0, GoodTypes DEF DataInv
  <2>2. dialogs' \in Seq(GoodDialogs)
    BY <1>1, <1>3, <2>1
  <2> QED
    BY <1>0, <1>1, <1>2, <1>3, <1>5, <2>1, <2>2, PushDialog, GoodTypes
       DEF OnDialogs, SortedInv
<1>7. /\ offered' = offered /\ accepted' = accepted /\ Asked' = Asked
      /\ InMsgs' = InMsgs /\ SortedInv'
  BY <1>0, <1>1, <1>4, <1>6 DEF srvVars, Asked, InMsgs, SortedInv
<1>8. PlacesInv'
  BY <1>0, <1>4, <1>5, <1>6, <1>7 DEF PlacesInv
<1>9. IdsInv'
  <2>1. \A y \in OnDialogs' : y <= j.id
    BY <1>2, <1>5, <1>6
  <2>2. \A x \in OnDialogs' : (\A y \in OnDialogs' : y <= x) => x = j.id
    BY <1>2, <1>5, <1>6
  <2> QED
    BY <1>1, <1>6, <2>1, <2>2 DEF IdsInv
<1>10. AnswersOwnChallenge'
  BY <1>0, <1>1 DEF ChallengeInv, AnswersOwnChallenge
<1>11. DataInv'
  <2>1. GoodMsgs' = GoodMsgs
    BY <1>7, SameAccepted
  <2> QED
    BY <1>0, <1>1, <1>2, <1>6, <2>1
       DEF DataInv, TypeOK, AuthJustified, netVars, srvVars
<1> QED
  BY <1>7, <1>8, <1>9, <1>10, <1>11 DEF Inv, ChallengeInv

\* A notice is closed; the one of a registration leads to the login screen.
LEMMA CloseNoticeStep ==
  ASSUME Inv, CloseNotice
  PROVE  Inv'
<1>0. DataInv /\ ChallengeInv /\ SortedInv /\ TypeOK
  BY DEF Inv, DataInv, ChallengeInv
<1>1. /\ dialogs # <<>> /\ dialogs' = Tail(dialogs)
      /\ Head(dialogs).what # "challenge"
      /\ UNCHANGED <<status, userId, pending, call, receiving, clicks, sock,
                     toServer, toClient, srvVars, answers>>
  BY DEF CloseNotice
<1>2. /\ dialogs' \in Seq(GoodDialogs) /\ dialogs' \in Seq(Dialogs)
      /\ OnDialogs' = OnDialogs /\ Decreasing(Nums(dialogs', DialogId))
  <2>1. dialogs \in Seq(GoodDialogs) /\ dialogs \in Seq(Dialogs)
    BY <1>0, GoodTypes DEF DataInv
  <2>2. dialogs' \in Seq(GoodDialogs)
    BY <1>1, <2>1
  <2> QED
    BY <1>0, <1>1, <2>1, <2>2, TakeDialog, GoodTypes DEF OnDialogs, SortedInv
<1>3. InMsgs' \subseteq InMsgs /\ Increasing(Nums(toClient', MsgId))
  BY <1>0, <1>1 DEF InMsgs, SortedInv
<1>4. /\ UNCHANGED <<offered, answers, accepted>> /\ GoodMsgs' = GoodMsgs
      /\ 0 \in ChallengeIds
  BY <1>1, SameAccepted, CallsAssumption DEF srvVars, ChallengeIds
<1>5. /\ screen' \in Screens /\ onScreen' \in {0, onScreen} /\ challenge' = challenge
      /\ reload' \in BOOLEAN /\ listHere' \in BOOLEAN /\ lobbySeen' \in BOOLEAN
      /\ idle' \in Seq(GoodJobs) /\ idle' \in Seq(Jobs) /\ ChallengeInv'
  <2>1. CASE UNCHANGED <<listHere, idle, screen, reload, challenge, onScreen, lobbySeen>>
    <3>1. InJobs' = InJobs /\ SortedInv'
      BY <1>0, <1>2, <1>3, <2>1 DEF InJobs, SortedInv
    <3>2. ChallengeInv'
      BY <1>0, <1>2, <1>3, <1>4, <2>1, <3>1, KeepChallenges
    <3> QED
      BY <1>0, <2>1, <3>2 DEF DataInv, TypeOK
  <2>2. CASE ShowScreen("LOGIN", idle)
    <3>1. "LOGIN" \in Screens
      BY DEF Screens
    <3>2. ChallengeInv'
      BY <1>0, <1>2, <1>3, <1>4, <2>2, <3>1, IdleAsItIs, ScreenChallenges
    <3> QED
      BY <1>0, <2>2, <3>1, <3>2, IdleAsItIs, ScreenJobs, GoodTypes
  <2> QED
    BY <2>1, <2>2 DEF CloseNotice
<1>6. DataInv'
  BY <1>0, <1>1, <1>2, <1>4, <1>5 DEF DataInv, TypeOK, AuthJustified, srvVars
<1> QED
  BY <1>5, <1>6 DEF Inv

\* The dialog of a challenge is closed: the ids are its own, or there are none
\* left to send.
LEMMA CloseChallengeStep ==
  ASSUME Inv, NEW yes \in BOOLEAN, CloseChallenge(yes)
  PROVE  Inv'
<1>0. DataInv /\ ChallengeInv /\ SortedInv /\ PlacesInv /\ IdsInv /\ TypeOK
      /\ AnswersOwnChallenge
  BY DEF Inv, DataInv, ChallengeInv
<1> DEFINE d == Head(dialogs)
           sent == IdToSend # 0 /\ IsAuthenticated
           a == [asked |-> d.id, id |-> IF sent THEN IdToSend ELSE 0]
<1>1. /\ dialogs # <<>> /\ d.what = "challenge" /\ dialogs' = Tail(dialogs)
      /\ answers' = answers \cup {a}
      /\ toServer' \in {toServer, Append(toServer, Response(IdToSend, yes))}
      /\ IF IdToSend # 0 THEN ClearIds ELSE UNCHANGED <<challenge, onScreen>>
      /\ UNCHANGED <<netVars, receiving, idle, screen, reload, lobbySeen, clicks,
                     sock, toClient, srvVars>>
  BY DEF CloseChallenge
<1>2. /\ d.id \in ChallengeIds /\ d.id # 0 /\ d.id \in Nat
      /\ dialogs \in Seq(Dialogs)
      /\ dialogs' \in Seq(GoodDialogs) /\ dialogs' \in Seq(Dialogs)
  <2>1. dialogs \in Seq(GoodDialogs) /\ Seq(GoodDialogs) \subseteq Seq(Dialogs)
    BY <1>0, GoodTypes DEF DataInv
  <2>2. d \in GoodDialogs /\ dialogs' \in Seq(GoodDialogs)
    BY <1>1, <2>1
  <2>3. ChallengeIds \subseteq Nat
    BY CallsAssumption DEF ChallengeIds
  <2>4. \A x \in GoodDialogs :
          x.id \in ChallengeIds /\ (x.what = "challenge" => x.id # 0)
    BY DEF GoodDialogs, Dialogs
  <2> QED
    BY <1>1, <2>1, <2>2, <2>3, <2>4
<1>3. /\ OnDialogs = OnDialogs' \cup {d.id} /\ \A y \in OnDialogs' : d.id > y
      /\ Decreasing(Nums(dialogs', DialogId))
  BY <1>0, <1>1, <1>2, TakeDialog DEF OnDialogs, SortedInv
<1> HIDE DEF d
<1>4. challenge \in {0, d.id} /\ IdToSend \in {0, d.id}
  <2>0. challenge \in ChallengeIds /\ onScreen \in ChallengeIds
    BY <1>0 DEF TypeOK
  <2>1. ASSUME challenge # 0
        PROVE  challenge = d.id
    <3>1. challenge \in OnDialogs /\ d.id <= challenge
      BY <1>0, <1>3, <2>1 DEF IdsInv
    <3>2. challenge \in OnDialogs' => d.id > challenge
      BY <1>3
    <3> QED
      BY <1>2, <1>3, <2>0, <3>1, <3>2, CallsAssumption DEF ChallengeIds
  <2> QED
    BY <1>0, <2>1 DEF IdsInv, IdToSend
<1>5. challenge' = 0 /\ onScreen' = 0
  BY <1>0, <1>1 DEF ClearIds, IdToSend, IdsInv
<1>6. a.asked = d.id /\ a.id \in {0, d.id}
  BY <1>4
<1> HIDE DEF a
<1>7. Asked' = Asked \cup {d.id} /\ d.id \notin Asked
  <2>1. Asked' = Asked \cup {d.id}
    BY <1>1, <1>6 DEF Asked
  <2>2. d.id \notin Asked
    BY <1>0, <1>3 DEF PlacesInv
  <2> QED
    BY <2>1, <2>2
<1>8. AnswersOwnChallenge'
  <2>1. \A b \in answers : b.asked # d.id
    BY <1>7 DEF Asked
  <2> QED
    BY <1>0, <1>1, <1>6, <2>1 DEF AnswersOwnChallenge
<1>9. /\ offered' = offered /\ accepted' = accepted
      /\ InMsgs' = InMsgs /\ InJobs' = InJobs /\ SortedInv'
  BY <1>0, <1>1, <1>3 DEF srvVars, InMsgs, InJobs, SortedInv
<1>10. PlacesInv'
  <2>1. \A y \in OnDialogs' : y \in OnDialogs /\ y # d.id
    BY <1>2, <1>3
  <2>2. d.id \in OnDialogs
    BY <1>3
  <2> QED
    BY <1>0, <1>7, <1>9, <2>1, <2>2 DEF PlacesInv
<1>11. IdsInv'
  <2>1. d.id \in Asked' /\ \A y \in OnDialogs' : ~(d.id < y)
    BY <1>0, <1>2, <1>3, <1>7 DEF PlacesInv
  <2> QED
    BY <1>5, <2>1 DEF IdsInv
<1>12. DataInv'
  <2>1. toServer' \in Seq(GoodReqs) /\ toServer' \in Seq(Reqs)
    <3>1. IdToSend \in ChallengeIds
      BY <1>2, <1>4, CallsAssumption DEF ChallengeIds
    <3>2. Response(IdToSend, yes) \in GoodReqs
      BY <3>1 DEF Response, GoodReqs, Reqs
    <3>3. toServer \in Seq(GoodReqs)
      BY <1>0 DEF DataInv
    <3>4. Append(toServer, Response(IdToSend, yes)) \in Seq(GoodReqs)
      BY <3>2, <3>3
    <3>5. toServer' \in Seq(GoodReqs)
      BY <1>1, <3>3, <3>4
    <3> QED
      BY <3>5, GoodTypes
  <2>2. a \in [asked : ChallengeIds, id : ChallengeIds]
    BY <1>2, <1>4, CallsAssumption DEF a, ChallengeIds
  <2>3. GoodMsgs' = GoodMsgs /\ 0 \in ChallengeIds
    BY <1>9, SameAccepted, CallsAssumption DEF ChallengeIds
  <2> QED
    BY <1>0, <1>1, <1>2, <1>5, <2>1, <2>2, <2>3
       DEF DataInv, TypeOK, AuthJustified, netVars, srvVars
<1> QED
  BY <1>8, <1>9, <1>10, <1>11, <1>12 DEF Inv, ChallengeInv

\* What the server answers, if it is no challenge.
LEMMA OtherMessage ==
  ASSUME Inv, accepted \subseteq accepted', NEW x, x \in GoodMsgs',
         x.type # "CHALLENGE_RECEIVED", toClient' \in {toClient, toClient \o <<x>>},
         UNCHANGED <<idle, dialogs, offered, answers, challenge, onScreen>>
  PROVE  /\ toClient' \in Seq(GoodMsgs') /\ toClient' \in Seq(Msgs)
         /\ ChallengeInv'
<1>0. DataInv /\ ChallengeInv /\ SortedInv
  BY DEF Inv, ChallengeInv
<1>1. x \in Msgs /\ GoodMsgs' \subseteq Msgs
  BY DEF GoodMsgs
<1>2. GoodMsgs \subseteq GoodMsgs'
  BY DEF GoodMsgs
<1>3. toClient \in Seq(GoodMsgs') /\ toClient \in Seq(Msgs)
  <2>1. toClient \in Seq(GoodMsgs)
    BY <1>0 DEF DataInv
  <2> QED
    BY <1>2, <2>1, GoodTypes, SeqOfMore
<1>4. toClient' = toClient \/ toClient' = Append(toClient, x)
  <2>1. toClient \o <<x>> = Append(toClient, x)
    BY <1>1, <1>3
  <2> QED
    BY <2>1
<1>5. toClient' \in Seq(GoodMsgs') /\ toClient' \in Seq(Msgs)
  <2>1. Append(toClient, x) \in Seq(GoodMsgs')
    BY <1>3
  <2>2. Append(toClient, x) \in Seq(Msgs)
    BY <1>1, <1>3
  <2> QED
    BY <1>3, <1>4, <2>1, <2>2
<1>6. InMsgs' = InMsgs /\ Increasing(Nums(toClient', MsgId))
  <2>1. CASE toClient' = toClient
    BY <1>0, <2>1 DEF InMsgs, SortedInv
  <2>2. CASE toClient' = Append(toClient, x)
    BY <1>0, <1>1, <1>3, <2>2, AppendMsg DEF InMsgs, SortedInv
  <2> QED
    BY <1>4, <2>1, <2>2
<1>7. InJobs' = InJobs /\ OnDialogs' = OnDialogs /\ SortedInv'
  BY <1>0, <1>6 DEF InJobs, OnDialogs, SortedInv
<1>8. ChallengeInv'
  BY <1>0, <1>6, <1>7, KeepChallenges
<1> QED
  BY <1>5, <1>8

LEMMA ServeStep ==
  ASSUME Inv, Serve
  PROVE  Inv'
<1>0. DataInv /\ TypeOK
  BY DEF Inv, DataInv
<1> DEFINE q == Head(toServer)
<1>1. /\ toServer # <<>> /\ toServer' = Tail(toServer)
      /\ ServeAuth(q) \/ ServeGame(q)
      /\ UNCHANGED <<netVars, receiving, idle, guiVars, clicks, sock, answers>>
  BY DEF Serve
<1>2. toServer' \in Seq(GoodReqs) /\ toServer' \in Seq(Reqs) /\ q \in GoodReqs
  <2>1. toServer \in Seq(GoodReqs)
    BY <1>0 DEF DataInv
  <2> QED
    BY <1>1, <2>1, GoodTypes
<1>3. UNCHANGED <<status, userId, pending, call, listHere, screen, reload, lobbySeen,
                  idle, dialogs, answers, challenge, onScreen>>
  BY <1>1 DEF netVars, guiVars
<1> HIDE DEF q
<1>4. /\ offered' = offered /\ accepted \subseteq accepted' /\ accepted' \subseteq Users
      /\ peer' \in Users \cup {Nobody} /\ {listed', session'} \subseteq BOOLEAN
      /\ invited' \in Nat
  <2>1. q.kind = "LOGIN" => q.user \in Users
    BY <1>2 DEF GoodReqs
  <2>2. CASE ServeAuth(q)
    BY <1>0, <2>1, <2>2 DEF ServeAuth, srvVars, TypeOK
  <2>3. CASE ServeGame(q)
    BY <1>0, <2>3 DEF ServeGame, ServePlacement, srvVars, TypeOK
  <2> QED
    BY <1>1, <2>2, <2>3
<1> DEFINE Harmless ==
             \E x \in GoodMsgs' : /\ x.type # "CHALLENGE_RECEIVED"
                                 /\ toClient' \in {toClient, toClient \o <<x>>}
<1>5. Harmless
  <2>0. 0 \in ChallengeIds
    BY CallsAssumption DEF ChallengeIds
  <2>1. ASSUME NEW kind \in {"REGISTER", "LOGIN", "LOGOUT"}, NEW ok \in BOOLEAN,
               NEW u \in Users \cup {Nobody}, kind = "LOGIN" /\ ok => u \in accepted',
               toClient' = toClient \o <<Auth(kind, ok, u)>>
        PROVE  Harmless
    <3>1. /\ Auth(kind, ok, u) \in GoodMsgs'
          /\ Auth(kind, ok, u).type # "CHALLENGE_RECEIVED"
      BY <2>0, <2>1 DEF Auth, GoodMsgs, Msgs, AuthKinds
    <3> QED
      BY <2>1, <3>1
  <2>2. ASSUME NEW type \in {"PLAYER_LIST", "SHIP_PLACEMENT", "MATCH_START"},
               toClient' \in {toClient, toClient \o <<Msg(type, 0)>>}
        PROVE  Harmless
    <3>1. /\ Msg(type, 0) \in GoodMsgs' /\ Msg(type, 0).type # "CHALLENGE_RECEIVED"
      BY <2>0 DEF Msg, GoodMsgs, Msgs, AuthKinds
    <3> QED
      BY <2>2, <3>1
  <2> HIDE DEF Harmless
  <2>3. CASE ServeAuth(q)
    <3>1. CASE q.kind = "REGISTER"
      BY <2>1, <2>3, <3>1 DEF ServeAuth, Answer
    <3>2. CASE q.kind = "LOGIN"
      <4>1. q.user \in Users
        BY <1>2, <3>2 DEF GoodReqs
      <4>2. \/ toClient' = toClient \o <<Auth("LOGIN", FALSE, Nobody)>>
            \/ /\ toClient' = toClient \o <<Auth("LOGIN", TRUE, q.user)>>
               /\ q.user \in accepted'
        BY <2>3, <3>2 DEF ServeAuth, Answer
      <4> QED
        BY <2>1, <4>1, <4>2
    <3>3. CASE q.kind = "LOGOUT"
      BY <2>1, <2>3, <3>3 DEF ServeAuth, Answer
    <3> QED
      BY <2>3, <3>1, <3>2, <3>3 DEF ServeAuth
  <2>4. CASE ServeGame(q)
    <3>1. \E type \in {"PLAYER_LIST", "SHIP_PLACEMENT", "MATCH_START"} :
            toClient' \in {toClient, toClient \o <<Msg(type, 0)>>}
      <4>1. toClient \o <<>> = toClient
        BY <1>0 DEF TypeOK
      <4> QED
        BY <2>4, <4>1 DEF ServeGame, ServePlacement, Answer
    <3> QED
      BY <2>2, <3>1
  <2> QED
    BY <1>1, <2>3, <2>4
<1>6. /\ toClient' \in Seq(GoodMsgs') /\ toClient' \in Seq(Msgs)
      /\ ChallengeInv'
  BY <1>3, <1>4, <1>5, OtherMessage
<1>7. DataInv'
  BY <1>0, <1>1, <1>2, <1>3, <1>4, <1>6 DEF DataInv, TypeOK, AuthJustified
<1> QED
  BY <1>6, <1>7 DEF Inv

\* Somebody challenges this player: the new challenge is the last of all.
LEMMA OffersStep ==
  ASSUME Inv, ServerOffers
  PROVE  Inv'
<1>0. DataInv /\ ChallengeInv /\ SortedInv /\ PlacesInv /\ IdsInv /\ TypeOK
  BY DEF Inv, DataInv, ChallengeInv
<1>1. /\ UNCHANGED <<netVars, receiving, idle, guiVars, clicks, sock, toServer,
                     peer, listed, session, accepted, answers>>
      /\ UNCHANGED <<dialogs, challenge, onScreen>>
  BY DEF ServerOffers, guiVars
<1>2. 0 \in ChallengeIds /\ offered \in Nat /\ invited \in Nat /\ GoodMsgs' = GoodMsgs
  BY <1>0, <1>1, SameAccepted, CallsAssumption DEF ChallengeIds, TypeOK
<1>3. ASSUME offered' \in ChallengeIds, invited' \in Nat,
             toClient' \in Seq(GoodMsgs'), toClient' \in Seq(Msgs)
      PROVE  DataInv'
  BY <1>0, <1>1, <1>3 DEF DataInv, TypeOK, AuthJustified, netVars, guiVars
<1>4. CASE /\ listed /\ offered < MaxChallenge
           /\ offered' = offered + 1
           /\ toClient' = toClient \o <<Msg("CHALLENGE_RECEIVED", offered + 1)>>
           /\ UNCHANGED invited
  <2> DEFINE x == Msg("CHALLENGE_RECEIVED", offered + 1)
  <2>1. offered' \in ChallengeIds /\ offered + 1 \in Nat /\ offered + 1 # 0
    BY <1>2, <1>4, CallsAssumption DEF ChallengeIds
  <2>2. /\ x \in GoodMsgs /\ x \in Msgs
        /\ x.type = "CHALLENGE_RECEIVED" /\ x.id = offered + 1
    BY <1>4, <2>1 DEF Msg, GoodMsgs, Msgs
  <2> HIDE DEF x
  <2>3. toClient \in Seq(GoodMsgs) /\ toClient \in Seq(Msgs)
    BY <1>0, GoodTypes DEF DataInv
  <2>4. toClient' = Append(toClient, x)
    <3>1. toClient \o <<x>> = Append(toClient, x)
      BY <2>2, <2>3
    <3> QED
      BY <1>4, <3>1 DEF x
  <2>5. toClient' \in Seq(GoodMsgs') /\ toClient' \in Seq(Msgs)
    BY <1>2, <2>2, <2>3, <2>4, GoodTypes
  <2>6. \A y \in Asked \cup OnDialogs \cup InJobs \cup InMsgs :
          y \in Nat /\ y < offered + 1
    BY <1>0, <1>2 DEF PlacesInv
  <2>7. InMsgs' = InMsgs \cup {offered + 1} /\ Increasing(Nums(toClient', MsgId))
    BY <1>0, <2>1, <2>2, <2>3, <2>4, <2>6, AppendMsg DEF InMsgs, SortedInv
  <2>8. /\ InJobs' = InJobs /\ OnDialogs' = OnDialogs /\ Asked' = Asked /\ SortedInv'
    BY <1>0, <1>1, <2>7 DEF InJobs, OnDialogs, Asked, SortedInv
  <2>9. PlacesInv'
    <3>1. offered' = offered + 1 /\ 1..offered \subseteq 1..offered + 1
          /\ offered + 1 \in 1..offered + 1
      BY <1>2, <1>4
    <3> QED
      BY <1>0, <2>6, <2>7, <2>8, <3>1 DEF PlacesInv
  <2>10. IdsInv' /\ AnswersOwnChallenge'
    BY <1>0, <1>1, <2>8 DEF IdsInv, ChallengeInv, AnswersOwnChallenge
  <2>11. DataInv'
    BY <1>2, <1>3, <1>4, <2>1, <2>5
  <2> QED
    BY <2>8, <2>9, <2>10, <2>11 DEF Inv, ChallengeInv
<1>5. CASE /\ invited > 0 /\ invited' = invited - 1 /\ UNCHANGED offered
           /\ toClient' \in {toClient, toClient \o <<Msg("MATCH_START", 0)>>}
  <2>1. Msg("MATCH_START", 0) \in GoodMsgs' /\ Msg("MATCH_START", 0).type = "MATCH_START"
    BY <1>2 DEF Msg, GoodMsgs, Msgs
  <2>2. /\ toClient' \in Seq(GoodMsgs') /\ toClient' \in Seq(Msgs)
        /\ ChallengeInv'
    BY <1>1, <1>5, <2>1, OtherMessage
  <2>3. offered' \in ChallengeIds /\ invited' \in Nat
    BY <1>0, <1>2, <1>5 DEF TypeOK
  <2> QED
    BY <1>3, <2>2, <2>3 DEF Inv
<1>6. toClient \o <<>> = toClient
  BY <1>0 DEF TypeOK
<1> QED
  BY <1>4, <1>5, <1>6 DEF ServerOffers, Answer

-----------------------------------------------------------------------------
(* The invariant and the theorems.                                         *)

LEMMA InvInit == Init => Inv
<1> SUFFICES ASSUME Init
             PROVE  Inv
  OBVIOUS
<1>1. /\ dialogs \in Seq(GoodDialogs) /\ dialogs \in Seq(Dialogs)
      /\ idle \in Seq(GoodJobs) /\ idle \in Seq(Jobs)
      /\ toServer \in Seq(GoodReqs) /\ toServer \in Seq(Reqs)
      /\ toClient \in Seq(GoodMsgs) /\ toClient \in Seq(Msgs)
  BY DEF Init
<1>2. 0 \in ChallengeIds /\ 0 \in 0..MaxClicks /\ offered = 0 /\ challenge = 0
      /\ onScreen = 0 /\ answers = {}
  BY CallsAssumption DEF Init, ChallengeIds
<1>3. DataInv
  <2>1. call = NoCall /\ call.kind = "NONE" /\ call.user = Nobody
    BY DEF Init, NoCall
  <2>2. call \in [kind : Kinds \cup {"NONE"}, user : Users \cup {Nobody}]
    BY DEF Init, NoCall
  <2> QED
    BY <1>1, <1>2, <2>1, <2>2 DEF Init, DataInv, TypeOK, AuthJustified, Screens
<1>4. \A f : DOMAIN Nums(<<>>, f) = {} /\ InSeq(Nums(<<>>, f)) = {}
  BY DEF Nums, InSeq
<1>5. OnDialogs = {} /\ InJobs = {} /\ InMsgs = {} /\ Asked = {}
  BY <1>2, <1>4 DEF Init, OnDialogs, InJobs, InMsgs, Asked
<1>6. SortedInv
  BY <1>4 DEF Init, SortedInv, Increasing, Decreasing
<1> QED
  BY <1>2, <1>3, <1>5, <1>6
     DEF Inv, ChallengeInv, PlacesInv, IdsInv, AnswersOwnChallenge

LEMMA InvNext == Inv /\ [Next]_vars => Inv'
<1> SUFFICES ASSUME Inv, [Next]_vars
             PROVE  Inv'
  OBVIOUS
<1>1. CASE Connect \/ ServerCloses \/ ReceiveEnds
  BY <1>1, ConnStep
<1>2. CASE Clicks
  BY <1>2, RequestStep, NavigationStep DEF Clicks
<1>3. CASE SendRequest
  BY <1>3, SendStep
<1>4. CASE Receive
  BY <1>4, AnswerStep, PushStep DEF Receive
<1>5. CASE RunIdle
  BY <1>5, IdleStep, OpenChallengeStep
<1>6. CASE CloseNotice
  BY <1>6, CloseNoticeStep
<1>7. ASSUME NEW yes \in BOOLEAN, CloseChallenge(yes)
      PROVE  Inv'
  BY <1>7, CloseChallengeStep
<1>8. CASE Serve
  BY <1>8, ServeStep
<1>9. CASE ServerOffers
  BY <1>9, OffersStep
<1>10. CASE SessionExpires \/ UNCHANGED vars
  <2>1. /\ UNCHANGED <<status, userId, pending, call, listHere, screen, reload, dialogs,
                       challenge, onScreen, lobbySeen, peer, listed, offered>>
        /\ UNCHANGED <<invited, accepted, receiving, idle, clicks, sock, toServer,
                       toClient, answers>>
    BY <1>10 DEF SessionExpires, vars, netVars, guiVars, srvVars
  <2>2. session' \in {session, FALSE}
    BY <1>10 DEF SessionExpires, vars, srvVars
  <2>3. DataInv'
    <3>1. {listHere', receiving', reload', lobbySeen', listed', session'} \subseteq BOOLEAN
      BY <2>1, <2>2 DEF Inv, DataInv, TypeOK
    <3>2. TypeOK'
      BY <2>1, <3>1 DEF Inv, DataInv, TypeOK
    <3> QED
      BY <2>1, <3>2, SameAccepted DEF Inv, DataInv, AuthJustified
  <2>4. ChallengeInv'
    BY <2>1, KeepQueues DEF Inv
  <2> QED
    BY <2>3, <2>4 DEF Inv
<1> QED
  BY <1>1, <1>2, <1>3, <1>4, <1>5, <1>6, <1>7, <1>8, <1>9, <1>10 DEF Next

\* The newest dialog without a later answer still has its ids.
LEMMA InvMeans == Inv => LatestAnswerable
<1> SUFFICES ASSUME Inv,
                    NEW i \in 1..Len(dialogs), dialogs[i].what = "challenge",
                    \A k \in 1..Len(dialogs) : dialogs[k].id <= dialogs[i].id,
                    \A a \in answers : a.asked < dialogs[i].id
             PROVE  IdToSend = dialogs[i].id
  BY DEF LatestAnswerable
<1> DEFINE n == Nums(dialogs, DialogId)
<1>1. dialogs \in Seq(GoodDialogs) /\ IdsInv
  BY DEF Inv, DataInv, ChallengeInv
<1>2. /\ DOMAIN n = 1..Len(dialogs)
      /\ \A k \in 1..Len(dialogs) : n[k] \in {0, dialogs[k].id}
      /\ n[i] = dialogs[i].id /\ n[i] # 0
  <2>1. \A k \in 1..Len(dialogs) : dialogs[k] \in GoodDialogs
    BY <1>1
  <2>2. \A d \in GoodDialogs :
          /\ DialogId[d] \in {0, d.id}
          /\ d.what = "challenge" => DialogId[d] = d.id /\ d.id # 0
    BY DEF GoodDialogs, DialogId
  <2> QED
    BY <2>1, <2>2 DEF Nums
<1>3. dialogs[i].id \in OnDialogs
  BY <1>2 DEF OnDialogs, InSeq
<1>4. \A y \in OnDialogs : y <= dialogs[i].id
  BY <1>2 DEF OnDialogs, InSeq
<1>5. \A y \in Asked : y < dialogs[i].id
  BY DEF Asked
<1>6. challenge = dialogs[i].id
  BY <1>1, <1>3, <1>4, <1>5 DEF IdsInv
<1> QED
  BY <1>1, <1>6 DEF IdsInv, IdToSend

LEMMA InvAlways == Spec => []Inv
BY InvInit, InvNext, PTL DEF Spec

\* Requests, messages, jobs and dialogs are what the code can make, and a client
\* that is logged in has a user.
THEOREM TypeCorrect == Spec => []TypeOK
<1>1. Inv => TypeOK
  BY DEF Inv, DataInv
<1> QED
  BY <1>1, InvAlways, PTL

\* The client is logged in only as a user whose login the server has accepted,
\* although one slot serves the answers of all kinds of requests.
THEOREM AuthAlwaysJustified == Spec => []AuthJustified
<1>1. Inv => AuthJustified
  BY DEF Inv, DataInv
<1> QED
  BY <1>1, InvAlways, PTL

\* However many challenges overlap, an answer is one to the challenge of its
\* dialog, and no challenge is answered twice.
THEOREM AnswersGoHome == Spec => []AnswersOwnChallenge
<1>1. Inv => AnswersOwnChallenge
  BY DEF Inv, ChallengeInv
<1> QED
  BY <1>1, InvAlways, PTL

\* The dialog of the newest challenge can answer it, whatever screens have been
\* shown since it opened.
THEOREM LatestIsAnswerable == Spec => []LatestAnswerable
BY InvMeans, InvAlways, PTL
=============================================================================
