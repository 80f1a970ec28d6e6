--------------------------- MODULE LogMonitor_proofs ---------------------------
(***************************************************************************)
(* Proofs about LogMonitor, for any number of clients and lines and any    *)
(* capacity of the channels.                                               *)
(***************************************************************************)
EXTENDS LogMonitor, FiniteSetTheorems, SequenceTheorems, TLAPS

Offering == {"push", "pop", "repush", "error"}

\* The writer has a target exactly while it is inside OnChanged, and has made
\* room before it pushes again.
WriterInv ==
    /\ wpc \in Offering <=> target # Nobody
    /\ wpc = "repush" => Len(ch[target]) < Capacity
    /\ wpc # "error"

\* The line being broadcast has not reached c.
Fresh(c) == data[c] < written /\ \A i \in DOMAIN ch[c] : ch[c][i] < written

FreshInv ==
    /\ wpc = "lock" => \A c \in Clients : Fresh(c)
    /\ \A c \in todo : Fresh(c)
    /\ \A c \in Clients : c = target => Fresh(c)

PastInv ==
    \A c \in Clients : /\ data[c] <= written
                       /\ due[c] <= written
                       /\ pc[c] \in {"hello", "add"} => due[c] = 0 /\ c \notin listeners

TodoInv == target \notin todo /\ (wpc \in {"idle", "lock"} => todo = {})

IInv == TypeOK /\ WriterInv /\ FreshInv /\ PastInv /\ TodoInv /\ InOrder /\ NewestKept
-------------------------------------------------------------------------------
\* A channel as a function of positions, and what a push and a pop do to it.
LEMMA Channel ==
    ASSUME NEW s \in Seq(Lines)
    PROVE  /\ Len(s) \in Nat
           /\ DOMAIN s = 1..Len(s)
           /\ \A i \in 1..Len(s) : s[i] \in Lines
           /\ s = <<>> <=> Len(s) = 0
BY LenProperties, EmptySeq, ElementOfSeq

LEMMA Pushed ==
    ASSUME NEW s \in Seq(Lines), NEW n \in Lines
    PROVE  /\ Append(s, n) \in Seq(Lines)
           /\ Len(Append(s, n)) = Len(s) + 1
           /\ Append(s, n) # <<>>
           /\ \A i \in 1..Len(s) : Append(s, n)[i] = s[i]
           /\ Append(s, n)[Len(s) + 1] = n
BY AppendProperties

LEMMA Popped ==
    ASSUME NEW s \in Seq(Lines), s # <<>>
    PROVE  /\ Tail(s) \in Seq(Lines)
           /\ Len(Tail(s)) = Len(s) - 1
           /\ \A i \in 1..Len(s) - 1 : Tail(s)[i] = s[i + 1]
           /\ Head(s) = s[1]
           /\ Head(s) \in Lines
BY HeadTailProperties

\* The initial state.
LEMMA InitInv == Init => IInv
<1> SUFFICES ASSUME Init
             PROVE  IInv
  OBVIOUS
<1>1. <<>> \in Seq(Lines) /\ Len(<<>>) = 0 /\ DOMAIN <<>> = {}
  BY EmptySeq
<1>2. TypeOK
  BY <1>1, ConstantsAssumption DEF Init, TypeOK, WriterSteps, AttachSteps
<1>3. WriterInv /\ TodoInv /\ PastInv /\ NewestKept
  BY ConstantsAssumption DEF Init, WriterInv, Offering, TodoInv, PastInv, NewestKept
<1>4. FreshInv /\ InOrder
  BY <1>1, ConstantsAssumption DEF Init, FreshInv, InOrder
<1> QED
  BY <1>2, <1>3, <1>4 DEF IInv

\* Steps that touch neither a channel nor what a client took from it, and write
\* no line, keep what is said of each client's lines.
LEMMA QuietLines ==
    ASSUME IInv, UNCHANGED <<written, ch, data>>,
           \A c \in Clients : \/ sent'[c] = sent[c] /\ (pc'[c] = "send" => pc[c] = "send")
                              \/ sent'[c] = data[c] /\ pc'[c] # "send"
    PROVE  InOrder'
<1> SUFFICES ASSUME NEW c \in Clients
             PROVE  /\ sent'[c] <= data[c]
                    /\ pc'[c] = "send" => sent'[c] < data[c]
  BY DEF IInv, InOrder
<1>1. data[c] \in Nat
  BY DEF IInv, TypeOK
<1> QED
  BY <1>1 DEF IInv, InOrder

\* The writer between two channels: a line is written, the listeners are
\* taken, one is visited, all have been.
LEMMA WriterMoves ==
    ASSUME IInv, WriteStdout \/ Lock \/ (\E c \in Clients : Visit(c)) \/ Unlock
    PROVE  IInv'
<1> USE DEF IInv
<1>1. ASSUME WriteStdout
      PROVE  IInv'
  <2>1. written' \in Lines /\ written' = written + 1 /\ written \in Nat
    BY <1>1, ConstantsAssumption DEF WriteStdout, TypeOK, Lines
  <2>2. TypeOK'
    BY <1>1, <2>1 DEF WriteStdout, TypeOK, WriterSteps, clientVars, Lines
  <2>3. WriterInv' /\ TodoInv'
    BY <1>1, ConstantsAssumption DEF WriteStdout, WriterInv, Offering, TodoInv
  <2>4. \A c \in Clients : Fresh(c)'
    <3> SUFFICES ASSUME NEW c \in Clients
                 PROVE  data[c] < written' /\ \A i \in DOMAIN ch[c] : ch[c][i] < written'
      BY <1>1 DEF WriteStdout, clientVars, Fresh
    <3>1. /\ data[c] \in Nat /\ data[c] <= written
          /\ \A i \in DOMAIN ch[c] : ch[c][i] \in Lines /\ ch[c][i] <= written
      BY Channel DEF TypeOK, PastInv, InOrder
    <3> QED
      BY <2>1, <3>1 DEF Lines
  <2>5. FreshInv'
    BY <1>1, <2>2, <2>4 DEF FreshInv, TypeOK
  <2>6. PastInv'
    <3> SUFFICES ASSUME NEW c \in Clients
                 PROVE  data[c] <= written' /\ due[c] <= written' /\
                        (pc[c] \in {"hello", "add"} => due[c] = 0 /\ c \notin listeners)
      BY <1>1 DEF WriteStdout, clientVars, PastInv
    <3>1. data[c] \in Nat /\ due[c] \in Nat
      BY DEF TypeOK
    <3> QED
      BY <2>1, <3>1 DEF PastInv
  <2>7. InOrder'
    <3> SUFFICES ASSUME NEW c \in Clients, NEW i \in DOMAIN ch[c]
                 PROVE  ch[c][i] <= written'
      BY <1>1 DEF WriteStdout, clientVars, InOrder
    <3>1. ch[c][i] \in Lines
      BY Channel DEF TypeOK
    <3> QED
      BY <2>1, <3>1 DEF InOrder, Lines
  <2>8. NewestKept'
    BY <1>1 DEF WriteStdout, clientVars, NewestKept, Newest
  <2> QED
    BY <2>2, <2>3, <2>5, <2>6, <2>7, <2>8
<1>2. ASSUME Lock
      PROVE  IInv'
  <2>1. UNCHANGED <<written, target, listeners, ch, done, pc, data, sent>>
    BY <1>2 DEF Lock, clientVars
  <2>2. TypeOK'
    BY <1>2, <2>1 DEF Lock, TypeOK, WriterSteps
  <2>3. target = Nobody
    BY <1>2 DEF Lock, WriterInv, Offering
  <2>4. WriterInv' /\ TodoInv'
    BY <1>2, <2>1, <2>3, ConstantsAssumption DEF Lock, WriterInv, Offering, TodoInv, TypeOK
  <2>5. FreshInv'
    BY <1>2, <2>1, <2>3, ConstantsAssumption DEF Lock, FreshInv, Fresh, TypeOK
  <2>6. PastInv'
    <3> SUFFICES ASSUME NEW c \in Clients
                 PROVE  data[c] <= written /\ due'[c] <= written /\
                        (pc[c] \in {"hello", "add"} => due'[c] = 0 /\ c \notin listeners)
      BY <2>1 DEF PastInv
    <3> QED
      BY <1>2 DEF Lock, PastInv, TypeOK
  <2>7. InOrder'
    BY <2>1 DEF InOrder
  <2>8. NewestKept'
    BY <1>2, <2>1 DEF Lock, NewestKept, Newest
  <2> QED
    BY <2>2, <2>4, <2>5, <2>6, <2>7, <2>8
<1>3. ASSUME NEW c \in Clients, Visit(c)
      PROVE  IInv'
  <2>1. UNCHANGED <<written, listeners, ch, done, pc, data, sent, due>>
    BY <1>3 DEF Visit, clientVars
  <2>2. TypeOK'
    BY <1>3, <2>1 DEF Visit, TypeOK, WriterSteps
  <2>3. WriterInv' /\ TodoInv'
    BY <1>3, ConstantsAssumption DEF Visit, WriterInv, Offering, TodoInv
  <2>4. FreshInv'
    BY <1>3, <2>1 DEF Visit, FreshInv, Fresh
  <2>5. PastInv' /\ InOrder'
    BY <2>1 DEF PastInv, InOrder
  <2>6. NewestKept'
    <3>1. target = Nobody
      BY <1>3 DEF Visit, WriterInv, Offering
    <3> QED
      BY <1>3, <2>1, <3>1, ConstantsAssumption DEF Visit, NewestKept, Newest, TypeOK
  <2> QED
    BY <2>2, <2>3, <2>4, <2>5, <2>6
<1>4. ASSUME Unlock
      PROVE  IInv'
  <2>1. UNCHANGED <<written, todo, target, listeners, ch, done, pc, data, sent, due>>
    BY <1>4 DEF Unlock, clientVars
  <2>2. TypeOK' /\ WriterInv' /\ TodoInv'
    BY <1>4, <2>1 DEF Unlock, TypeOK, WriterSteps, WriterInv, Offering, TodoInv
  <2>3. FreshInv' /\ PastInv' /\ InOrder' /\ NewestKept'
    BY <1>4, <2>1 DEF Unlock, FreshInv, Fresh, PastInv, InOrder, NewestKept, Newest
  <2> QED
    BY <2>2, <2>3
<1> HIDE DEF IInv
<1> QED
  BY <1>1, <1>2, <1>3, <1>4

\* The writer inside OnChanged, without touching the channel: it gives up, or
\* goes on to the next select.
LEMMA WriterWaits ==
    ASSUME IInv, UNCHANGED <<written, todo, listeners, ch, done, clientVars, due>>,
           \/ wpc \in {"push", "pop", "repush"} /\ GiveUp
           \/ /\ wpc \in {"push", "pop"}
              /\ wpc' = "pop" /\ UNCHANGED target
           \/ /\ wpc = "pop" /\ ch[target] = <<>>
              /\ wpc' = "repush" /\ UNCHANGED target
    PROVE  IInv'
<1> USE DEF IInv
<1>1. UNCHANGED <<pc, data, sent>>
  BY DEF clientVars
<1>2. TypeOK'
  BY <1>1 DEF TypeOK, WriterSteps, GiveUp, Return
<1>3. target \in Clients /\ wpc \in Offering
  BY DEF WriterInv, Offering, TypeOK
<1>4. WriterInv'
  <2>1. ch[target] = <<>> => Len(ch[target]) < Capacity
    <3>1. ch[target] \in Seq(Lines)
      BY <1>3 DEF TypeOK
    <3>2. ch[target] = <<>> => Len(ch[target]) = 0
      BY <3>1, Channel
    <3> QED
      BY <3>2, ConstantsAssumption
  <2> QED
    BY <1>3, <2>1, ConstantsAssumption DEF WriterInv, Offering, GiveUp, Return, TypeOK
<1>5. FreshInv' /\ TodoInv'
  BY <1>1, <1>3, ConstantsAssumption DEF FreshInv, Fresh, TodoInv, GiveUp, Return, TypeOK
<1>6. PastInv' /\ InOrder'
  BY <1>1 DEF PastInv, InOrder
<1>7. NewestKept'
  BY <1>1, <1>3 DEF NewestKept, Newest, GiveUp, Return
<1> QED
  BY <1>2, <1>4, <1>5, <1>6, <1>7

\* The line is queued: it is the newest of all, and last in its channel.
LEMMA LinePushed ==
    ASSUME IInv, wpc \in {"push", "repush"}, PushLine,
           UNCHANGED <<written, todo, listeners, done, clientVars, due>>
    PROVE  IInv'
<1> USE DEF IInv
<1>1. UNCHANGED <<pc, data, sent>>
  BY DEF clientVars
<1>2. target \in Clients /\ target' = Nobody /\ wpc' = "range"
  BY DEF WriterInv, Offering, TypeOK, PushLine, Return
<1>3. ch[target] \in Seq(Lines) /\ Fresh(target) /\ data[target] \in Nat /\ written \in Lines
  <2>1. ch[target] \in Seq(Lines)
    BY <1>2 DEF TypeOK
  <2>2. Fresh(target)
    BY <1>2 DEF FreshInv
  <2>3. data[target] \in Nat /\ written \in 0..MaxLines
    BY <1>2 DEF TypeOK
  <2>4. data[target] < written
    BY <2>2 DEF Fresh
  <2>5. written \in Lines
    BY <2>3, <2>4 DEF Lines
  <2> QED
    BY <2>1, <2>2, <2>3, <2>5
<1>4. /\ ch'[target] = Append(ch[target], written)
      /\ \A c \in Clients \ {target} : ch'[c] = ch[c]
      /\ DOMAIN ch' = Clients
      /\ ch' = [ch EXCEPT ![target] = Append(ch[target], written)]
  BY <1>2 DEF PushLine, TypeOK
<1> DEFINE s == ch[target]
           r == ch'[target]
           n == Len(ch[target])
<1>5. /\ r \in Seq(Lines) /\ r # <<>>
      /\ n \in Nat /\ Len(r) = n + 1
      /\ DOMAIN r = 1..n + 1 /\ DOMAIN s = 1..n
      /\ \A i \in 1..n : r[i] = s[i]
      /\ r[n + 1] = written
  <2>1. /\ Append(s, written) \in Seq(Lines)
        /\ Len(Append(s, written)) = Len(s) + 1
        /\ Append(s, written) # <<>>
        /\ \A i \in 1..Len(s) : Append(s, written)[i] = s[i]
        /\ Append(s, written)[Len(s) + 1] = written
    BY <1>3, Pushed
  <2>2. Len(s) \in Nat /\ DOMAIN s = 1..Len(s)
    BY <1>3, Channel
  <2>3. DOMAIN Append(s, written) = 1..Len(Append(s, written))
    BY <2>1, Channel
  <2> QED
    BY <1>4, <2>1, <2>2, <2>3
<1>6. TypeOK'
  <2>1. ch' \in [Clients -> Seq(Lines)]
    BY <1>3, <1>4, <1>5 DEF TypeOK
  <2>2. \A c \in Clients : Len(ch'[c]) <= Capacity
    <3>1. n < Capacity
      BY DEF PushLine
    <3>2. Len(r) <= Capacity
      BY <1>5, <3>1, ConstantsAssumption
    <3> QED
      BY <1>4, <3>2 DEF TypeOK
  <2> QED
    BY <1>1, <1>2, <2>1, <2>2 DEF TypeOK, WriterSteps
<1>7. WriterInv' /\ TodoInv'
  BY <1>2, ConstantsAssumption DEF WriterInv, Offering, TodoInv, TypeOK
<1>8. FreshInv'
  <2>1. \A c \in todo : c # target
    BY DEF TodoInv
  <2> QED
    BY <1>1, <1>2, <1>4, <2>1, ConstantsAssumption DEF FreshInv, Fresh, TypeOK
<1>9. PastInv'
  BY <1>1 DEF PastInv
<1>10. InOrder'
  <2> SUFFICES ASSUME NEW c \in Clients
               PROVE  /\ sent[c] <= data[c]
                      /\ pc[c] = "send" => sent[c] < data[c]
                      /\ \A i \in DOMAIN ch'[c] : data[c] < ch'[c][i] /\ ch'[c][i] <= written
                      /\ \A i, j \in DOMAIN ch'[c] : i < j => ch'[c][i] < ch'[c][j]
    BY <1>1 DEF InOrder
  <2>1. CASE c # target
    BY <1>4, <2>1 DEF InOrder
  <2>2. CASE c = target
    <3>1. \A i \in 1..n : data[target] < s[i] /\ s[i] < written /\ s[i] \in Lines
      BY <1>2, <1>3, <1>5, Channel DEF InOrder, Fresh
    <3>2. data[target] < written
      BY <1>3 DEF Fresh
    <3>3. \A i, j \in 1..n : i < j => s[i] < s[j]
      BY <1>2, <1>5 DEF InOrder
    <3>4. \A i \in 1..n : r[i] = s[i]
      BY <1>5
    <3>5. r[n + 1] = written /\ n \in Nat /\ written \in Lines /\ data[target] \in Nat
      BY <1>3, <1>5
    <3>6. DOMAIN ch'[c] = 1..n + 1 /\ ch'[c] = r
      BY <1>5, <2>2
    <3> HIDE DEF s, r, n
    <3>7. \A i \in 1..n + 1 : data[target] < r[i] /\ r[i] <= written
      <4> SUFFICES ASSUME NEW i \in 1..n + 1
                   PROVE  data[target] < r[i] /\ r[i] <= written
        OBVIOUS
      <4>1. i \in 1..n \/ i = n + 1
        BY <3>5
      <4> QED
        BY <3>1, <3>2, <3>4, <3>5, <4>1 DEF Lines
    <3>8. \A i, j \in 1..n + 1 : i < j => r[i] < r[j]
      <4> SUFFICES ASSUME NEW i \in 1..n + 1, NEW j \in 1..n + 1, i < j
                   PROVE  r[i] < r[j]
        OBVIOUS
      <4>1. i \in 1..n
        BY <3>5
      <4>2. j \in 1..n \/ j = n + 1
        BY <3>5
      <4> QED
        BY <3>1, <3>3, <3>4, <3>5, <4>1, <4>2
    <3> QED
      BY <2>2, <3>6, <3>7, <3>8 DEF InOrder
  <2> QED
    BY <2>1, <2>2
<1>11. NewestKept'
  <2> SUFFICES ASSUME NEW c \in listeners, c \notin done, c \notin todo
               PROVE  Newest(c)' >= due[c]
    BY DEF NewestKept
  <2>1. c \in Clients /\ due[c] <= written
    BY DEF TypeOK, PastInv
  <2>2. CASE c = target
    <3>1. Newest(c)' = r[Len(r)]
      BY <1>5, <2>2 DEF Newest
    <3>2. written \in Nat /\ due[c] \in Nat
      BY <2>1 DEF TypeOK
    <3> QED
      BY <1>5, <2>1, <3>1, <3>2
  <2>3. CASE c # target
    BY <1>1, <1>4, <2>1, <2>3 DEF NewestKept, Newest
  <2> QED
    BY <2>2, <2>3
<1> QED
  BY <1>6, <1>7, <1>8, <1>9, <1>10, <1>11

\* What an ordered channel is after its first line has left it, by a drop or by
\* a receive.
LEMMA FirstLeaves ==
    ASSUME IInv, NEW c \in Clients, ch[c] # <<>>, ch' = [ch EXCEPT ![c] = Tail(@)]
    PROVE  /\ ch' \in [Clients -> Seq(Lines)]
           /\ \A k \in Clients : Len(ch'[k]) <= Capacity
           /\ \A k \in Clients \ {c} : ch'[k] = ch[k]
           /\ Len(ch'[c]) < Capacity
           /\ Head(ch[c]) \in Lines
           /\ data[c] < Head(ch[c]) /\ Head(ch[c]) <= written
           /\ \A i \in DOMAIN ch'[c] : /\ Head(ch[c]) < ch'[c][i]
                                       /\ data[c] < ch'[c][i]
                                       /\ ch'[c][i] <= written
                                       /\ \E j \in DOMAIN ch[c] : ch'[c][i] = ch[c][j]
           /\ \A i, j \in DOMAIN ch'[c] : i < j => ch'[c][i] < ch'[c][j]
           /\ Newest(c) = IF ch'[c] # <<>> THEN ch'[c][Len(ch'[c])] ELSE Head(ch[c])
           /\ 1 \in DOMAIN ch[c] /\ Head(ch[c]) = ch[c][1]
<1> DEFINE s == ch[c]
           r == Tail(ch[c])
           n == Len(ch[c])
<1>1. s \in Seq(Lines) /\ ch \in [Clients -> Seq(Lines)]
  BY DEF IInv, TypeOK
<1>2. /\ r \in Seq(Lines) /\ Len(r) = n - 1
      /\ \A i \in 1..n - 1 : r[i] = s[i + 1]
      /\ Head(s) = s[1] /\ Head(s) \in Lines
  BY <1>1, Popped
<1>3. /\ n \in Nat \ {0} /\ DOMAIN s = 1..n
      /\ \A i \in 1..n : s[i] \in Lines
  BY <1>1, Channel
<1>4. DOMAIN r = 1..n - 1 /\ (r = <<>> <=> n - 1 = 0)
  BY <1>2, Channel
<1>5. /\ ch'[c] = r
      /\ \A k \in Clients \ {c} : ch'[k] = ch[k]
  BY <1>1
<1>6. /\ \A i \in 1..n : data[c] < s[i] /\ s[i] <= written
      /\ \A i, j \in 1..n : i < j => s[i] < s[j]
  BY <1>3 DEF IInv, InOrder
<1>7. n <= Capacity /\ \A k \in Clients : Len(ch[k]) <= Capacity
  BY DEF IInv, TypeOK
<1>8. Newest(c) = s[n]
  BY DEF Newest
<1>9. ch' \in [Clients -> Seq(Lines)]
  BY <1>1, <1>2
<1> HIDE DEF s, r, n
<1>10. Len(r) < Capacity
  BY <1>2, <1>3, <1>7, ConstantsAssumption
<1>11. \A i \in 1..n - 1 : /\ s[1] < r[i]
                           /\ data[c] < r[i]
                           /\ r[i] <= written
                           /\ \E j \in 1..n : r[i] = s[j]
  <2> SUFFICES ASSUME NEW i \in 1..n - 1
               PROVE  /\ s[1] < s[i + 1] /\ data[c] < s[i + 1] /\ s[i + 1] <= written
                      /\ \E j \in 1..n : s[i + 1] = s[j]
    BY <1>2
  <2>1. 1 \in 1..n /\ i + 1 \in 1..n /\ 1 < i + 1
    BY <1>3
  <2> QED
    BY <1>6, <2>1
<1>12. \A i, j \in 1..n - 1 : i < j => r[i] < r[j]
  <2> SUFFICES ASSUME NEW i \in 1..n - 1, NEW j \in 1..n - 1, i < j
               PROVE  s[i + 1] < s[j + 1]
    BY <1>2
  <2>1. i + 1 \in 1..n /\ j + 1 \in 1..n /\ i + 1 < j + 1
    BY <1>3
  <2> QED
    BY <1>6, <2>1
<1>13. s[n] = IF r # <<>> THEN r[Len(r)] ELSE s[1]
  <2>1. CASE n = 1
    BY <1>4, <2>1
  <2>2. CASE n # 1
    <3>1. n - 1 \in 1..n - 1 /\ (n - 1) + 1 = n /\ r # <<>>
      BY <1>3, <1>4, <2>2
    <3> QED
      BY <1>2, <3>1
  <2> QED
    BY <2>1, <2>2
<1>14. 1 \in 1..n
  BY <1>3
<1>15. \A k \in Clients : Len(ch'[k]) <= Capacity
  <2>1. Len(r) <= Capacity
    BY <1>2, <1>3, <1>10, ConstantsAssumption
  <2> QED
    BY <1>5, <1>7, <2>1
<1>16. data[c] < s[1] /\ s[1] <= written
  BY <1>6, <1>14
<1> QED
  BY <1>2, <1>3, <1>4, <1>5, <1>8, <1>9, <1>10, <1>11, <1>12, <1>13, <1>14, <1>15, <1>16
  DEF s, r, n

\* The oldest line is dropped: there is room for the new one.
LEMMA LineDropped ==
    ASSUME IInv, wpc = "pop", ch[target] # <<>>,
           ch' = [ch EXCEPT ![target] = Tail(@)], wpc' = "repush",
           UNCHANGED <<written, todo, target, listeners, done, clientVars, due>>
    PROVE  IInv'
<1> USE DEF IInv
<1>1. UNCHANGED <<pc, data, sent>>
  BY DEF clientVars
<1>2. target \in Clients
  BY DEF WriterInv, Offering, TypeOK
<1>3. TypeOK'
  BY <1>1, <1>2, FirstLeaves DEF TypeOK, WriterSteps
<1>4. WriterInv' /\ TodoInv'
  BY <1>2, FirstLeaves, ConstantsAssumption DEF WriterInv, Offering, TodoInv
<1>5. FreshInv'
  <2>1. ASSUME NEW c \in Clients, Fresh(c)
        PROVE  Fresh(c)'
    <3>1. \A i \in DOMAIN ch'[c] : \E j \in DOMAIN ch[c] : ch'[c][i] = ch[c][j]
      <4>1. CASE c = target
        BY <1>2, <4>1, FirstLeaves
      <4>2. CASE c # target
        <5>1. ch'[c] = ch[c]
          BY <1>2, <4>2, FirstLeaves
        <5> QED
          BY <5>1
      <4> QED
        BY <4>1, <4>2
    <3> QED
      BY <1>1, <2>1, <3>1 DEF Fresh
  <2> QED
    BY <1>2, <2>1 DEF FreshInv, TypeOK
<1>6. PastInv'
  BY <1>1 DEF PastInv
<1>7. InOrder'
  <2> SUFFICES ASSUME NEW c \in Clients
               PROVE  /\ \A i \in DOMAIN ch'[c] : data[c] < ch'[c][i] /\ ch'[c][i] <= written
                      /\ \A i, j \in DOMAIN ch'[c] : i < j => ch'[c][i] < ch'[c][j]
    BY <1>1 DEF InOrder
  <2>1. CASE c = target
    BY <1>2, <2>1, FirstLeaves
  <2>2. CASE c # target
    <3>1. ch'[c] = ch[c]
      BY <1>2, <2>2, FirstLeaves
    <3> QED
      BY <3>1 DEF InOrder
  <2> QED
    BY <2>1, <2>2
<1>8. NewestKept'
  BY <1>1, <1>2, FirstLeaves DEF NewestKept, Newest, TypeOK
<1> QED
  BY <1>3, <1>4, <1>5, <1>6, <1>7, <1>8

\* The writer inside OnChanged.
LEMMA WriterOffers == IInv /\ (Push \/ Pop \/ PushAgain) => IInv'
<1> SUFFICES ASSUME IInv, Push \/ Pop \/ PushAgain
             PROVE  IInv'
  OBVIOUS
<1>1. /\ wpc \in {"push", "pop", "repush"}
      /\ UNCHANGED <<written, todo, listeners, done, clientVars, due>>
  BY DEF Push, Pop, PushAgain
<1>2. CASE GiveUp
  BY <1>1, <1>2, WriterWaits DEF GiveUp
<1>3. CASE PushLine /\ wpc # "pop"
  BY <1>1, <1>3, LinePushed
<1>4. CASE Push /\ NoneReady /\ wpc' = "pop" /\ UNCHANGED <<target, ch>>
  BY <1>1, <1>4, WriterWaits DEF Push
<1>5. CASE Pop /\ ch[target] # <<>> /\ ch' = [ch EXCEPT ![target] = Tail(@)] /\
           wpc' = "repush" /\ UNCHANGED target
  BY <1>1, <1>5, LineDropped DEF Pop
<1>6. CASE Pop /\ ch[target] = <<>> /\ wpc' = "repush" /\ UNCHANGED <<target, ch>>
  BY <1>1, <1>6, WriterWaits DEF Pop
<1>7. CASE PushAgain /\ NoneReady
  <2>1. Len(ch[target]) < Capacity /\ target \in Clients /\ Len(ch[target]) = Capacity
    BY <1>7 DEF PushAgain, NoneReady, IInv, WriterInv, Offering, TypeOK
  <2> QED
    BY <2>1, ConstantsAssumption
<1> QED
  BY <1>2, <1>3, <1>4, <1>5, <1>6, <1>7 DEF Push, Pop, PushAgain
-------------------------------------------------------------------------------
\* The steps of Attach that leave the channel alone.
LEMMA AttachMoves ==
    ASSUME IInv, NEW c \in Clients,
           \/ Hello(c) \/ AddListener(c) \/ Leave(c) \/ Send(c) \/ RemoveListener(c) \/ Cancel(c)
    PROVE  IInv'
<1> USE DEF IInv
<1>1. UNCHANGED <<written, wpc, todo, target, ch, data, due>>
  BY DEF Hello, AddListener, Leave, Send, RemoveListener, Cancel, writerVars, clientVars
<1>2. TypeOK'
  BY <1>1 DEF TypeOK, AttachSteps, Hello, AddListener, Leave, Send, RemoveListener, Cancel,
              clientVars
<1>3. WriterInv' /\ TodoInv'
  BY <1>1 DEF WriterInv, TodoInv
<1>4. FreshInv'
  BY <1>1 DEF FreshInv, Fresh
<1>5. PastInv'
  BY <1>1 DEF PastInv, TypeOK, AttachSteps, Hello, AddListener, Leave, Send, RemoveListener,
              Cancel, clientVars
<1>6. InOrder'
  <2>1. \A k \in Clients : \/ sent'[k] = sent[k] /\ (pc'[k] = "send" => pc[k] = "send")
                           \/ sent'[k] = data[k] /\ pc'[k] # "send"
    BY DEF TypeOK, Hello, AddListener, Leave, Send, RemoveListener, Cancel, clientVars
  <2> QED
    BY <1>1, <2>1, QuietLines
<1>7. NewestKept'
  <2>1. CASE UNCHANGED listeners
    BY <1>1, <2>1 DEF NewestKept, Newest, Hello, Leave, Send, Cancel, AddListener, RemoveListener
  <2>2. CASE RemoveListener(c)
    BY <1>1, <2>2 DEF NewestKept, Newest, RemoveListener
  <2>3. CASE AddListener(c)
    <3>1. done' = done /\ listeners' = listeners \cup {c} /\ due[c] = 0
      BY <2>3 DEF AddListener, PastInv
    <3>2. Newest(c) \in Nat
      <4>1. ch[c] \in Seq(Lines) /\ data[c] \in Nat
        BY DEF TypeOK
      <4>2. ch[c] # <<>> => ch[c][Len(ch[c])] \in Lines
        BY <4>1, Channel
      <4> QED
        BY <4>1, <4>2 DEF Newest, Lines
    <3> QED
      BY <1>1, <3>1, <3>2 DEF NewestKept, Newest
  <2> QED
    BY <2>1, <2>2, <2>3 DEF Hello, Leave, Send, Cancel
<1> QED
  BY <1>2, <1>3, <1>4, <1>5, <1>6, <1>7

\* A client takes the first line of its channel.
LEMMA LineReceived ==
    ASSUME IInv, NEW c \in Clients, Receive(c)
    PROVE  IInv'
<1> USE DEF IInv
<1>1. /\ UNCHANGED <<written, wpc, todo, target, listeners, done, sent, due>>
      /\ pc[c] = "loop" /\ ch[c] # <<>>
      /\ data' = [data EXCEPT ![c] = Head(ch[c])]
      /\ ch' = [ch EXCEPT ![c] = Tail(@)]
      /\ pc' = [pc EXCEPT ![c] = "send"]
  BY DEF Receive, writerVars
<1>2. /\ data'[c] = Head(ch[c]) /\ \A k \in Clients \ {c} : data'[k] = data[k]
      /\ pc'[c] = "send" /\ \A k \in Clients \ {c} : pc'[k] = pc[k]
  BY <1>1 DEF TypeOK
<1>3. /\ ch' \in [Clients -> Seq(Lines)]
      /\ \A k \in Clients : Len(ch'[k]) <= Capacity
      /\ \A k \in Clients \ {c} : ch'[k] = ch[k]
      /\ Len(ch'[c]) < Capacity
  BY <1>1, FirstLeaves
<1>4. /\ data'[c] \in Lines /\ data[c] < data'[c] /\ data'[c] <= written
      /\ 1 \in DOMAIN ch[c] /\ data'[c] = ch[c][1]
  BY <1>1, <1>2, FirstLeaves
<1>5. /\ \A i \in DOMAIN ch'[c] : data'[c] < ch'[c][i] /\ ch'[c][i] <= written
      /\ \A i, j \in DOMAIN ch'[c] : i < j => ch'[c][i] < ch'[c][j]
  <2>1. /\ \A i \in DOMAIN ch'[c] : Head(ch[c]) < ch'[c][i] /\ ch'[c][i] <= written
        /\ \A i, j \in DOMAIN ch'[c] : i < j => ch'[c][i] < ch'[c][j]
    BY <1>1, FirstLeaves
  <2> HIDE DEF IInv
  <2> QED
    BY <1>2, <2>1
<1>6. \A i \in DOMAIN ch'[c] : \E j \in DOMAIN ch[c] : ch'[c][i] = ch[c][j]
  BY <1>1, FirstLeaves
<1>7. Newest(c)' = Newest(c)
  BY <1>1, <1>2, FirstLeaves DEF Newest
<1>8. TypeOK'
  <2>1. data'[c] \in 0..MaxLines
    BY <1>4 DEF Lines
  <2>2. data' \in [Clients -> 0..MaxLines]
    BY <1>1, <1>2, <2>1 DEF TypeOK
  <2> QED
    BY <1>1, <1>3, <2>2 DEF TypeOK, AttachSteps
<1>9. WriterInv' /\ TodoInv'
  BY <1>1, <1>3 DEF WriterInv, Offering, TodoInv, TypeOK
<1>10. FreshInv'
  <2>1. ASSUME NEW k \in Clients, Fresh(k)
        PROVE  Fresh(k)'
    <3>1. CASE k = c
      BY <1>1, <1>4, <1>6, <2>1, <3>1 DEF Fresh
    <3>2. CASE k # c
      BY <1>1, <1>2, <1>3, <2>1, <3>2 DEF Fresh
    <3> QED
      BY <3>1, <3>2
  <2> QED
    BY <1>1, <2>1 DEF FreshInv, TypeOK
<1>11. PastInv'
  <2> SUFFICES ASSUME NEW k \in Clients
               PROVE  /\ data'[k] <= written
                      /\ due[k] <= written
                      /\ pc'[k] \in {"hello", "add"} => due[k] = 0 /\ k \notin listeners
    BY <1>1 DEF PastInv
  <2>1. CASE k = c
    BY <1>2, <1>4, <2>1 DEF PastInv
  <2>2. CASE k # c
    BY <1>2, <2>2 DEF PastInv
  <2> QED
    BY <2>1, <2>2
<1>12. InOrder'
  <2> SUFFICES ASSUME NEW k \in Clients
               PROVE  /\ sent[k] <= data'[k]
                      /\ pc'[k] = "send" => sent[k] < data'[k]
                      /\ \A i \in DOMAIN ch'[k] : data'[k] < ch'[k][i] /\ ch'[k][i] <= written
                      /\ \A i, j \in DOMAIN ch'[k] : i < j => ch'[k][i] < ch'[k][j]
    BY <1>1 DEF InOrder
  <2>1. CASE k = c
    <3>1. sent[c] <= data[c] /\ sent[c] \in Nat /\ data[c] \in Nat
      BY DEF InOrder, TypeOK
    <3>2. sent[c] < data'[c] /\ sent[c] <= data'[c]
      BY <1>4, <3>1 DEF Lines
    <3> QED
      BY <1>5, <2>1, <3>2
  <2>2. CASE k # c
    <3>1. ch'[k] = ch[k] /\ data'[k] = data[k] /\ pc'[k] = pc[k]
      BY <1>2, <1>3, <2>2
    <3> QED
      BY <3>1 DEF InOrder
  <2> QED
    BY <2>1, <2>2
<1>13. NewestKept'
  <2>1. \A k \in Clients : Newest(k)' = Newest(k)
    BY <1>2, <1>3, <1>7 DEF Newest
  <2> QED
    BY <1>1, <2>1 DEF NewestKept, TypeOK
<1> QED
  BY <1>8, <1>9, <1>10, <1>11, <1>12, <1>13

\* The invariant is inductive.
LEMMA Inductive == IInv /\ [Next]_vars => IInv'
<1> SUFFICES ASSUME IInv, [Next]_vars
             PROVE  IInv'
  OBVIOUS
<1>1. CASE UNCHANGED vars
  BY <1>1 DEF vars, writerVars, clientVars, IInv, TypeOK, WriterInv, FreshInv, Fresh, PastInv,
              TodoInv, InOrder, NewestKept, Newest
<1>2. CASE Writer
  BY <1>2, WriterMoves, WriterOffers DEF Writer
<1>3. ASSUME NEW c \in Clients, Attach(c) \/ Cancel(c)
      PROVE  IInv'
  BY <1>3, AttachMoves, LineReceived DEF Attach
<1> QED
  BY <1>1, <1>2, <1>3 DEF Next

\* Type correctness of the monitor and its clients.
THEOREM TypeCorrect == Spec => []TypeOK
BY InitInv, Inductive, PTL DEF Spec, IInv

\* The monitor never reaches the error it would have to report to itself.
THEOREM RoomIsMade == Spec => []PopMakesRoom
<1>1. IInv => PopMakesRoom
  BY DEF IInv, WriterInv, PopMakesRoom
<1> QED
  BY <1>1, InitInv, Inductive, PTL DEF Spec

\* Whatever is dropped, what a client gets is in order and without repetition.
THEOREM DeliversInOrder == Spec => []InOrder
BY InitInv, Inductive, PTL DEF Spec, IInv

\* Whatever is dropped, it is not the newest line.
THEOREM KeepsNewest == Spec => []NewestKept
BY InitInv, Inductive, PTL DEF Spec, IInv
-------------------------------------------------------------------------------
(***************************************************************************)
(* What is lost.  A push extends the run of lines in a channel by the next *)
(* one, because it is offered every line since it was registered; a pop    *)
(* shortens it at the other end.                                           *)
(***************************************************************************)

\* The lines of s are consecutive, and t is the last.
EndsAt(s, t) == \A i \in DOMAIN s : s[i] + (Len(s) - i) = t

Tip(c) == IF Awaited(c) THEN written - 1 ELSE written

\* Whom the logger visits is registered, and nothing is queued for those who
\* have not been.
RegisteredInv ==
    /\ todo \subseteq listeners /\ target \in listeners \cup {Nobody}
    /\ \A c \in Clients : pc[c] \in {"hello", "add"} => ch[c] = <<>>

\* A run that is extended, shortened, or empty.
LEMMA EndsAtPushed ==
    ASSUME NEW s \in Seq(Lines), NEW n \in Lines, EndsAt(s, n - 1)
    PROVE  EndsAt(Append(s, n), n)
<1> DEFINE r == Append(s, n)
<1>1. r \in Seq(Lines) /\ Len(r) = Len(s) + 1 /\ r[Len(s) + 1] = n
      /\ \A i \in 1..Len(s) : r[i] = s[i]
  BY Pushed
<1>2. DOMAIN r = 1..Len(s) + 1 /\ DOMAIN s = 1..Len(s) /\ Len(s) \in Nat
      /\ \A i \in 1..Len(s) : s[i] \in Nat
  BY <1>1, Channel DEF Lines
<1> HIDE DEF r
<1> SUFFICES ASSUME NEW i \in 1..Len(s) + 1
             PROVE  r[i] + (Len(r) - i) = n
  BY <1>2 DEF EndsAt, r
<1>3. CASE i = Len(s) + 1
  BY <1>1, <1>2, <1>3 DEF Lines
<1>4. CASE i \in 1..Len(s)
  <2>1. r[i] = s[i] /\ s[i] + (Len(s) - i) = n - 1 /\ s[i] \in Nat
    BY <1>1, <1>2, <1>4 DEF EndsAt
  <2> QED
    BY <1>1, <1>2, <1>4, <2>1 DEF Lines
<1> QED
  BY <1>2, <1>3, <1>4

LEMMA EndsAtPopped ==
    ASSUME NEW s \in Seq(Lines), s # <<>>, NEW t, EndsAt(s, t)
    PROVE  EndsAt(Tail(s), t)
<1> DEFINE r == Tail(s)
<1>1. r \in Seq(Lines) /\ Len(r) = Len(s) - 1 /\ \A i \in 1..Len(s) - 1 : r[i] = s[i + 1]
  BY Popped
<1>2. Len(s) \in Nat /\ DOMAIN s = 1..Len(s) /\ DOMAIN r = 1..Len(s) - 1
  BY <1>1, Channel
<1> HIDE DEF r
<1> SUFFICES ASSUME NEW i \in 1..Len(s) - 1
             PROVE  r[i] + (Len(r) - i) = t
  BY <1>2 DEF EndsAt, r
<1>3. i + 1 \in 1..Len(s) /\ r[i] = s[i + 1]
  BY <1>1, <1>2
<1>4. s[i + 1] + (Len(s) - (i + 1)) = t
  BY <1>2, <1>3 DEF EndsAt
<1>5. Len(r) - i = Len(s) - (i + 1)
  BY <1>1, <1>2
<1> QED
  BY <1>3, <1>4, <1>5

LEMMA EndsAtEmpty == ASSUME NEW t PROVE EndsAt(<<>>, t)
BY EmptySeq DEF EndsAt

\* Registration and the range loop exclude each other.
LEMMA StaysRegistered == IInv /\ RegisteredInv /\ [Next]_vars => RegisteredInv'
<1> SUFFICES ASSUME IInv, RegisteredInv, [Next]_vars
             PROVE  RegisteredInv'
  OBVIOUS
<1> USE DEF IInv, TypeOK, RegisteredInv
<1>1. CASE UNCHANGED vars
  BY <1>1 DEF vars, writerVars, clientVars
<1>2. CASE WriteStdout \/ Lock \/ (\E c \in Clients : Visit(c)) \/ Unlock
  BY <1>2 DEF WriteStdout, Lock, Visit, Unlock, clientVars
<1>3. CASE Push \/ Pop \/ PushAgain
  <2>1. UNCHANGED <<todo, listeners, pc>> /\ target' \in {target, Nobody}
    BY <1>3 DEF Push, Pop, PushAgain, GiveUp, PushLine, Return, clientVars
  <2>2. \A c \in Clients \ {target} : ch'[c] = ch[c]
    BY <1>3 DEF Push, Pop, PushAgain, GiveUp, PushLine, Return
  <2>3. \A c \in listeners : pc[c] \notin {"hello", "add"}
    BY DEF PastInv
  <2>4. target \in listeners
    BY <1>3 DEF Push, Pop, PushAgain, WriterInv, Offering
  <2> QED
    BY <2>1, <2>2, <2>3, <2>4
<1>4. ASSUME NEW c \in Clients, Attach(c) \/ Cancel(c)
      PROVE  RegisteredInv'
  <2>1. UNCHANGED <<todo, target>>
    BY <1>4 DEF Attach, Hello, AddListener, Leave, Receive, Send, RemoveListener, Cancel, writerVars
  <2>2. \/ listeners \subseteq listeners'
        \/ todo = {} /\ target = Nobody
    <3>1. CASE RemoveListener(c)
      BY <3>1 DEF RemoveListener, TodoInv, WriterInv, Offering, Locked
    <3>2. CASE ~RemoveListener(c)
      BY <1>4, <3>2 DEF Attach, Hello, AddListener, Leave, Receive, Send, Cancel
    <3> QED
      BY <3>1, <3>2
  <2>3. \A k \in Clients : pc'[k] \in {"hello", "add"} => pc[k] \in {"hello", "add"} /\ ch'[k] = ch[k]
    BY <1>4 DEF Attach, Hello, AddListener, Leave, Receive, Send, RemoveListener, Cancel, clientVars
  <2> QED
    BY <2>1, <2>2, <2>3
<1> QED
  BY <1>1, <1>2, <1>3, <1>4 DEF Next, Writer

\* One channel: it stays and so does its tip, or the line due is pushed, or its
\* first line leaves, or its client is new.
LEMMA StaysUnbroken ==
    IInv /\ RegisteredInv /\ QueueUnbroken /\ [Next]_vars => QueueUnbroken'
<1> SUFFICES ASSUME IInv, RegisteredInv, QueueUnbroken, [Next]_vars,
                    NEW c \in listeners', c \notin done'
             PROVE  EndsAt(ch[c], Tip(c))'
  BY DEF QueueUnbroken, EndsAt, Tip
<1>1. c \in Clients /\ done \subseteq done'
  BY Inductive DEF IInv, TypeOK, Next, Writer, WriteStdout, Lock, Visit, Unlock, Push, Pop,
     PushAgain, Attach, Hello, AddListener, Leave, Receive, Send, RemoveListener, Cancel, vars
<1>2. ch[c] \in Seq(Lines) /\ ch \in [Clients -> Seq(Lines)] /\ written \in Nat
  BY <1>1 DEF IInv, TypeOK
<1>3. c \in listeners => EndsAt(ch[c], Tip(c))
  BY <1>1 DEF QueueUnbroken, EndsAt, Tip
<1>4. ASSUME c \in listeners, ch'[c] = ch[c], Tip(c)' = Tip(c)
      PROVE  EndsAt(ch[c], Tip(c))'
  BY <1>3, <1>4 DEF EndsAt
<1>5. CASE UNCHANGED vars
  BY <1>4, <1>5 DEF vars, writerVars, clientVars, Tip, Awaited
<1>6. CASE WriteStdout \/ Lock \/ (\E k \in Clients : Visit(k)) \/ Unlock
  <2>1. UNCHANGED <<ch, listeners>>
    BY <1>6 DEF WriteStdout, Lock, Visit, Unlock
  <2>2. wpc \in {"idle", "lock", "range"} => target = Nobody
    BY DEF IInv, WriterInv, Offering
  <2>3. c # Nobody
    BY <1>1, ConstantsAssumption
  <2>4. wpc = "idle" => todo = {}
    BY DEF IInv, TodoInv
  <2>5. Tip(c)' = Tip(c)
    BY <1>2, <1>6, <2>1, <2>2, <2>3, <2>4 DEF WriteStdout, Lock, Visit, Unlock, Tip, Awaited
  <2> QED
    BY <1>4, <2>1, <2>5
<1>7. CASE Push \/ Pop \/ PushAgain
  <2>1. UNCHANGED <<written, todo, listeners, done>> /\ wpc # "lock" /\ wpc' # "lock"
    BY <1>7 DEF Push, Pop, PushAgain, GiveUp, PushLine, Return
  <2>2. target \in Clients
    BY <1>7 DEF Push, Pop, PushAgain, IInv, WriterInv, Offering, TypeOK
  <2>3. c # Nobody
    BY <1>1, ConstantsAssumption
  <2>4. CASE c # target
    <3>1. ch'[c] = ch[c] /\ target' \in {target, Nobody}
      BY <1>7, <2>4 DEF Push, Pop, PushAgain, GiveUp, PushLine, Return, IInv, TypeOK
    <3>2. Tip(c)' = Tip(c)
      BY <2>1, <2>3, <2>4, <3>1 DEF Tip, Awaited
    <3> QED
      BY <1>4, <2>1, <3>1, <3>2
  <2>5. CASE c = target
    <3>1. ~GiveUp
      BY <2>1, <2>5 DEF GiveUp
    <3>2. c \notin todo /\ Tip(c) = written - 1 /\ c \in listeners
      BY <2>1, <2>5 DEF IInv, TodoInv, Tip, Awaited
    <3>3. CASE PushLine
      <4>1. ch'[c] = Append(ch[c], written) /\ target' = Nobody
        BY <1>1, <1>2, <2>5, <3>3 DEF PushLine, Return
      <4>2. Tip(c)' = written
        BY <2>1, <2>3, <3>2, <4>1 DEF Tip, Awaited
      <4>3. written \in Lines
        <5>1. data[c] \in Nat /\ data[c] < written /\ written \in 0..MaxLines
          BY <1>1, <2>5 DEF IInv, TypeOK, FreshInv, Fresh
        <5> QED
          BY <5>1 DEF Lines
      <4>4. EndsAt(Append(ch[c], written), written)
        BY <1>2, <1>3, <3>2, <4>3, EndsAtPushed
      <4> QED
        BY <4>1, <4>2, <4>4 DEF EndsAt
    <3>4. CASE ~PushLine
      <4>1. UNCHANGED target
        BY <1>7, <3>1, <3>4 DEF Push, Pop, PushAgain
      <4>2. Tip(c)' = Tip(c)
        BY <2>1, <4>1 DEF Tip, Awaited
      <4>3. \/ ch'[c] = ch[c]
            \/ ch[c] # <<>> /\ ch'[c] = Tail(ch[c])
        <5>1. \/ UNCHANGED ch
              \/ ch[target] # <<>> /\ ch' = [ch EXCEPT ![target] = Tail(@)]
          BY <1>7, <3>1, <3>4 DEF Push, Pop, PushAgain
        <5> QED
          BY <1>1, <1>2, <2>5, <5>1
      <4>4. CASE ch'[c] = ch[c]
        BY <1>4, <3>2, <4>2, <4>4
      <4>5. CASE ch[c] # <<>> /\ ch'[c] = Tail(ch[c])
        <5>1. EndsAt(Tail(ch[c]), Tip(c))
          BY <1>2, <1>3, <3>2, <4>5, EndsAtPopped
        <5> QED
          BY <4>2, <4>5, <5>1 DEF EndsAt
      <4> QED
        BY <4>3, <4>4, <4>5
    <3> QED
      BY <3>3, <3>4
  <2> QED
    BY <2>4, <2>5
<1>8. ASSUME NEW k \in Clients, Attach(k) \/ Cancel(k)
      PROVE  EndsAt(ch[c], Tip(c))'
  <2>1. UNCHANGED <<written, wpc, todo, target>>
    BY <1>8 DEF Attach, Hello, AddListener, Leave, Receive, Send, RemoveListener, Cancel, writerVars
  <2>2. Tip(c)' = Tip(c)
    BY <2>1 DEF Tip, Awaited
  <2>3. \/ ch'[c] = ch[c]
        \/ c \in listeners /\ ch[c] # <<>> /\ ch'[c] = Tail(ch[c])
    BY <1>1, <1>2, <1>8 DEF Attach, Hello, AddListener, Leave, Receive, Send, RemoveListener, Cancel
  <2>4. c \in listeners \/ ch[c] = <<>>
    BY <1>8 DEF Attach, Hello, AddListener, Leave, Receive, Send, RemoveListener, Cancel,
                RegisteredInv
  <2>5. EndsAt(ch[c], Tip(c))
    BY <1>3, <2>4, EndsAtEmpty
  <2>6. CASE ch'[c] = ch[c]
    BY <2>2, <2>5, <2>6 DEF EndsAt
  <2>7. CASE ch[c] # <<>> /\ ch'[c] = Tail(ch[c])
    <3>1. EndsAt(Tail(ch[c]), Tip(c))
      BY <1>2, <2>5, <2>7, EndsAtPopped
    <3> QED
      BY <2>2, <2>7, <3>1 DEF EndsAt
  <2> QED
    BY <2>3, <2>6, <2>7
<1> QED
  BY <1>5, <1>6, <1>7, <1>8 DEF Next, Writer

\* What is lost is always what is oldest: the queue of a client that listens
\* has no gap and ends with the line broadcast last.
THEOREM LosesTheOldest == Spec => []QueueUnbroken
<1>1. Init => RegisteredInv /\ QueueUnbroken
  BY EmptySeq DEF Init, RegisteredInv, QueueUnbroken
<1> QED
  BY <1>1, InitInv, Inductive, StaysRegistered, StaysUnbroken, PTL DEF Spec
-------------------------------------------------------------------------------
(***************************************************************************)
(* How long the mutex is held.  A listener is visited once and offered the *)
(* line in three selects at most.                                          *)
(***************************************************************************)

\* The steps the writer may still take before it unlocks.
StepsLeft ==
    LET n == 4 * Cardinality(todo)
    IN CASE wpc = "push"   -> n + 4
         [] wpc = "pop"    -> n + 3
         [] wpc = "repush" -> n + 2
         [] wpc = "error"  -> n + 1
         [] wpc = "range"  -> n + 1
         [] OTHER          -> 0

\* Finitely many clients have registered, although there may be any number.
FiniteInv == IsFiniteSet(listeners) /\ IsFiniteSet(todo)

LEMMA StaysFinite == FiniteInv /\ [Next]_vars => FiniteInv'
<1> SUFFICES ASSUME FiniteInv, [Next]_vars
             PROVE  FiniteInv'
  OBVIOUS
<1>1. /\ \/ UNCHANGED listeners
         \/ \E c \in Clients : listeners' \in {listeners \cup {c}, listeners \ {c}}
      /\ todo' \in {todo, listeners} \cup {todo \ {c} : c \in Clients}
  BY DEF Next, Writer, WriteStdout, Lock, Visit, Unlock, Push, Pop, PushAgain, Attach, Hello,
         AddListener, Leave, Receive, Send, RemoveListener, Cancel, vars, writerVars
<1>2. \A c : IsFiniteSet(listeners \cup {c}) /\ IsFiniteSet(listeners \ {c})
             /\ IsFiniteSet(todo \ {c})
  BY FS_AddElement, FS_RemoveElement DEF FiniteInv
<1> QED
  BY <1>1, <1>2 DEF FiniteInv

\* With the mutex the writer comes nearer to its Unlock with each step, and
\* nothing a client does takes it back.
Nearer ==
    /\ Locked => \/ StepsLeft' < StepsLeft
                 \/ UNCHANGED <<wpc, todo, target>> /\ StepsLeft' = StepsLeft
    /\ ~Locked /\ Locked' => StepsLeft' = 4 * Cardinality(listeners) + 1

LEMMA EveryStepNearer == FiniteInv /\ TypeOK /\ TodoInv /\ [Next]_vars => Nearer
<1> SUFFICES ASSUME FiniteInv, TypeOK, TodoInv, [Next]_vars
             PROVE  Nearer
  OBVIOUS
<1> USE DEF Return, writerVars, clientVars
<1>1. Cardinality(todo) \in Nat
  BY FS_CardinalityType DEF FiniteInv
<1>2. CASE WriteStdout
  BY <1>2 DEF WriteStdout, Nearer, Locked
<1>3. CASE Lock
  BY <1>3 DEF Lock, Nearer, Locked, StepsLeft
<1>4. ASSUME NEW c \in Clients, Visit(c)
      PROVE  Nearer
  <2>1. Cardinality(todo') = Cardinality(todo) - 1
    BY <1>4, FS_RemoveElement DEF Visit, FiniteInv
  <2> QED
    BY <1>1, <1>4, <2>1 DEF Visit, Nearer, Locked, StepsLeft
<1>5. CASE Unlock
  BY <1>1, <1>5 DEF Unlock, Nearer, Locked, StepsLeft
<1>6. CASE Push
  BY <1>1, <1>6 DEF Push, GiveUp, PushLine, NoneReady, Nearer, Locked, StepsLeft
<1>7. CASE Pop
  BY <1>1, <1>7 DEF Pop, GiveUp, Nearer, Locked, StepsLeft
<1>8. CASE PushAgain
  BY <1>1, <1>8 DEF PushAgain, GiveUp, PushLine, NoneReady, Nearer, Locked, StepsLeft
<1>9. CASE UNCHANGED <<wpc, todo, target>>
  BY <1>9 DEF Nearer, Locked, StepsLeft
<1>10. ASSUME NEW c \in Clients, Attach(c) \/ Cancel(c)
       PROVE  UNCHANGED <<wpc, todo, target>>
  BY <1>10 DEF Attach, Hello, AddListener, Leave, Receive, Send, RemoveListener, Cancel
<1> QED
  BY <1>2, <1>3, <1>4, <1>5, <1>6, <1>7, <1>8, <1>9, <1>10 DEF Next, Writer, vars

\* A broadcast to n listeners is over in 4n + 1 steps of the logger, whatever
\* they do: none of them, slow or gone, holds the mutex for another.
THEOREM BroadcastIsBounded == Spec => [](StepsLeft \in Nat) /\ [][Nearer]_vars
<1>1. Init => FiniteInv
  BY FS_EmptySet DEF Init, FiniteInv
<1>2. FiniteInv => StepsLeft \in Nat
  BY FS_CardinalityType DEF FiniteInv, StepsLeft
<1>3. IInv => TypeOK /\ TodoInv
  BY DEF IInv
<1> QED
  BY <1>1, <1>2, <1>3, InitInv, Inductive, StaysFinite, EveryStepNearer, PTL DEF Spec
===============================================================================
