------------------------ MODULE SerialBridge_proofs ------------------------
(***************************************************************************)
(* The serial bridge passes the bytes of both directions on in order and   *)
(* paces them, for every size of its queues.  A queue of the bridge holds  *)
(* a run of consecutive bytes; the two directions are chains of such runs, *)
(* and every operation cuts a run or joins two.                            *)
(***************************************************************************)
EXTENDS SerialBridge, SequenceTheorems, TLAPS

(* s is the bytes lo + 1, ..., hi. *)
IsRun(s, lo, hi) ==
  /\ s \in Seq(Nat) /\ lo \in Nat /\ hi = lo + Len(s)
  /\ \A i \in 1 .. Len(s) : s[i] = lo + i

LEMMA RunFacts ==
  ASSUME NEW s, NEW lo, NEW hi, IsRun(s, lo, hi)
  PROVE  /\ s \in Seq(Nat) /\ Len(s) \in Nat /\ lo \in Nat /\ hi \in Nat
         /\ hi = lo + Len(s)
<1>1. s \in Seq(Nat) /\ lo \in Nat /\ hi = lo + Len(s)
  BY DEF IsRun
<1>2. Len(s) \in Nat
  BY <1>1, LenProperties
<1> QED BY <1>1, <1>2

LEMMA EmptyRun ==
  ASSUME NEW lo \in Nat
  PROVE  IsRun(<<>>, lo, lo)
BY EmptySeq DEF IsRun

LEMMA NoRun ==
  ASSUME NEW s, NEW lo, IsRun(s, lo, lo)
  PROVE  s = <<>>
<1>1. s \in Seq(Nat) /\ Len(s) = 0
  BY RunFacts
<1> QED BY <1>1, EmptySeq

LEMMA JoinRuns ==
  ASSUME NEW s, NEW t, NEW lo, NEW mid, NEW hi, IsRun(s, lo, mid), IsRun(t, mid, hi)
  PROVE  IsRun(s \o t, lo, hi)
<1>1. /\ s \in Seq(Nat) /\ t \in Seq(Nat) /\ Len(s) \in Nat /\ Len(t) \in Nat
      /\ lo \in Nat /\ mid = lo + Len(s) /\ hi = mid + Len(t)
  BY RunFacts
<1>2. /\ s \o t \in Seq(Nat) /\ Len(s \o t) = Len(s) + Len(t)
      /\ \A i \in 1 .. Len(s) + Len(t) :
           (s \o t)[i] = IF i <= Len(s) THEN s[i] ELSE t[i - Len(s)]
  BY <1>1, ConcatProperties
<1>3. ASSUME NEW i \in 1 .. Len(s) + Len(t) PROVE (s \o t)[i] = lo + i
  <2>1. CASE i <= Len(s)
    <3>1. i \in 1 .. Len(s)
      BY <1>1, <2>1
    <3> QED BY <1>2, <2>1, <3>1 DEF IsRun
  <2>2. CASE i > Len(s)
    <3>1. i - Len(s) \in 1 .. Len(t)
      BY <1>1, <2>2
    <3>2. t[i - Len(s)] = mid + (i - Len(s))
      BY <3>1 DEF IsRun
    <3>3. ~(i <= Len(s))
      BY <1>1, <2>2
    <3> QED BY <1>1, <1>2, <3>2, <3>3
  <2> QED BY <1>1, <2>1, <2>2
<1> QED BY <1>1, <1>2, <1>3 DEF IsRun

(* A run is cut into two wherever one likes. *)
LEMMA CutRun ==
  ASSUME NEW s, NEW lo, NEW hi, IsRun(s, lo, hi), NEW k \in 0 .. Len(s)
  PROVE  IsRun(First(s, k), lo, lo + k) /\ IsRun(After(s, k), lo + k, hi)
<1>1. /\ s \in Seq(Nat) /\ Len(s) \in Nat /\ lo \in Nat /\ hi = lo + Len(s) /\ k \in Nat
      /\ k <= Len(s)
  BY RunFacts
<1>2. \A i \in 1 .. Len(s) : s[i] \in Nat /\ s[i] = lo + i
  BY <1>1, ElementOfSeq DEF IsRun
<1>3. IsRun(First(s, k), lo, lo + k)
  <2>1. \A i \in 1 .. k : s[i] \in Nat
    BY <1>1, <1>2
  <2>2. /\ SubSeq(s, 1, k) \in Seq(Nat)
        /\ Len(SubSeq(s, 1, k)) = IF 1 <= k THEN k - 1 + 1 ELSE 0
        /\ \A i \in 1 .. k - 1 + 1 : SubSeq(s, 1, k)[i] = s[1 + i - 1]
    BY <1>1, <2>1, SubSeqProperties
  <2>3. Len(SubSeq(s, 1, k)) = k
    BY <1>1, <2>2
  <2>4. ASSUME NEW i \in 1 .. k PROVE SubSeq(s, 1, k)[i] = lo + i
    BY <1>1, <1>2, <2>2
  <2> QED BY <1>1, <2>2, <2>3, <2>4 DEF IsRun, First
<1>4. IsRun(After(s, k), lo + k, hi)
  <2>1. \A i \in k + 1 .. Len(s) : s[i] \in Nat
    BY <1>1, <1>2
  <2>2. /\ SubSeq(s, k + 1, Len(s)) \in Seq(Nat)
        /\ Len(SubSeq(s, k + 1, Len(s))) = IF k + 1 <= Len(s) THEN Len(s) - (k + 1) + 1 ELSE 0
        /\ \A i \in 1 .. Len(s) - (k + 1) + 1 : SubSeq(s, k + 1, Len(s))[i] = s[k + 1 + i - 1]
    BY <1>1, <2>1, SubSeqProperties
  <2>3. Len(SubSeq(s, k + 1, Len(s))) = Len(s) - k
    BY <1>1, <2>2
  <2>4. ASSUME NEW i \in 1 .. Len(s) - k PROVE SubSeq(s, k + 1, Len(s))[i] = lo + k + i
    <3>1. k + 1 + i - 1 \in 1 .. Len(s) /\ i \in 1 .. Len(s) - (k + 1) + 1
      BY <1>1
    <3> QED BY <1>1, <1>2, <2>2, <3>1
  <2>5. lo + k \in Nat /\ hi = (lo + k) + (Len(s) - k)
    BY <1>1
  <2> HIDE DEF IsRun
  <2> DEFINE rest == SubSeq(s, k + 1, Len(s))
  <2>6. IsRun(rest, lo + k, hi)
    BY <2>2, <2>3, <2>4, <2>5 DEF IsRun
  <2> QED BY <2>6 DEF After
<1> QED BY <1>3, <1>4

LEMMA CutSequence ==
  ASSUME NEW s \in Seq(Nat), NEW k \in 0 .. Len(s)
  PROVE  /\ First(s, k) \in Seq(Nat) /\ Len(First(s, k)) = k
         /\ After(s, k) \in Seq(Nat) /\ Len(After(s, k)) = Len(s) - k
<1>1. Len(s) \in Nat /\ k \in Nat /\ k <= Len(s) /\ k + 1 \in Nat
  BY LenProperties
<1>2. \A i \in 1 .. Len(s) : s[i] \in Nat
  BY ElementOfSeq
<1>3. /\ SubSeq(s, 1, k) \in Seq(Nat)
      /\ Len(SubSeq(s, 1, k)) = IF 1 <= k THEN k - 1 + 1 ELSE 0
  <2>1. \A i \in 1 .. k : s[i] \in Nat
    BY <1>1, <1>2
  <2> QED BY <1>1, <2>1, SubSeqProperties
<1>4. /\ SubSeq(s, k + 1, Len(s)) \in Seq(Nat)
      /\ Len(SubSeq(s, k + 1, Len(s))) = IF k + 1 <= Len(s) THEN Len(s) - (k + 1) + 1 ELSE 0
  <2>1. \A i \in k + 1 .. Len(s) : s[i] \in Nat
    BY <1>1, <1>2
  <2> QED BY <1>1, <2>1, SubSeqProperties
<1> QED BY <1>1, <1>3, <1>4 DEF First, After

LEMMA HeadOfRun ==
  ASSUME NEW s, NEW lo, NEW hi, IsRun(s, lo, hi), s # <<>>
  PROVE  /\ Head(s) = lo + 1 /\ IsRun(<<Head(s)>>, lo, lo + 1)
         /\ IsRun(Tail(s), lo + 1, hi) /\ Len(Tail(s)) = Len(s) - 1
<1>1. /\ s \in Seq(Nat) /\ Len(s) \in Nat /\ lo \in Nat /\ hi = lo + Len(s)
  BY RunFacts
<1>2. /\ Len(s) \in Nat \ {0} /\ Head(s) = s[1] /\ Tail(s) \in Seq(Nat)
      /\ Len(Tail(s)) = Len(s) - 1 /\ \A i \in 1 .. Len(Tail(s)) : Tail(s)[i] = s[i + 1]
  BY <1>1, EmptySeq, HeadTailProperties
<1>3. \A i \in 1 .. Len(s) : s[i] = lo + i
  BY DEF IsRun
<1>4. Head(s) = lo + 1
  BY <1>2, <1>3
<1>5. ASSUME NEW i \in 1 .. Len(s) - 1 PROVE Tail(s)[i] = lo + 1 + i
  <2>1. i + 1 \in 1 .. Len(s)
    BY <1>1
  <2> QED BY <1>1, <1>2, <1>3, <2>1
<1>6. lo + 1 \in Nat /\ hi = (lo + 1) + (Len(s) - 1)
  BY <1>1
<1>7. IsRun(Tail(s), lo + 1, hi)
  BY <1>2, <1>5, <1>6 DEF IsRun
<1>8. IsRun(<<lo + 1>>, lo, lo + 1)
  BY <1>1 DEF IsRun
<1> QED BY <1>2, <1>4, <1>7, <1>8

(* The byte that is held back and the bytes behind it. *)
LEMMA HoldBack ==
  ASSUME NEW s, NEW lo, NEW hi, IsRun(s, lo, hi)
  PROVE  /\ \E mid : IsRun(OneOf(s), lo, mid) /\ IsRun(OthersOf(s), mid, hi)
         /\ Len(OneOf(s)) <= 1
         /\ OneOf(s) = <<>> => Len(s) = 0 /\ Len(OthersOf(s)) = 0
         /\ OneOf(s) # <<>> => Len(OthersOf(s)) = Len(s) - 1
         /\ Len(OthersOf(s)) \in Nat /\ Len(OthersOf(s)) <= Len(s)
<1>1. CASE s = <<>>
  <2>1. lo \in Nat /\ hi = lo
    BY <1>1, RunFacts, EmptySeq
  <2>2. OneOf(s) = <<>> /\ OthersOf(s) = <<>> /\ Len(s) = 0
    BY <1>1 DEF OneOf, OthersOf
  <2> QED BY <2>1, <2>2, EmptyRun
<1>2. CASE s # <<>>
  <2>1. /\ IsRun(<<Head(s)>>, lo, lo + 1) /\ IsRun(Tail(s), lo + 1, hi)
        /\ Len(Tail(s)) = Len(s) - 1
    BY <1>2, HeadOfRun
  <2>2. OneOf(s) = <<Head(s)>> /\ OthersOf(s) = Tail(s)
    BY <1>2 DEF OneOf, OthersOf
  <2>3. Len(<<Head(s)>>) = 1 /\ <<Head(s)>> # <<>>
    OBVIOUS
  <2>4. Len(s) \in Nat /\ Len(Tail(s)) \in Nat
    BY <2>1, RunFacts
  <2> QED BY <2>1, <2>2, <2>3, <2>4
<1> QED BY <1>1, <1>2

(* What fits leaves the queue within its capacity. *)
LEMMA FitsFacts ==
  ASSUME NEW s, NEW queue, NEW capacity \in Nat,
         Len(s) \in Nat, Len(queue) \in Nat, Len(queue) <= capacity
  PROVE  /\ Fits(s, queue, capacity) \in 0 .. Len(s)
         /\ Len(queue) + Fits(s, queue, capacity) <= capacity
BY DEF Fits, Less

----------------------------------------------------------------------------
(* The two directions, as chains of runs. *)
Inbound(u, held, n, lo, hi) ==
  \E a, b, c : /\ IsRun(u.rx, lo, a) /\ IsRun(held, a, b)
               /\ IsRun(n.incoming, b, c) /\ IsRun(n.wireIn, c, hi)

Outbound(n, held, u, hi) ==
  \E a, b, c, d, e, f :
    /\ IsRun(n.wireOut, a, b) /\ IsRun(n.outgoing, b, c) /\ IsRun(held, c, d)
    /\ IsRun(u.tx, d, e) /\ IsRun(u.shift, e, f) /\ IsRun(u.buffer, f, hi)

LinkOK(n) ==
  /\ n \in Link
  /\ Len(n.incoming) <= LinkCapacity /\ Len(n.outgoing) <= LinkCapacity
  /\ Len(n.wireOut) <= WireCapacity
  /\ ~Connected(n) => n = NoPeer(n.state)
  /\ n.peer = "gone" => n.wireOut = <<>>

UartOK(u) ==
  /\ u \in Uart
  /\ Len(u.rx) <= UartCapacity /\ Len(u.tx) <= UartCapacity
  /\ Len(u.buffer) <= 1 /\ Len(u.shift) <= 1

(* A full transmit queue of the 8251 never sees a frame complete: with CTS *)
(* active it was emptied when the frames since began, without it no frame  *)
(* begins.                                                                 *)
Paced(u, on, count) ==
  /\ u.cts => Len(u.tx) <= count
  /\ ~u.cts => Len(u.tx) + Len(u.shift) <= UartCapacity
  /\ ~on => u.rx = <<>> /\ Len(u.tx) + Len(u.shift) <= 1

SerialInv ==
  /\ mode \in {"listen", "connect"} /\ stage \in {"frame", "repoll"}
  /\ connected \in BOOLEAN /\ clear \in BOOLEAN /\ done \in 0 .. FrameBytes
  /\ LinkOK(link) /\ UartOK(uart)
  /\ Inbound(uart, pendIn, link, taken, lastIn)
  /\ Outbound(link, pendOut, uart, lastOut)
  /\ Len(pendIn) <= 1 /\ Len(pendOut) <= 1
  /\ connected = Connected(link)
  /\ connected => clear = (pendOut = <<>>)
  /\ ~connected => pendIn = <<>> /\ pendOut = <<>>
  /\ uart.cts = (connected /\ pendOut = <<>>)
  /\ stage = "repoll" => connected /\ done = 0
  /\ Paced(uart, connected, done)

LEMMA Sizes ==
  /\ LinkCapacity \in Nat \ {0} /\ UartCapacity \in Nat \ {0}
  /\ WireCapacity \in Nat \ {0} /\ FrameBytes \in Nat \ {0} /\ FrameBytes <= UartCapacity
BY SerialAssumption

LEMMA LinkFields ==
  ASSUME NEW n, LinkOK(n)
  PROVE  /\ n \in Link
         /\ n.incoming \in Seq(Nat) /\ n.outgoing \in Seq(Nat)
         /\ n.wireIn \in Seq(Nat) /\ n.wireOut \in Seq(Nat)
         /\ Len(n.incoming) \in Nat /\ Len(n.outgoing) \in Nat
         /\ Len(n.wireIn) \in Nat /\ Len(n.wireOut) \in Nat
         /\ Len(n.incoming) <= LinkCapacity /\ Len(n.outgoing) <= LinkCapacity
         /\ Len(n.wireOut) <= WireCapacity
<1>1. n \in Link
  BY DEF LinkOK
<1>2. /\ n.incoming \in Seq(Nat) /\ n.outgoing \in Seq(Nat)
      /\ n.wireIn \in Seq(Nat) /\ n.wireOut \in Seq(Nat)
  BY <1>1 DEF Link
<1> QED BY <1>1, <1>2, LenProperties DEF LinkOK

LEMMA UartFields ==
  ASSUME NEW u, UartOK(u)
  PROVE  /\ u \in Uart /\ u.cts \in BOOLEAN
         /\ u.rx \in Seq(Nat) /\ u.tx \in Seq(Nat)
         /\ u.buffer \in Seq(Nat) /\ u.shift \in Seq(Nat)
         /\ Len(u.rx) \in Nat /\ Len(u.tx) \in Nat
         /\ Len(u.buffer) \in Nat /\ Len(u.shift) \in Nat
<1>1. u \in Uart
  BY DEF UartOK
<1>2. /\ u.rx \in Seq(Nat) /\ u.tx \in Seq(Nat) /\ u.cts \in BOOLEAN
      /\ u.buffer \in Seq(Nat) /\ u.shift \in Seq(Nat)
  BY <1>1 DEF Uart
<1> QED BY <1>1, <1>2, LenProperties

LEMMA NoPeerOK ==
  ASSUME NEW state \in LinkState \ {"connected"}
  PROVE  LinkOK(NoPeer(state)) /\ ~Connected(NoPeer(state))
<1>1. <<>> \in Seq(Nat) /\ Len(<<>>) = 0
  BY EmptySeq
<1>2. NoPeer(state) \in Link /\ NoPeer(state).state = state
  BY <1>1 DEF NoPeer, Link
<1> QED BY <1>1, <1>2, Sizes DEF LinkOK, NoPeer, Connected, LinkState

LEMMA MarkConnectedOK == LinkOK(MarkConnected) /\ Connected(MarkConnected)
<1>1. <<>> \in Seq(Nat) /\ Len(<<>>) = 0
  BY EmptySeq
<1>2. MarkConnected = [state |-> "connected", incoming |-> <<>>, outgoing |-> <<>>,
                       peer |-> "open", wireIn |-> <<>>, wireOut |-> <<>>]
  BY DEF MarkConnected, NoPeer
<1>3. MarkConnected \in Link
  BY <1>1, <1>2 DEF Link, LinkState
<1> QED BY <1>1, <1>2, <1>3, Sizes DEF LinkOK, Connected

(* What poll does to a connection's queues moves no byte out of its place. *)
SameTraffic(n, m) ==
  \A u, held, lo, hi :
    /\ Inbound(u, held, n, lo, hi) => Inbound(u, held, m, lo, hi)
    /\ Outbound(n, held, u, hi) => Outbound(m, held, u, hi)

LEMMA DisconnectOK ==
  ASSUME mode \in {"listen", "connect"}
  PROVE  LinkOK(DisconnectPeer) /\ ~Connected(DisconnectPeer)
BY NoPeerOK DEF DisconnectPeer, LinkState

LEMMA LessFits ==
  ASSUME NEW s, NEW room \in Nat, Len(s) \in Nat
  PROVE  Less(Len(s), room) \in 0 .. Len(s) /\ Less(Len(s), room) <= room
BY DEF Less

LEMMA SendKeeps ==
  ASSUME NEW n, LinkOK(n), Connected(n), NEW m \in SendPending(n),
         mode \in {"listen", "connect"}
  PROVE  /\ LinkOK(m)
         /\ m = DisconnectPeer \/ (Connected(m) /\ SameTraffic(n, m))
<1>1. /\ n \in Link /\ Len(n.outgoing) \in Nat /\ Len(n.outgoing) <= LinkCapacity
      /\ n.outgoing \in Seq(Nat) /\ n.wireOut \in Seq(Nat) /\ Len(n.incoming) <= LinkCapacity
      /\ Len(n.wireOut) \in Nat /\ Len(n.wireOut) <= WireCapacity
  BY LinkFields
<1>2. CASE n.peer = "gone" /\ n.outgoing # <<>>
  <2>1. m \in {[n EXCEPT !.outgoing = <<>>], DisconnectPeer}
    BY <1>2 DEF SendPending
  <2>2. CASE m = [n EXCEPT !.outgoing = <<>>]
    <3>1. /\ m.outgoing = <<>> /\ m.incoming = n.incoming /\ m.wireIn = n.wireIn
          /\ m.wireOut = n.wireOut /\ m.state = n.state /\ m.peer = n.peer
      BY <1>1, <2>2 DEF Link
    <3>2. <<>> \in Seq(Nat) /\ Len(<<>>) = 0
      BY EmptySeq
    <3>3. m \in Link
      BY <1>1, <2>2, <3>2 DEF Link
    <3>4. LinkOK(m) /\ Connected(m)
      BY <3>1, <3>2, <3>3, Sizes DEF LinkOK, Connected
    <3>5. ASSUME NEW u, NEW held, NEW hi, Outbound(n, held, u, hi) PROVE Outbound(m, held, u, hi)
      <4>1. PICK a, b, c, d, e, f :
              /\ IsRun(n.wireOut, a, b) /\ IsRun(n.outgoing, b, c) /\ IsRun(held, c, d)
              /\ IsRun(u.tx, d, e) /\ IsRun(u.shift, e, f) /\ IsRun(u.buffer, f, hi)
        BY <3>5 DEF Outbound
      <4>2. c \in Nat
        BY <4>1, RunFacts
      <4>3. n.wireOut = <<>>
        BY <1>2 DEF LinkOK
      <4>4. IsRun(m.wireOut, c, c) /\ IsRun(m.outgoing, c, c)
        BY <3>1, <4>2, <4>3, EmptyRun
      <4> QED BY <4>1, <4>4 DEF Outbound
    <3>6. \A u, held, lo, hi : Inbound(u, held, n, lo, hi) => Inbound(u, held, m, lo, hi)
      BY <3>1 DEF Inbound
    <3> QED BY <3>4, <3>5, <3>6 DEF SameTraffic
  <2>3. CASE m = DisconnectPeer
    BY <2>3, DisconnectOK
  <2> QED BY <2>1, <2>2, <2>3
<1>3. CASE ~(n.peer = "gone" /\ n.outgoing # <<>>)
  <2> DEFINE k == Less(Len(n.outgoing), WireCapacity - Len(n.wireOut))
             sent == n.wireOut \o First(n.outgoing, k)
             left == After(n.outgoing, k)
  <2>1. m = [n EXCEPT !.outgoing = left, !.wireOut = sent]
    BY <1>3 DEF SendPending
  <2>2. WireCapacity - Len(n.wireOut) \in Nat
    BY <1>1, Sizes
  <2>3. k \in 0 .. Len(n.outgoing) /\ k <= WireCapacity - Len(n.wireOut)
    BY <1>1, <2>2, LessFits
  <2>4. /\ First(n.outgoing, k) \in Seq(Nat) /\ Len(First(n.outgoing, k)) = k
        /\ left \in Seq(Nat) /\ Len(left) = Len(n.outgoing) - k
    BY <1>1, <2>3, CutSequence
  <2>5. sent \in Seq(Nat) /\ Len(sent) = Len(n.wireOut) + k
    <3> DEFINE first == First(n.outgoing, k)
    <3>1. first \in Seq(Nat) /\ Len(first) = k
      BY <2>4
    <3> HIDE DEF first
    <3>2. n.wireOut \o first \in Seq(Nat) /\ Len(n.wireOut \o first) = Len(n.wireOut) + k
      BY <1>1, <3>1, ConcatProperties
    <3> QED BY <3>2 DEF first
  <2> HIDE DEF k, sent, left
  <2>6. n.peer = "gone" => sent = <<>>
    <3>1. SUFFICES ASSUME n.peer = "gone" PROVE sent = <<>>
      OBVIOUS
    <3>2. Len(n.wireOut) = 0 /\ Len(n.outgoing) = 0
      BY <1>3, <3>1, EmptySeq DEF LinkOK
    <3>3. Len(sent) = 0
      BY <2>3, <2>5, <3>2
    <3> QED BY <2>5, <3>3, EmptySeq
  <2>7. /\ m.outgoing = left /\ m.incoming = n.incoming /\ m.wireIn = n.wireIn
        /\ m.wireOut = sent /\ m.state = n.state /\ m.peer = n.peer /\ m \in Link
    BY <1>1, <2>1, <2>4, <2>5 DEF Link
  <2>8. Len(left) <= LinkCapacity /\ Len(sent) <= WireCapacity
    BY <1>1, <2>3, <2>4, <2>5, Sizes
  <2>9. LinkOK(m) /\ Connected(m)
    BY <1>1, <2>6, <2>7, <2>8 DEF LinkOK, Connected
  <2>10. ASSUME NEW u, NEW held, NEW hi, Outbound(n, held, u, hi) PROVE Outbound(m, held, u, hi)
    <3>1. PICK a, b, c, d, e, f :
            /\ IsRun(n.wireOut, a, b) /\ IsRun(n.outgoing, b, c) /\ IsRun(held, c, d)
            /\ IsRun(u.tx, d, e) /\ IsRun(u.shift, e, f) /\ IsRun(u.buffer, f, hi)
      BY <2>10 DEF Outbound
    <3>2. IsRun(First(n.outgoing, k), b, b + k) /\ IsRun(left, b + k, c)
      BY <2>3, <3>1, CutRun DEF left
    <3>3. IsRun(sent, a, b + k)
      BY <3>1, <3>2, JoinRuns DEF sent
    <3> QED BY <2>7, <3>1, <3>2, <3>3 DEF Outbound
  <2>11. \A u, held, lo, hi : Inbound(u, held, n, lo, hi) => Inbound(u, held, m, lo, hi)
    BY <2>7 DEF Inbound
  <2> QED BY <2>9, <2>10, <2>11 DEF SameTraffic
<1> QED BY <1>2, <1>3

LEMMA ReceiveKeeps ==
  ASSUME NEW n, LinkOK(n), Connected(n), mode \in {"listen", "connect"}
  PROVE  LET m == ReceivePending(n)
         IN LinkOK(m) /\ (m = DisconnectPeer \/ (Connected(m) /\ SameTraffic(n, m)))
<1> DEFINE m == ReceivePending(n)
           k == Less(Len(n.wireIn), LinkCapacity - Len(n.incoming))
           come == n.incoming \o First(n.wireIn, k)
           left == After(n.wireIn, k)
           moved == [n EXCEPT !.incoming = come, !.wireIn = left]
<1>1. /\ n \in Link /\ Len(n.incoming) \in Nat /\ Len(n.incoming) <= LinkCapacity
      /\ n.incoming \in Seq(Nat) /\ n.wireIn \in Seq(Nat) /\ Len(n.wireIn) \in Nat
      /\ Len(n.outgoing) <= LinkCapacity /\ Len(n.wireOut) <= WireCapacity
  BY LinkFields
<1>2. m \in {moved, DisconnectPeer}
  BY DEF ReceivePending
<1>3. CASE m = moved
  <2>2. LinkCapacity - Len(n.incoming) \in Nat
    BY <1>1, Sizes
  <2>3. k \in 0 .. Len(n.wireIn) /\ k <= LinkCapacity - Len(n.incoming)
    BY <1>1, <2>2, LessFits
  <2>4. /\ First(n.wireIn, k) \in Seq(Nat) /\ Len(First(n.wireIn, k)) = k
        /\ left \in Seq(Nat)
    BY <1>1, <2>3, CutSequence
  <2>5. come \in Seq(Nat) /\ Len(come) = Len(n.incoming) + k
    BY <1>1, <2>4, ConcatProperties
  <2>6. m = [n EXCEPT !.incoming = come, !.wireIn = left]
    BY <1>3
  <2> HIDE DEF k, come, left, m
  <2>7. /\ m.outgoing = n.outgoing /\ m.incoming = come /\ m.wireIn = left
        /\ m.wireOut = n.wireOut /\ m.state = n.state /\ m.peer = n.peer /\ m \in Link
    BY <1>1, <2>6, <2>4, <2>5 DEF Link
  <2>8. Len(come) <= LinkCapacity
    BY <1>1, <2>3, <2>5, Sizes
  <2>9. LinkOK(m) /\ Connected(m)
    BY <1>1, <2>7, <2>8 DEF LinkOK, Connected
  <2>10. ASSUME NEW u, NEW held, NEW lo, NEW hi, Inbound(u, held, n, lo, hi)
         PROVE  Inbound(u, held, m, lo, hi)
    <3>1. PICK a, b, c : /\ IsRun(u.rx, lo, a) /\ IsRun(held, a, b)
                         /\ IsRun(n.incoming, b, c) /\ IsRun(n.wireIn, c, hi)
      BY <2>10 DEF Inbound
    <3>2. IsRun(First(n.wireIn, k), c, c + k) /\ IsRun(left, c + k, hi)
      BY <2>3, <3>1, CutRun DEF left
    <3>3. IsRun(come, b, c + k)
      BY <3>1, <3>2, JoinRuns DEF come
    <3> QED BY <2>7, <3>1, <3>2, <3>3 DEF Inbound
  <2>11. \A u, held, hi : Outbound(n, held, u, hi) => Outbound(m, held, u, hi)
    BY <2>7 DEF Outbound
  <2>12. SameTraffic(n, m)
    BY <2>10, <2>11 DEF SameTraffic
  <2> QED BY <2>9, <2>12 DEF m
<1>4. CASE m = DisconnectPeer
  BY <1>4, DisconnectOK
<1> QED BY <1>2, <1>3, <1>4

(* Between two links without a connection, and from such a link to a new   *)
(* connection, no byte is under way.                                       *)
LEMMA NoTraffic ==
  ASSUME NEW n, NEW m, LinkOK(n), ~Connected(n), LinkOK(m), ~Connected(m) \/ m = MarkConnected
  PROVE  SameTraffic(n, m)
<1>1. /\ n.incoming = <<>> /\ n.outgoing = <<>> /\ n.wireIn = <<>> /\ n.wireOut = <<>>
  BY DEF LinkOK, NoPeer
<1>2. /\ m.incoming = <<>> /\ m.outgoing = <<>> /\ m.wireIn = <<>> /\ m.wireOut = <<>>
  BY DEF LinkOK, NoPeer, MarkConnected
<1> QED BY <1>1, <1>2 DEF SameTraffic, Inbound, Outbound

LEMMA PolledLink ==
  ASSUME NEW n, LinkOK(n), NEW m \in Polled(n), mode \in {"listen", "connect"}
  PROVE  /\ LinkOK(m)
         /\ Connected(m) \/ ~Connected(n) => SameTraffic(n, m)
<1>1. n.state \in LinkState
  BY LinkFields DEF Link
<1>2. /\ LinkOK(NoPeer("connecting")) /\ ~Connected(NoPeer("connecting"))
      /\ LinkOK(ScheduleReconnect) /\ ~Connected(ScheduleReconnect)
      /\ LinkOK(MarkConnected) /\ Connected(MarkConnected)
  BY NoPeerOK, MarkConnectedOK DEF LinkState, ScheduleReconnect
<1>3. CASE ~Connected(n)
  <2>1. m \in {n, MarkConnected, ScheduleReconnect, NoPeer("connecting")}
    BY <1>1, <1>3 DEF Polled, LinkState, Connected
  <2>2. LinkOK(m) /\ (~Connected(m) \/ m = MarkConnected)
    <3>1. CASE m = n
      BY <1>3, <3>1
    <3>2. CASE m = MarkConnected
      BY <1>2, <3>2
    <3>3. CASE m = ScheduleReconnect
      BY <1>2, <3>3
    <3>4. CASE m = NoPeer("connecting")
      BY <1>2, <3>4
    <3> QED BY <2>1, <3>1, <3>2, <3>3, <3>4
  <2> QED BY <1>3, <2>2, NoTraffic
<1>4. CASE Connected(n)
  <2>1. PICK sent \in SendPending(n) : m = ReceivePending(sent)
    BY <1>4 DEF Polled, Connected
  <2>2. LinkOK(sent) /\ (sent = DisconnectPeer \/ (Connected(sent) /\ SameTraffic(n, sent)))
    BY <1>4, SendKeeps
  <2>3. CASE sent = DisconnectPeer
    <3>1. ~Connected(sent) /\ LinkOK(sent)
      BY <2>3, DisconnectOK
    <3>2. m = sent
      BY <2>1, <3>1 DEF ReceivePending
    <3> QED BY <1>4, <3>1, <3>2
  <2>4. CASE Connected(sent) /\ SameTraffic(n, sent)
    <3>1. LinkOK(m) /\ (m = DisconnectPeer \/ (Connected(m) /\ SameTraffic(sent, m)))
      BY <2>1, <2>2, <2>4, ReceiveKeeps
    <3>2. SameTraffic(sent, m) => SameTraffic(n, m)
      BY <2>4 DEF SameTraffic
    <3>3. m = DisconnectPeer => ~Connected(m)
      BY DisconnectOK
    <3> QED BY <1>4, <3>1, <3>2, <3>3
  <2> QED BY <2>2, <2>3, <2>4
<1> QED BY <1>3, <1>4

----------------------------------------------------------------------------
(* The steps. *)
LEMMA InitEstablishes == Init => SerialInv
<1> SUFFICES ASSUME Init PROVE SerialInv
  OBVIOUS
<1>1. <<>> \in Seq(Nat) /\ Len(<<>>) = 0
  BY EmptySeq
<1>2. LinkOK(link) /\ mode \in {"listen", "connect"}
  BY NoPeerOK, MarkConnectedOK DEF Init, ScheduleReconnect, LinkState
<1>3. /\ link.incoming = <<>> /\ link.outgoing = <<>>
      /\ link.wireIn = <<>> /\ link.wireOut = <<>>
  BY DEF Init, NoPeer, MarkConnected, ScheduleReconnect
<1>4. uart = [rx |-> <<>>, tx |-> <<>>, buffer |-> <<>>, shift |-> <<>>, cts |-> connected]
  BY DEF Init, Port!Empty
<1>5. connected \in BOOLEAN /\ clear = TRUE /\ connected = Connected(link)
  BY DEF Init, Connected
<1>6. UartOK(uart)
  BY <1>1, <1>4, <1>5, Sizes DEF UartOK, Uart
<1>7. IsRun(<<>>, 0, 0)
  BY EmptyRun
<1>8. Inbound(uart, pendIn, link, taken, lastIn) /\ Outbound(link, pendOut, uart, lastOut)
  BY <1>3, <1>4, <1>7 DEF Inbound, Outbound, Init
<1>9. Paced(uart, connected, done)
  BY <1>1, <1>4, Sizes DEF Paced, Init
<1>10. /\ stage = "frame" /\ pendIn = <<>> /\ pendOut = <<>> /\ done = 0 /\ clear
       /\ uart.cts = connected /\ Len(pendIn) <= 1 /\ Len(pendOut) <= 1
  BY <1>1, <1>4 DEF Init
<1>11. done \in 0 .. FrameBytes
  BY <1>10, Sizes
<1> QED BY <1>2, <1>5, <1>6, <1>8, <1>9, <1>10, <1>11 DEF SerialInv

LEMMA WriteKeeps == SerialInv /\ UartWrite => SerialInv'
<1> SUFFICES ASSUME SerialInv, UartWrite PROVE SerialInv'
  OBVIOUS
<1>1. UartOK(uart) /\ uart \in Uart
  BY UartFields DEF SerialInv
<1>2. PICK a, b, c, d, e, f :
        /\ IsRun(link.wireOut, a, b) /\ IsRun(link.outgoing, b, c) /\ IsRun(pendOut, c, d)
        /\ IsRun(uart.tx, d, e) /\ IsRun(uart.shift, e, f) /\ IsRun(uart.buffer, f, lastOut)
  BY DEF SerialInv, Outbound
<1>3. f \in Nat /\ lastOut = f
  BY <1>2, RunFacts, EmptySeq DEF UartWrite
<1> DEFINE next == <<lastOut + 1>>
<1>4. next \in Seq(Nat) /\ Len(next) = 1
  BY <1>3
<1>5. IsRun(next, f, lastOut')
  BY <1>3, <1>4 DEF IsRun, UartWrite
<1>6. uart' = [uart EXCEPT !.buffer = next]
  BY DEF UartWrite
<1> HIDE DEF next
<1>7. /\ uart' \in Uart /\ uart'.rx = uart.rx /\ uart'.tx = uart.tx
      /\ uart'.shift = uart.shift /\ uart'.buffer = next /\ uart'.cts = uart.cts
  BY <1>1, <1>4, <1>6 DEF Uart
<1>8. UartOK(uart') /\ Paced(uart', connected, done)
  <2>1. UartOK(uart')
    <3>1. Len(uart.rx) <= UartCapacity /\ Len(uart.tx) <= UartCapacity /\ Len(uart.shift) <= 1
      BY <1>1 DEF UartOK
    <3>2. Len(uart'.buffer) = 1 /\ 1 <= 1
      BY <1>4, <1>7
    <3> QED BY <1>7, <3>1, <3>2 DEF UartOK
  <2>2. Paced(uart, connected, done)
    BY DEF SerialInv
  <2> QED BY <1>7, <2>1, <2>2 DEF Paced
<1>9. /\ UNCHANGED <<mode, link, stage, connected, clear, pendIn, pendOut, done, lastIn, taken>>
  BY DEF UartWrite, machine
<1>10. Inbound(uart', pendIn, link, taken, lastIn)
  BY <1>7 DEF Inbound, SerialInv
<1>11. Outbound(link, pendOut, uart', lastOut')
  BY <1>2, <1>5, <1>7 DEF Outbound
<1> QED BY <1>7, <1>8, <1>9, <1>10, <1>11 DEF SerialInv

LEMMA AdvanceKeeps == SerialInv /\ AdvanceTransmitter => SerialInv'
<1> SUFFICES ASSUME SerialInv, AdvanceTransmitter PROVE SerialInv'
  OBVIOUS
<1>1. /\ UartOK(uart) /\ uart \in Uart /\ uart.cts \in BOOLEAN
      /\ uart.tx \in Seq(Nat) /\ uart.shift \in Seq(Nat) /\ uart.buffer \in Seq(Nat)
      /\ Len(uart.tx) \in Nat /\ Len(uart.shift) \in Nat /\ Len(uart.buffer) \in Nat
      /\ Len(uart.tx) <= UartCapacity /\ Len(uart.shift) <= 1 /\ Len(uart.buffer) <= 1
  BY UartFields DEF SerialInv, UartOK
<1>2. PICK a, b, c, d, e, f :
        /\ IsRun(link.wireOut, a, b) /\ IsRun(link.outgoing, b, c) /\ IsRun(pendOut, c, d)
        /\ IsRun(uart.tx, d, e) /\ IsRun(uart.shift, e, f) /\ IsRun(uart.buffer, f, lastOut)
  BY DEF SerialInv, Outbound
<1>3. /\ UNCHANGED <<mode, link, stage, connected, clear, pendIn, pendOut, lastIn, lastOut, taken>>
      /\ stage = "frame" /\ done' = done + Len(uart.shift) /\ done \in 0 .. FrameBytes
      /\ uart.shift # <<>> => done < FrameBytes
  BY DEF AdvanceTransmitter, machine, SerialInv
<1>4. done' \in 0 .. FrameBytes
  BY <1>1, <1>3, EmptySeq, Sizes
<1>5. uart.shift # <<>> => Len(uart.tx) < UartCapacity
  <2>1. SUFFICES ASSUME uart.shift # <<>> PROVE Len(uart.tx) < UartCapacity
    OBVIOUS
  <2>2. Len(uart.shift) \in Nat \ {0}
    BY <1>1, <2>1, EmptySeq
  <2>3. Paced(uart, connected, done)
    BY DEF SerialInv
  <2>4. CASE uart.cts
    BY <1>1, <1>3, <2>1, <2>3, <2>4, Sizes DEF Paced
  <2>5. CASE ~uart.cts
    <3>1. Len(uart.tx) + Len(uart.shift) <= UartCapacity
      BY <2>3, <2>5 DEF Paced
    <3>2. \A i, k, m \in Nat : i + k <= m /\ k # 0 => i < m
      OBVIOUS
    <3> QED BY <1>1, <2>2, <3>1, <3>2, Sizes
  <2> QED BY <2>4, <2>5
<1> DEFINE sent == uart.tx \o uart.shift
           u == [uart EXCEPT !.tx = sent, !.shift = <<>>]
<1>6. /\ sent \in Seq(Nat) /\ Len(sent) = Len(uart.tx) + Len(uart.shift)
      /\ Len(sent) <= UartCapacity
  <2>1. sent \in Seq(Nat) /\ Len(sent) = Len(uart.tx) + Len(uart.shift)
    BY <1>1, ConcatProperties
  <2>2. CASE uart.shift = <<>>
    BY <1>1, <2>1, <2>2, EmptySeq
  <2>3. CASE uart.shift # <<>>
    <3>1. \A i, k, m \in Nat : k <= 1 /\ i < m => i + k <= m
      OBVIOUS
    <3> QED BY <1>1, <1>5, <2>1, <2>3, <3>1, Sizes
  <2> QED BY <2>1, <2>2, <2>3
<1>7. Port!Finished(uart) = u
  <2>1. CASE Len(uart.tx) < UartCapacity
    BY <1>1, <2>1 DEF Port!Finished, Uart
  <2>2. CASE ~(Len(uart.tx) < UartCapacity)
    <3>1. uart.shift = <<>>
      BY <1>5, <2>2
    <3>2. sent = uart.tx
      BY <1>1, <3>1, ConcatEmptySeq
    <3> QED BY <1>1, <2>2, <3>2 DEF Port!Finished, Uart
  <2> QED BY <2>1, <2>2
<1>8. IsRun(sent, d, f) /\ IsRun(<<>>, f, f) /\ f \in Nat
  BY <1>2, JoinRuns, RunFacts, EmptyRun
<1> HIDE DEF sent
<1>9. /\ u \in Uart /\ u.rx = uart.rx /\ u.tx = sent /\ u.shift = <<>>
      /\ u.buffer = uart.buffer /\ u.cts = uart.cts
  BY <1>1, <1>6, EmptySeq DEF Uart
<1> HIDE DEF u
<1>10. uart' = Port!Loaded(u)
  BY <1>7 DEF AdvanceTransmitter
<1>11. /\ UartOK(uart') /\ uart'.rx = uart.rx /\ uart'.cts = uart.cts /\ uart'.tx = sent
       /\ uart.cts \/ uart'.shift = <<>>
       /\ IsRun(uart'.shift, f, f + Len(uart'.shift))
       /\ IsRun(uart'.buffer, f + Len(uart'.shift), lastOut)
  <2>1. CASE u.cts /\ u.buffer # <<>>
    <3>1. uart' = [u EXCEPT !.shift = u.buffer, !.buffer = <<>>]
      BY <1>10, <2>1 DEF Port!Loaded, Port!Loads
    <3>2. /\ uart' \in Uart /\ uart'.rx = uart.rx /\ uart'.tx = sent
          /\ uart'.shift = uart.buffer /\ uart'.buffer = <<>> /\ uart'.cts = uart.cts
      BY <1>1, <1>9, <3>1, EmptySeq DEF Uart
    <3>3. lastOut = f + Len(uart.buffer) /\ lastOut \in Nat
      BY <1>2, RunFacts
    <3>4. IsRun(<<>>, lastOut, lastOut) /\ Len(<<>>) = 0
      BY <3>3, EmptyRun
    <3>5. UartOK(uart')
      <4>1. Len(uart'.buffer) <= 1 /\ Len(uart.rx) <= UartCapacity
        BY <1>1, <3>2, <3>4 DEF UartOK
      <4> QED BY <1>1, <1>6, <3>2, <4>1 DEF UartOK
    <3> QED BY <1>2, <1>9, <2>1, <3>2, <3>3, <3>4, <3>5
  <2>2. CASE ~(u.cts /\ u.buffer # <<>>)
    <3>1. uart' = u
      BY <1>10, <2>2 DEF Port!Loaded, Port!Loads
    <3>2. Len(<<>>) = 0 /\ f + 0 = f
      BY <1>8
    <3>5. UartOK(uart')
      <4>1. Len(uart'.shift) <= 1 /\ Len(uart.rx) <= UartCapacity
        BY <1>1, <1>9, <3>1, <3>2 DEF UartOK
      <4> QED BY <1>1, <1>6, <1>9, <3>1, <4>1 DEF UartOK
    <3> QED BY <1>2, <1>8, <1>9, <3>1, <3>2, <3>5
  <2> QED BY <2>1, <2>2
<1>12. Inbound(uart', pendIn, link, taken, lastIn)
  BY <1>11 DEF Inbound, SerialInv
<1>13. Outbound(link, pendOut, uart', lastOut)
  BY <1>2, <1>8, <1>11 DEF Outbound
<1>14. Paced(uart', connected, done')
  <2>1. Paced(uart, connected, done)
    BY DEF SerialInv
  <2>2. CASE uart.cts
    <3>1. connected
      BY <2>2 DEF SerialInv
    <3>2. Len(uart.tx) <= done
      BY <2>1, <2>2 DEF Paced
    <3>3. \A i, k, m \in Nat : i <= m => i + k <= m + k
      OBVIOUS
    <3>4. Len(sent) <= done'
      <4>1. done \in Nat
        BY <1>3, Sizes
      <4>2. Len(uart.tx) + Len(uart.shift) <= done + Len(uart.shift)
        BY <1>1, <3>2, <3>3, <4>1
      <4> QED BY <1>3, <1>6, <4>2
    <3>5. uart'.cts /\ uart'.tx = sent
      BY <1>11, <2>2
    <3> QED BY <3>1, <3>4, <3>5 DEF Paced
  <2>3. CASE ~uart.cts
    <3>1. /\ uart'.shift = <<>> /\ Len(uart'.shift) = 0 /\ uart'.tx = sent
          /\ ~uart'.cts /\ uart'.rx = uart.rx
      BY <1>11, <2>3, EmptySeq
    <3>2. Len(sent) + 0 = Len(uart.tx) + Len(uart.shift)
      BY <1>1, <1>6
    <3> QED BY <2>1, <2>3, <3>1, <3>2 DEF Paced
  <2> QED BY <2>2, <2>3
<1> QED BY <1>3, <1>4, <1>11, <1>12, <1>13, <1>14 DEF SerialInv

LEMMA ReceiveStepKeeps == SerialInv /\ UartReceive => SerialInv'
<1> SUFFICES ASSUME SerialInv, UartReceive PROVE SerialInv'
  OBVIOUS
<1>1. /\ uart \in Uart /\ uart.rx \in Seq(Nat) /\ Len(uart.rx) \in Nat
      /\ Len(uart.rx) <= UartCapacity /\ Len(uart.tx) <= UartCapacity
      /\ Len(uart.shift) <= 1 /\ Len(uart.buffer) <= 1
  BY UartFields DEF SerialInv, UartOK
<1> DEFINE left == Tail(uart.rx)
<1>2. /\ uart.rx # <<>> /\ uart' = [uart EXCEPT !.rx = left] /\ taken' = taken + 1
      /\ UNCHANGED <<mode, link, stage, connected, clear, pendIn, pendOut, done, lastIn, lastOut>>
  BY DEF UartReceive, Port!Receive, machine
<1>3. PICK a, b, c : /\ IsRun(uart.rx, taken, a) /\ IsRun(pendIn, a, b)
                     /\ IsRun(link.incoming, b, c) /\ IsRun(link.wireIn, c, lastIn)
  BY DEF SerialInv, Inbound
<1>4. IsRun(left, taken + 1, a) /\ Len(left) = Len(uart.rx) - 1
  BY <1>2, <1>3, HeadOfRun
<1>5. left \in Seq(Nat) /\ Len(left) <= UartCapacity
  <2>1. left \in Seq(Nat) /\ Len(left) \in Nat
    BY <1>4, RunFacts
  <2> QED BY <1>1, <1>4, <2>1, Sizes
<1> HIDE DEF left
<1>6. /\ uart' \in Uart /\ uart'.rx = left /\ uart'.tx = uart.tx /\ uart'.shift = uart.shift
      /\ uart'.buffer = uart.buffer /\ uart'.cts = uart.cts
  BY <1>1, <1>2, <1>5 DEF Uart
<1>7. UartOK(uart')
  BY <1>1, <1>5, <1>6 DEF UartOK
<1>8. Inbound(uart', pendIn, link, taken', lastIn)
  BY <1>2, <1>3, <1>4, <1>6 DEF Inbound
<1>9. Outbound(link, pendOut, uart', lastOut)
  BY <1>6 DEF Outbound, SerialInv
<1>10. Paced(uart', connected, done)
  <2>1. Paced(uart, connected, done)
    BY DEF SerialInv
  <2>2. connected
    BY <1>2, <2>1 DEF Paced, SerialInv
  <2> QED BY <1>6, <2>1, <2>2 DEF Paced
<1> QED BY <1>2, <1>6, <1>7, <1>8, <1>9, <1>10 DEF SerialInv

LEMMA ResetKeeps == SerialInv /\ Reset => SerialInv'
<1> SUFFICES ASSUME SerialInv, Reset PROVE SerialInv'
  OBVIOUS
<1>1. <<>> \in Seq(Nat) /\ Len(<<>>) = 0
  BY EmptySeq
<1>2. /\ uart' = [rx |-> <<>>, tx |-> <<>>, buffer |-> <<>>, shift |-> <<>>,
                  cts |-> connected /\ clear]
      /\ taken' = taken + Len(uart.rx)
      /\ lastOut' = lastOut - Len(uart.tx \o uart.shift \o uart.buffer)
      /\ UNCHANGED <<mode, link, stage, connected, clear, pendIn, pendOut, done, lastIn>>
  BY DEF Reset, Port!Empty, machine
<1>3. PICK a, b, c : /\ IsRun(uart.rx, taken, a) /\ IsRun(pendIn, a, b)
                     /\ IsRun(link.incoming, b, c) /\ IsRun(link.wireIn, c, lastIn)
  BY DEF SerialInv, Inbound
<1>4. a = taken' /\ a \in Nat
  BY <1>2, <1>3, RunFacts
<1>5. PICK i, j, k, d, e, f :
        /\ IsRun(link.wireOut, i, j) /\ IsRun(link.outgoing, j, k) /\ IsRun(pendOut, k, d)
        /\ IsRun(uart.tx, d, e) /\ IsRun(uart.shift, e, f) /\ IsRun(uart.buffer, f, lastOut)
  BY DEF SerialInv, Outbound
<1>6. d = lastOut' /\ d \in Nat
  <2> DEFINE dropped == uart.tx \o uart.shift \o uart.buffer
  <2>1. IsRun(uart.tx \o uart.shift, d, f)
    BY <1>5, JoinRuns
  <2>2. IsRun(dropped, d, lastOut)
    BY <1>5, <2>1, JoinRuns
  <2>3. lastOut' = lastOut - Len(dropped)
    BY <1>2
  <2> HIDE DEF dropped
  <2> QED BY <2>2, <2>3, RunFacts
<1>7. connected \in BOOLEAN /\ clear \in BOOLEAN
  BY DEF SerialInv
<1> DEFINE on == connected /\ clear
<1>8. on \in BOOLEAN
  BY <1>7
<1>9. uart' = [rx |-> <<>>, tx |-> <<>>, buffer |-> <<>>, shift |-> <<>>, cts |-> on]
  BY <1>2
<1>10. on = (connected /\ pendOut = <<>>)
  BY DEF SerialInv
<1> HIDE DEF on
<1>11. /\ uart' \in Uart /\ uart'.rx = <<>> /\ uart'.tx = <<>> /\ uart'.shift = <<>>
       /\ uart'.buffer = <<>> /\ uart'.cts = on
  BY <1>1, <1>8, <1>9 DEF Uart
<1>12. UartOK(uart')
  BY <1>1, <1>11, Sizes DEF UartOK
<1>13. Inbound(uart', pendIn, link, taken', lastIn)
  BY <1>3, <1>4, <1>11, EmptyRun DEF Inbound
<1>14. Outbound(link, pendOut, uart', lastOut')
  BY <1>5, <1>6, <1>11, EmptyRun DEF Outbound
<1>15. Paced(uart', connected, done)
  <2>1. 0 <= done
    BY Sizes DEF SerialInv
  <2>2. Len(uart'.tx) + Len(uart'.shift) = 0 /\ 0 <= UartCapacity /\ 0 <= 1
    BY <1>1, <1>11, Sizes
  <2> QED BY <1>1, <1>11, <2>1, <2>2 DEF Paced
<1> QED BY <1>2, <1>10, <1>11, <1>12, <1>13, <1>14, <1>15 DEF SerialInv

LEMMA PeerSendKeeps == SerialInv /\ PeerSend => SerialInv'
<1> SUFFICES ASSUME SerialInv, PeerSend PROVE SerialInv'
  OBVIOUS
<1>1. LinkOK(link) /\ link \in Link /\ link.wireIn \in Seq(Nat)
  BY LinkFields DEF SerialInv
<1>2. PICK a, b, c : /\ IsRun(uart.rx, taken, a) /\ IsRun(pendIn, a, b)
                     /\ IsRun(link.incoming, b, c) /\ IsRun(link.wireIn, c, lastIn)
  BY DEF SerialInv, Inbound
<1> DEFINE wire == Append(link.wireIn, lastIn + 1)
<1>3. lastIn \in Nat
  BY <1>2, RunFacts
<1>4. /\ wire \in Seq(Nat)
      /\ IsRun(wire, c, lastIn + 1)
  <2>1. wire = link.wireIn \o <<lastIn + 1>>
    BY <1>1, <1>3, AppendIsConcat
  <2>2. IsRun(<<lastIn + 1>>, lastIn, lastIn + 1)
    BY <1>3 DEF IsRun
  <2>3. IsRun(link.wireIn \o <<lastIn + 1>>, c, lastIn + 1)
    BY <1>2, <2>2, JoinRuns
  <2> QED BY <2>1, <2>3, RunFacts
<1>5. /\ link' = [link EXCEPT !.wireIn = wire] /\ lastIn' = lastIn + 1 /\ link.peer = "open"
      /\ UNCHANGED <<mode, stage, connected, clear, pendIn, pendOut, uart, done, lastOut, taken>>
  BY DEF PeerSend, machine
<1> HIDE DEF wire
<1>6. /\ link' \in Link /\ link'.wireIn = wire /\ link'.incoming = link.incoming
      /\ link'.wireOut = link.wireOut /\ link'.outgoing = link.outgoing
      /\ link'.state = link.state /\ link'.peer = link.peer
  BY <1>1, <1>4, <1>5 DEF Link
<1>7. Connected(link)
  BY <1>1, <1>5 DEF LinkOK, NoPeer
<1>8. LinkOK(link') /\ Connected(link')
  BY <1>1, <1>6, <1>7 DEF LinkOK, Connected
<1>9. Inbound(uart, pendIn, link', taken, lastIn')
  BY <1>2, <1>4, <1>5, <1>6 DEF Inbound
<1>10. Outbound(link', pendOut, uart, lastOut)
  BY <1>6 DEF Outbound, SerialInv
<1> QED BY <1>5, <1>7, <1>8, <1>9, <1>10 DEF SerialInv

LEMMA PeerReceiveKeeps == SerialInv /\ PeerReceive => SerialInv'
<1> SUFFICES ASSUME SerialInv, PeerReceive PROVE SerialInv'
  OBVIOUS
<1>1. /\ LinkOK(link) /\ link \in Link /\ link.wireOut \in Seq(Nat)
      /\ Len(link.wireOut) \in Nat /\ Len(link.wireOut) <= WireCapacity
  BY LinkFields DEF SerialInv
<1>2. PICK a, b, c, d, e, f :
        /\ IsRun(link.wireOut, a, b) /\ IsRun(link.outgoing, b, c) /\ IsRun(pendOut, c, d)
        /\ IsRun(uart.tx, d, e) /\ IsRun(uart.shift, e, f) /\ IsRun(uart.buffer, f, lastOut)
  BY DEF SerialInv, Outbound
<1> DEFINE wire == Tail(link.wireOut)
<1>3. /\ link' = [link EXCEPT !.wireOut = wire] /\ link.wireOut # <<>> /\ link.peer = "open"
      /\ UNCHANGED <<mode, stage, connected, clear, pendIn, pendOut, uart, done,
                     lastIn, lastOut, taken>>
  BY DEF PeerReceive, machine
<1>4. IsRun(wire, a + 1, b) /\ Len(wire) = Len(link.wireOut) - 1
  BY <1>2, <1>3, HeadOfRun
<1>5. wire \in Seq(Nat) /\ Len(wire) <= WireCapacity
  <2>1. wire \in Seq(Nat) /\ Len(wire) \in Nat
    BY <1>4, RunFacts
  <2> QED BY <1>1, <1>4, <2>1, Sizes
<1> HIDE DEF wire
<1>6. /\ link' \in Link /\ link'.wireOut = wire /\ link'.incoming = link.incoming
      /\ link'.wireIn = link.wireIn /\ link'.outgoing = link.outgoing
      /\ link'.state = link.state /\ link'.peer = link.peer
  BY <1>1, <1>3, <1>5 DEF Link
<1>7. Connected(link)
  BY <1>1, <1>3 DEF LinkOK, NoPeer
<1>8. LinkOK(link') /\ Connected(link')
  BY <1>1, <1>3, <1>5, <1>6, <1>7 DEF LinkOK, Connected
<1>9. Inbound(uart, pendIn, link', taken, lastIn)
  BY <1>6 DEF Inbound, SerialInv
<1>10. Outbound(link', pendOut, uart, lastOut)
  BY <1>2, <1>4, <1>6 DEF Outbound
<1> QED BY <1>3, <1>7, <1>8, <1>9, <1>10 DEF SerialInv

LEMMA PeerGoesKeeps == ASSUME NEW lost, SerialInv, PeerGoes(lost) PROVE SerialInv'
<1>1. /\ LinkOK(link) /\ link \in Link /\ link.wireIn \in Seq(Nat) /\ Len(link.wireIn) \in Nat
  BY LinkFields DEF SerialInv
<1>2. PICK a, b, c : /\ IsRun(uart.rx, taken, a) /\ IsRun(pendIn, a, b)
                     /\ IsRun(link.incoming, b, c) /\ IsRun(link.wireIn, c, lastIn)
  BY DEF SerialInv, Inbound
<1>3. PICK i, j, k, d, e, f :
        /\ IsRun(link.wireOut, i, j) /\ IsRun(link.outgoing, j, k) /\ IsRun(pendOut, k, d)
        /\ IsRun(uart.tx, d, e) /\ IsRun(uart.shift, e, f) /\ IsRun(uart.buffer, f, lastOut)
  BY DEF SerialInv, Outbound
<1> DEFINE rest == Len(link.wireIn) - lost
           wire == First(link.wireIn, rest)
<1>4. /\ link' = [link EXCEPT !.peer = "gone", !.wireIn = wire, !.wireOut = <<>>]
      /\ lost \in {0, Len(link.wireIn)} /\ lastIn' = lastIn - lost /\ link.peer = "open"
      /\ UNCHANGED <<mode, stage, connected, clear, pendIn, pendOut, uart, done, lastOut, taken>>
  BY <1>1 DEF PeerGoes, machine, Link
<1>5. rest \in 0 .. Len(link.wireIn)
  BY <1>1, <1>4
<1>6. c \in Nat /\ lastIn = c + Len(link.wireIn)
  BY <1>2, RunFacts
<1>7. IsRun(wire, c, c + rest)
  BY <1>2, <1>5, CutRun
<1>8. lastIn' = c + rest
  BY <1>1, <1>4, <1>6
<1>9. wire \in Seq(Nat) /\ <<>> \in Seq(Nat) /\ Len(<<>>) = 0
  BY <1>7, RunFacts, EmptySeq
<1> HIDE DEF wire, rest
<1>10. /\ link' \in Link /\ link'.wireIn = wire /\ link'.incoming = link.incoming
       /\ link'.wireOut = <<>> /\ link'.outgoing = link.outgoing
       /\ link'.state = link.state
  BY <1>1, <1>4, <1>9 DEF Link
<1>11. Connected(link)
  BY <1>1, <1>4 DEF LinkOK, NoPeer
<1>12. LinkOK(link') /\ Connected(link')
  BY <1>1, <1>9, <1>10, <1>11, Sizes DEF LinkOK, Connected
<1>13. Inbound(uart, pendIn, link', taken, lastIn')
  BY <1>2, <1>7, <1>8, <1>10 DEF Inbound
<1>14. Outbound(link', pendOut, uart, lastOut)
  <2>1. j \in Nat
    BY <1>3, RunFacts
  <2> QED BY <1>3, <1>10, <2>1, EmptyRun DEF Outbound
<1> QED BY <1>4, <1>11, <1>12, <1>13, <1>14 DEF SerialInv

(* The peer has gone: n is a link without a connection. *)
LEMMA UnplugKeeps ==
  ASSUME SerialInv, Unplug, LinkOK(link'), ~Connected(link'), stage' = "frame", done' = 0,
         UNCHANGED <<mode, lastIn, lastOut>>
  PROVE  SerialInv'
<1>1. <<>> \in Seq(Nat) /\ Len(<<>>) = 0
  BY EmptySeq
<1>2. UartOK(uart) /\ uart \in Uart /\ Len(uart.shift) \in Nat
  BY UartFields DEF SerialInv
<1>3. /\ connected' = FALSE /\ clear' = TRUE /\ pendIn' = <<>> /\ pendOut' = <<>>
      /\ uart' = [uart EXCEPT !.cts = FALSE, !.rx = <<>>, !.tx = <<>>] /\ taken' = lastIn
  BY DEF Unplug, Port!Connected
<1>4. /\ uart' \in Uart /\ uart'.rx = <<>> /\ uart'.tx = <<>> /\ uart'.shift = uart.shift
      /\ uart'.buffer = uart.buffer /\ uart'.cts = FALSE
  BY <1>1, <1>2, <1>3 DEF Uart
<1>5. UartOK(uart')
  BY <1>1, <1>2, <1>4, Sizes DEF UartOK
<1>6. /\ link'.incoming = <<>> /\ link'.outgoing = <<>>
      /\ link'.wireIn = <<>> /\ link'.wireOut = <<>>
  BY DEF LinkOK, NoPeer
<1>7. lastIn \in Nat
  BY RunFacts DEF SerialInv, Inbound
<1>8. Inbound(uart', pendIn', link', taken', lastIn')
  BY <1>3, <1>4, <1>6, <1>7, EmptyRun DEF Inbound
<1>9. PICK i, j, k, d, e, f :
        /\ IsRun(link.wireOut, i, j) /\ IsRun(link.outgoing, j, k) /\ IsRun(pendOut, k, d)
        /\ IsRun(uart.tx, d, e) /\ IsRun(uart.shift, e, f) /\ IsRun(uart.buffer, f, lastOut)
  BY DEF SerialInv, Outbound
<1>10. Outbound(link', pendOut', uart', lastOut')
  <2>1. e \in Nat
    BY <1>9, RunFacts
  <2> QED BY <1>3, <1>4, <1>6, <1>9, <2>1, EmptyRun DEF Outbound
<1>11. Paced(uart', FALSE, 0)
  <2>1. Len(uart.shift) <= 1
    BY <1>2 DEF UartOK
  <2>2. 0 + Len(uart.shift) = Len(uart.shift) /\ 1 <= UartCapacity /\ Len(uart.shift) <= UartCapacity
    BY <1>2, <2>1, Sizes
  <2> QED BY <1>1, <1>4, <2>1, <2>2 DEF Paced
<1>12. 0 \in 0 .. FrameBytes /\ Len(<<>>) <= 1
  BY <1>1, Sizes
<1> QED BY <1>3, <1>4, <1>5, <1>8, <1>10, <1>11, <1>12 DEF SerialInv, Connected

(* What fits of the held-back byte and the queue behind it moves on; of    *)
(* the rest the first byte is held back.                                   *)
LEMMA MoveOn ==
  ASSUME NEW held, NEW s, NEW queue, NEW capacity \in Nat \ {0},
         NEW q, NEW a, NEW b, NEW c,
         IsRun(queue, q, a), IsRun(held, a, b), IsRun(s, b, c),
         Len(queue) <= capacity, Len(held) <= 1
  PROVE  LET all == held \o s
             k == Fits(all, queue, capacity)
             moved == queue \o First(all, k)
             left == After(all, k)
         IN /\ \E i, j : /\ IsRun(moved, q, i) /\ IsRun(OneOf(left), i, j)
                         /\ IsRun(OthersOf(left), j, c)
            /\ Len(moved) <= capacity /\ Len(OneOf(left)) <= 1
            /\ Len(OthersOf(left)) <= Len(s)
            /\ OneOf(left) = <<>> => OthersOf(left) = <<>>
            /\ OneOf(left) # <<>> /\ held = <<>> => Len(OthersOf(left)) < Len(s)
<1> DEFINE all == held \o s
           k == Fits(all, queue, capacity)
           moved == queue \o First(all, k)
           left == After(all, k)
<1>1. IsRun(all, a, c)
  BY JoinRuns
<1>2. /\ held \in Seq(Nat) /\ s \in Seq(Nat) /\ queue \in Seq(Nat) /\ all \in Seq(Nat)
      /\ Len(held) \in Nat /\ Len(s) \in Nat /\ Len(queue) \in Nat /\ Len(all) \in Nat
      /\ b = a + Len(held) /\ c = b + Len(s) /\ c = a + Len(all) /\ a \in Nat
  BY <1>1, RunFacts
<1>3. Len(all) = Len(held) + Len(s)
  BY <1>2, ConcatProperties
<1> HIDE DEF all
<1>4. k \in 0 .. Len(all) /\ Len(queue) + k <= capacity
  BY <1>2, FitsFacts
<1> HIDE DEF k
<1>5. IsRun(First(all, k), a, a + k) /\ IsRun(left, a + k, c)
  BY <1>1, <1>4, CutRun
<1>6. IsRun(moved, q, a + k)
  BY <1>5, JoinRuns
<1>7. /\ First(all, k) \in Seq(Nat) /\ Len(First(all, k)) = k
      /\ left \in Seq(Nat) /\ Len(left) = Len(all) - k
  BY <1>2, <1>4, CutSequence
<1>8. Len(moved) = Len(queue) + k
  <2> DEFINE first == First(all, k)
  <2>1. first \in Seq(Nat) /\ Len(first) = k
    BY <1>7
  <2> HIDE DEF first
  <2>2. Len(queue \o first) = Len(queue) + k
    BY <1>2, <2>1, ConcatProperties
  <2> QED BY <2>2 DEF first
<1> HIDE DEF moved, left
<1>9. /\ \E mid : IsRun(OneOf(left), a + k, mid) /\ IsRun(OthersOf(left), mid, c)
      /\ Len(OneOf(left)) <= 1
      /\ OneOf(left) = <<>> => Len(left) = 0 /\ Len(OthersOf(left)) = 0
      /\ OneOf(left) # <<>> => Len(OthersOf(left)) = Len(left) - 1
      /\ Len(OthersOf(left)) \in Nat /\ Len(OthersOf(left)) <= Len(left)
  BY <1>5, HoldBack
<1> DEFINE h == Len(held)
           l == Len(s)
           o == Len(OthersOf(left))
<1>10. o <= l
  <2>1. CASE OneOf(left) = <<>>
    BY <1>2, <1>9, <2>1
  <2>2. CASE OneOf(left) # <<>>
    <3>1. o = h + l - k - 1 /\ h <= 1 /\ h \in Nat /\ l \in Nat /\ k \in Nat
      BY <1>2, <1>3, <1>4, <1>7, <1>9, <2>2
    <3> HIDE DEF h, l, o
    <3> QED BY <3>1
  <2> QED BY <2>1, <2>2
<1>11. OneOf(left) = <<>> => OthersOf(left) = <<>>
  BY <1>9, RunFacts, EmptySeq
<1>12. ASSUME OneOf(left) # <<>>, held = <<>> PROVE o < l
  <2>1. h = 0
    BY <1>12
  <2>2. o = h + l - k - 1 /\ l \in Nat /\ k \in Nat
    <3>1. o = Len(left) - 1 /\ Len(left) = Len(all) - k
      BY <1>7, <1>9, <1>12
    <3>2. Len(all) = h + l /\ h \in Nat /\ l \in Nat /\ Len(all) \in Nat /\ k \in Nat
      BY <1>2, <1>3, <1>4
    <3> HIDE DEF o, h, l
    <3> QED BY <3>1, <3>2
  <2> HIDE DEF h, l, o
  <2> QED BY <2>1, <2>2
<1> QED BY <1>4, <1>6, <1>8, <1>9, <1>10, <1>11, <1>12 DEF all, k, moved, left

LEMMA BridgeKeeps ==
  ASSUME SerialInv, NEW n, LinkOK(n), Connected(n),
         Inbound(uart, pendIn, n, taken, lastIn), Outbound(n, pendOut, uart, lastOut),
         Bridge(n), stage' = "repoll", done' = 0, UNCHANGED <<mode, lastIn, lastOut>>
  PROVE  SerialInv'
<1> DEFINE u == IF connected THEN uart ELSE Port!Connected(uart, TRUE)
           in == pendIn \o n.incoming
           inFits == Fits(in, u.rx, UartCapacity)
           out == pendOut \o u.tx
           outFits == Fits(out, n.outgoing, LinkCapacity)
           rx == u.rx \o First(in, inFits)
           incoming == OthersOf(After(in, inFits))
           outgoing == n.outgoing \o First(out, outFits)
           tx == OthersOf(After(out, outFits))
           heldIn == OneOf(After(in, inFits))
           heldOut == OneOf(After(out, outFits))
           cts == ClearToSend(heldOut)
<1>1. /\ UartOK(uart) /\ uart \in Uart /\ Len(uart.shift) \in Nat /\ Len(uart.tx) \in Nat
      /\ Len(uart.rx) <= UartCapacity /\ Len(uart.tx) <= UartCapacity
      /\ Len(uart.shift) <= 1 /\ Len(uart.buffer) <= 1
  BY UartFields DEF SerialInv, UartOK
<1>2. u \in Uart /\ u.rx = uart.rx /\ u.tx = uart.tx /\ u.shift = uart.shift
      /\ u.buffer = uart.buffer
  BY <1>1 DEF Port!Connected, Uart
<1>3. /\ n \in Link /\ Len(n.incoming) <= LinkCapacity /\ Len(n.outgoing) <= LinkCapacity
  BY LinkFields
<1>4. /\ connected' = TRUE /\ pendIn' = heldIn /\ pendOut' = heldOut
      /\ clear' = ClearToSend(pendOut') /\ taken' = taken
      /\ link' = [n EXCEPT !.incoming = incoming, !.outgoing = outgoing]
      /\ uart' = [u EXCEPT !.rx = rx, !.tx = tx, !.cts = cts]
  BY <1>2, <1>3 DEF Bridge, Uart, Link
<1>5. cts = (heldOut = <<>>) /\ cts \in BOOLEAN
  BY DEF ClearToSend
<1>6. Len(pendIn) <= 1 /\ Len(pendOut) <= 1
  BY DEF SerialInv
<1>7. PICK a, b, c : /\ IsRun(u.rx, taken, a) /\ IsRun(pendIn, a, b)
                     /\ IsRun(n.incoming, b, c) /\ IsRun(n.wireIn, c, lastIn)
  BY <1>2 DEF Inbound
<1>8. PICK i, j, k, d, e, f :
        /\ IsRun(n.wireOut, i, j) /\ IsRun(n.outgoing, j, k) /\ IsRun(pendOut, k, d)
        /\ IsRun(u.tx, d, e) /\ IsRun(u.shift, e, f) /\ IsRun(u.buffer, f, lastOut)
  BY <1>2 DEF Outbound
<1>9. /\ \E x, y : IsRun(rx, taken, x) /\ IsRun(heldIn, x, y) /\ IsRun(incoming, y, c)
      /\ Len(rx) <= UartCapacity /\ Len(heldIn) <= 1 /\ Len(incoming) <= Len(n.incoming)
  <2>1. Len(u.rx) <= UartCapacity
    BY <1>1, <1>2
  <2> QED BY <1>6, <1>7, <2>1, Sizes, MoveOn
<1>10. /\ \E x, y : IsRun(outgoing, j, x) /\ IsRun(heldOut, x, y) /\ IsRun(tx, y, e)
       /\ Len(outgoing) <= LinkCapacity /\ Len(heldOut) <= 1 /\ Len(tx) <= Len(u.tx)
       /\ heldOut = <<>> => tx = <<>>
       /\ heldOut # <<>> /\ pendOut = <<>> => Len(tx) < Len(u.tx)
  BY <1>3, <1>6, <1>8, Sizes, MoveOn
<1> HIDE DEF u, rx, incoming, outgoing, tx, heldIn, heldOut, cts
<1>11. /\ rx \in Seq(Nat) /\ incoming \in Seq(Nat) /\ outgoing \in Seq(Nat) /\ tx \in Seq(Nat)
       /\ Len(incoming) \in Nat /\ Len(tx) \in Nat
  BY <1>9, <1>10, RunFacts
<1>12. /\ uart' \in Uart /\ uart'.rx = rx /\ uart'.tx = tx /\ uart'.shift = uart.shift
       /\ uart'.buffer = uart.buffer /\ uart'.cts = cts
  BY <1>2, <1>4, <1>5, <1>11 DEF Uart
<1>13. /\ link' \in Link /\ link'.incoming = incoming /\ link'.outgoing = outgoing
       /\ link'.wireIn = n.wireIn /\ link'.wireOut = n.wireOut
       /\ link'.state = n.state /\ link'.peer = n.peer
  BY <1>3, <1>4, <1>11 DEF Link
<1>14. Len(tx) <= UartCapacity /\ Len(incoming) <= LinkCapacity
  <2>1. \A x, y, z \in Nat : x <= y /\ y <= z => x <= z
    OBVIOUS
  <2>2. Len(n.incoming) \in Nat
    BY LinkFields
  <2> QED BY <1>1, <1>2, <1>3, <1>9, <1>10, <1>11, <2>1, <2>2, Sizes
<1>15. UartOK(uart')
  BY <1>1, <1>9, <1>12, <1>14 DEF UartOK
<1>16. LinkOK(link') /\ Connected(link')
  BY <1>10, <1>13, <1>14 DEF LinkOK, Connected
<1>17. Inbound(uart', pendIn', link', taken', lastIn')
  BY <1>4, <1>7, <1>9, <1>12, <1>13 DEF Inbound
<1>18. Outbound(link', pendOut', uart', lastOut')
  BY <1>2, <1>4, <1>8, <1>10, <1>12, <1>13 DEF Outbound
<1>19. Paced(uart', TRUE, 0)
  <2>1. CASE heldOut = <<>>
    <3>1. uart'.cts /\ uart'.tx = <<>>
      BY <1>5, <1>10, <1>12, <2>1
    <3>2. Len(<<>>) = 0 /\ 0 <= 0
      BY EmptySeq
    <3> QED BY <3>1, <3>2 DEF Paced
  <2>2. CASE heldOut # <<>>
    <3>1. ~uart'.cts
      BY <1>5, <1>12, <2>2
    <3>2. Len(tx) + Len(uart.shift) <= UartCapacity
      <4>1. CASE pendOut = <<>>
        <5>1. \A x, y, z, s \in Nat : x < y /\ y <= z /\ s <= 1 => x + s <= z
          OBVIOUS
        <5> QED BY <1>1, <1>2, <1>10, <1>11, <2>2, <4>1, <5>1, Sizes
      <4>2. CASE pendOut # <<>>
        <5>1. ~uart.cts
          BY <4>2 DEF SerialInv
        <5>2. Len(uart.tx) + Len(uart.shift) <= UartCapacity
          BY <5>1 DEF SerialInv, Paced
        <5>3. \A x, y, z, s \in Nat : x <= y /\ y + s <= z => x + s <= z
          OBVIOUS
        <5> QED BY <1>1, <1>2, <1>10, <1>11, <5>2, <5>3, Sizes
      <4> QED BY <4>1, <4>2
    <3> QED BY <1>12, <3>1, <3>2 DEF Paced
  <2> QED BY <2>1, <2>2
<1>20. /\ Len(pendIn') <= 1 /\ Len(pendOut') <= 1 /\ clear' = (pendOut' = <<>>)
       /\ uart'.cts = (pendOut' = <<>>) /\ 0 \in 0 .. FrameBytes /\ clear' \in BOOLEAN
  BY <1>4, <1>5, <1>9, <1>10, <1>12, Sizes DEF ClearToSend
<1> QED BY <1>4, <1>15, <1>16, <1>17, <1>18, <1>19, <1>20 DEF SerialInv, Connected

LEMMA SynchronizeKeeps == SerialInv /\ Synchronize => SerialInv'
<1> SUFFICES ASSUME SerialInv, Synchronize PROVE SerialInv'
  OBVIOUS
<1>1. /\ LinkOK(link) /\ mode \in {"listen", "connect"} /\ connected = Connected(link)
      /\ Inbound(uart, pendIn, link, taken, lastIn) /\ Outbound(link, pendOut, uart, lastOut)
  BY DEF SerialInv
<1>2. PICK n \in Polled(link) :
        IF Connected(n)
        THEN Bridge(n) /\ stage' = "repoll"
        ELSE /\ link' = n /\ stage' = "frame"
             /\ IF connected THEN Unplug ELSE UNCHANGED <<machine, uart, taken>>
  BY DEF Synchronize
<1>3. done' = 0 /\ UNCHANGED <<mode, lastIn, lastOut>>
  BY DEF Synchronize
<1>4. LinkOK(n) /\ (Connected(n) \/ ~Connected(link) => SameTraffic(link, n))
  BY <1>1, <1>2, PolledLink
<1>5. CASE Connected(n)
  <2>1. Inbound(uart, pendIn, n, taken, lastIn) /\ Outbound(n, pendOut, uart, lastOut)
    BY <1>1, <1>4, <1>5 DEF SameTraffic
  <2> QED BY <1>2, <1>3, <1>4, <1>5, <2>1, BridgeKeeps
<1>6. CASE ~Connected(n) /\ connected
  BY <1>2, <1>3, <1>4, <1>6, UnplugKeeps
<1>7. CASE ~Connected(n) /\ ~connected
  <2>1. /\ link' = n /\ stage' = "frame"
        /\ UNCHANGED <<connected, clear, pendIn, pendOut, uart, taken>>
    BY <1>2, <1>7 DEF machine
  <2>2. Inbound(uart, pendIn, n, taken, lastIn) /\ Outbound(n, pendOut, uart, lastOut)
    BY <1>1, <1>4, <1>7 DEF SameTraffic
  <2>3. 0 \in 0 .. FrameBytes
    BY Sizes
  <2>4. Paced(uart, connected, 0)
    BY <1>7 DEF SerialInv, Paced
  <2>5. Connected(n) = FALSE /\ connected = FALSE
    BY <1>7 DEF Connected, SerialInv
  <2> QED BY <1>3, <1>4, <2>1, <2>2, <2>3, <2>4, <2>5 DEF SerialInv
<1> QED BY <1>5, <1>6, <1>7

LEMMA RepollKeeps == SerialInv /\ Repoll => SerialInv'
<1> SUFFICES ASSUME SerialInv, Repoll PROVE SerialInv'
  OBVIOUS
<1>1. /\ LinkOK(link) /\ mode \in {"listen", "connect"} /\ connected = Connected(link)
      /\ Inbound(uart, pendIn, link, taken, lastIn) /\ Outbound(link, pendOut, uart, lastOut)
  BY DEF SerialInv
<1>2. /\ stage' = "frame" /\ done' = 0 /\ done = 0 /\ connected = TRUE
      /\ UNCHANGED <<mode, lastIn, lastOut>>
  BY DEF Repoll, SerialInv
<1>3. /\ link' \in Polled(link)
      /\ IF connected # Connected(link') THEN Unplug
         ELSE UNCHANGED <<machine, uart, taken>>
  BY DEF Repoll
<1>4. LinkOK(link') /\ (Connected(link') \/ ~Connected(link) => SameTraffic(link, link'))
  BY <1>1, <1>3, PolledLink
<1>5. CASE ~Connected(link')
  BY <1>2, <1>3, <1>4, <1>5, UnplugKeeps
<1>6. CASE Connected(link')
  <2>1. Inbound(uart, pendIn, link', taken, lastIn) /\ Outbound(link', pendOut, uart, lastOut)
    BY <1>1, <1>4, <1>6 DEF SameTraffic
  <2>2. connected = Connected(link')
    BY <1>2, <1>6 DEF Connected
  <2>3. UNCHANGED <<connected, clear, pendIn, pendOut, uart, taken>>
    BY <1>3, <2>2 DEF machine
  <2> QED BY <1>2, <1>4, <2>1, <2>2, <2>3 DEF SerialInv
<1> QED BY <1>5, <1>6

LEMMA Keeps == SerialInv /\ [Next]_vars => SerialInv'
<1> SUFFICES ASSUME SerialInv, [Next]_vars PROVE SerialInv'
  OBVIOUS
<1>1. CASE Synchronize BY <1>1, SynchronizeKeeps
<1>2. CASE Repoll BY <1>2, RepollKeeps
<1>3. CASE UartWrite BY <1>3, WriteKeeps
<1>4. CASE AdvanceTransmitter BY <1>4, AdvanceKeeps
<1>5. CASE UartReceive BY <1>5, ReceiveStepKeeps
<1>6. CASE Reset BY <1>6, ResetKeeps
<1>7. CASE PeerSend BY <1>7, PeerSendKeeps
<1>8. CASE PeerReceive BY <1>8, PeerReceiveKeeps
<1>9. CASE \E lost \in 0 .. WireCapacity : PeerGoes(lost)
  <2>1. PICK lost \in 0 .. WireCapacity : PeerGoes(lost)
    BY <1>9
  <2> QED BY <2>1, PeerGoesKeeps
<1>10. CASE UNCHANGED vars
  <2>1. UNCHANGED <<mode, link, stage, connected, clear, pendIn, pendOut, uart, done,
                    lastIn, lastOut, taken>>
    BY <1>10 DEF vars
  <2> QED BY <2>1 DEF SerialInv
<1> QED BY <1>1, <1>2, <1>3, <1>4, <1>5, <1>6, <1>7, <1>8, <1>9, <1>10 DEF Next

----------------------------------------------------------------------------
(* A chain is one run, and a run is the function the property names. *)
LEMMA RunIs ==
  ASSUME NEW s, NEW lo, NEW hi, IsRun(s, lo, hi)
  PROVE  s = [n \in 1 .. hi - lo |-> lo + n]
<1>1. s \in Seq(Nat) /\ Len(s) \in Nat /\ lo \in Nat /\ hi - lo = Len(s)
  BY RunFacts
<1>2. s \in [1 .. Len(s) -> Nat]
  BY <1>1, LenProperties
<1>3. \A n \in 1 .. Len(s) : s[n] = lo + n
  BY DEF IsRun
<1> QED BY <1>1, <1>2, <1>3

LEMMA InvImpliesOrder == SerialInv => BytesInOrder
<1> SUFFICES ASSUME SerialInv PROVE BytesInOrder
  OBVIOUS
<1>1. InFlight = [n \in 1 .. lastIn - taken |-> taken + n]
  <2>1. PICK a, b, c : /\ IsRun(uart.rx, taken, a) /\ IsRun(pendIn, a, b)
                       /\ IsRun(link.incoming, b, c) /\ IsRun(link.wireIn, c, lastIn)
    BY DEF SerialInv, Inbound
  <2>2. IsRun(uart.rx \o pendIn, taken, b)
    BY <2>1, JoinRuns
  <2>3. IsRun(uart.rx \o pendIn \o link.incoming, taken, c)
    BY <2>1, <2>2, JoinRuns
  <2>4. IsRun(InFlight, taken, lastIn)
    BY <2>1, <2>3, JoinRuns DEF InFlight
  <2> QED BY <2>4, RunIs
<1>2. OutFlight = [n \in 1 .. Len(OutFlight) |-> lastOut - Len(OutFlight) + n]
  <2>1. PICK a, b, c, d, e, f :
          /\ IsRun(link.wireOut, a, b) /\ IsRun(link.outgoing, b, c) /\ IsRun(pendOut, c, d)
          /\ IsRun(uart.tx, d, e) /\ IsRun(uart.shift, e, f) /\ IsRun(uart.buffer, f, lastOut)
    BY DEF SerialInv, Outbound
  <2>2. IsRun(link.wireOut \o link.outgoing, a, c)
    BY <2>1, JoinRuns
  <2>3. IsRun(link.wireOut \o link.outgoing \o pendOut, a, d)
    BY <2>1, <2>2, JoinRuns
  <2>4. IsRun(link.wireOut \o link.outgoing \o pendOut \o uart.tx, a, e)
    BY <2>1, <2>3, JoinRuns
  <2>5. IsRun(link.wireOut \o link.outgoing \o pendOut \o uart.tx \o uart.shift, a, f)
    BY <2>1, <2>4, JoinRuns
  <2>6. IsRun(OutFlight, a, lastOut)
    BY <2>1, <2>5, JoinRuns DEF OutFlight
  <2>7. a \in Nat /\ Len(OutFlight) \in Nat /\ lastOut = a + Len(OutFlight)
    BY <2>6, RunFacts
  <2>8. lastOut - a = Len(OutFlight) /\ lastOut - Len(OutFlight) = a
    BY <2>7
  <2>9. OutFlight = [n \in 1 .. lastOut - a |-> a + n]
    BY <2>6, RunIs
  <2> QED BY <2>8, <2>9
<1> QED BY <1>1, <1>2 DEF BytesInOrder

LEMMA InvImpliesPacing == SerialInv => CtsFollowsBridge
<1> SUFFICES ASSUME SerialInv PROVE CtsFollowsBridge
  OBVIOUS
<1>1. /\ UartOK(uart) /\ uart \in Uart /\ LinkOK(link) /\ link \in Link
      /\ Len(uart.tx) \in Nat /\ Len(uart.shift) \in Nat
  BY LinkFields, UartFields DEF SerialInv
<1>2. pendIn \in Seq(Nat) /\ pendOut \in Seq(Nat)
  BY RunFacts DEF SerialInv, Inbound, Outbound
<1>3. done \in Nat
  BY Sizes DEF SerialInv
<1>4. TypeOK
  BY <1>1, <1>2, <1>3 DEF TypeOK, SerialInv, LinkOK, UartOK
<1>5. ~connected => uart.rx = <<>> /\ Len(uart.tx) <= 1
  <2>1. ~connected => uart.rx = <<>> /\ Len(uart.tx) + Len(uart.shift) <= 1
    BY DEF SerialInv, Paced
  <2>2. \A x, y \in Nat : x + y <= 1 => x <= 1
    OBVIOUS
  <2> QED BY <1>1, <2>1, <2>2
<1>6. /\ uart.cts = (connected /\ pendOut = <<>>)
      /\ ~connected => pendIn = <<>> /\ pendOut = <<>>
  BY DEF SerialInv
<1> QED BY <1>4, <1>5, <1>6 DEF CtsFollowsBridge

(* Whatever the sizes of the queues, the peer's bytes and the program's    *)
(* pass the bridge in order, none lost, repeated or left over from an      *)
(* earlier connection, and CTS paces the program (synchronize_serial in    *)
(* src/src/frontend/main.cpp, TcpSerialLink::poll).                        *)
THEOREM AlwaysFaithful == Spec => []BridgeIsFaithful
<1>1. Init => SerialInv
  BY InitEstablishes
<1>2. SerialInv /\ [Next]_vars => SerialInv'
  BY Keeps
<1>3. SerialInv => BridgeIsFaithful
  BY InvImpliesOrder, InvImpliesPacing DEF BridgeIsFaithful
<1> QED BY <1>1, <1>2, <1>3, PTL DEF Spec
=============================================================================
