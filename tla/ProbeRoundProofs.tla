-------------------------- MODULE ProbeRoundProofs --------------------------
(***************************************************************************)
(* What a round counts, how late a reply may be and how long a round takes, *)
(* for any number of packets, any gap and timeout, and any network.         *)
(***************************************************************************)
EXTENDS ProbeRound, FiniteSetTheorems, TLAPS

\* Packet s of the current round has had its turn.
HadTurn(s) == s < i \/ (s = i /\ pc = "window")

Places ==
    /\ pc = "send" => i =< Packets
    /\ pc \in {"window", "tcp", "dial"} => i < Packets
    /\ pc = "tail" => i = Packets
    /\ pc = "sleep" => i + 1 < Packets
    /\ pc # "idle" => nonce > 0
    /\ pc \in {"tcp", "dial", "sleep"} => type = "tcp"
    /\ pc \in {"send", "window", "tail"} => type = "icmp"
    /\ pc \in {"window", "tail", "dial", "sleep"} => now =< deadline

\* What is on the network.
SentByUs ==
    /\ sent \subseteq [nonce : Nat, seq : Seqs, at : Nat]
    /\ \A p \in sent : p.nonce > 0 /\ p.nonce =< nonce
    /\ Open => \A p \in sent : p.nonce = nonce => HadTurn(p.seq)

\* The socket is drained before time goes on.
JustIn ==
    /\ Open \/ inbox = << >>
    /\ \A k \in DOMAIN inbox :
          /\ inbox[k].at = now
          /\ inbox[k].reply /\ inbox[k].nonce = nonce => inbox[k].seq \in Seqs /\ HadTurn(inbox[k].seq)

\* A sample's packet has had its turn, so that its send time stays.
Counted ==
    /\ pc # "idle" => \A s \in got : s < i \/ (s = i /\ pc \in {"window", "sleep"})
    /\ \A k \in DOMAIN ms : ms[k].from.seq \in got

\* How late each stage of an ICMP round and of a TCP round may be.
OnTime ==
    /\ \A s \in Seqs : sendAt[s] =< now
    /\ pc = "send" => /\ now =< began + i * Gap
                      /\ \A s \in Seqs : s < i => now =< sendAt[s] + (i - s) * Gap
    /\ pc = "window" => /\ deadline =< began + (i + 1) * Gap
                        /\ \A s \in Seqs : s =< i => deadline =< sendAt[s] + ((i + 1) - s) * Gap
    /\ pc = "tail" => /\ deadline =< began + Packets * Gap + Timeout
                      /\ \A s \in Seqs : deadline =< sendAt[s] + (Packets - s) * Gap + Timeout
    /\ pc = "tcp" => now =< began + i * (Timeout + Gap)
    /\ pc = "dial" => /\ deadline =< began + i * (Timeout + Gap) + Timeout
                      /\ deadline = sendAt[i] + Timeout
    /\ pc = "sleep" => deadline =< began + (i + 1) * (Timeout + Gap)

\* Where a reply that arrived in this round is.
Accounted(m) ==
    \/ m.seq \in got
    \/ \E k \in DOMAIN inbox : inbox[k] = m
    \/ pc = "idle" /\ m.at >= deadline

NoneMissed ==
    /\ pc \in {"tcp", "dial", "sleep"} => arrived = {}
    /\ ~broken => \A m \in arrived : m.reply /\ m.nonce = nonce => Accounted(m)

IInv ==
    /\ TypeOK /\ SamplesTrue /\ Lateness
    /\ Places /\ SentByUs /\ JustIn /\ Counted /\ OnTime /\ NoneMissed
-----------------------------------------------------------------------------
(***************************************************************************)
(* Arithmetic.                                                              *)
(***************************************************************************)
LEMMA Times ==
    ASSUME NEW x \in Nat, NEW y \in Nat, NEW g \in Nat
    PROVE  /\ x * g \in Nat /\ (x + 1) * g = x * g + g
           /\ x =< y => x * g =< y * g
           /\ 0 * g = 0 /\ 1 * g = g
<1>1. x * g \in Nat /\ (x + 1) * g = x * g + g /\ 0 * g = 0 /\ 1 * g = g
  OBVIOUS
<1>2. ASSUME x =< y PROVE x * g =< y * g
  <2> DEFINE d == y - x
  <2>1. d \in Nat /\ y = x + d
    BY <1>2
  <2>2. y * g = x * g + d * g
    BY <2>1
  <2>3. d * g \in Nat
    BY <2>1
  <2> QED
    BY <2>2, <2>3, <1>1
<1> QED
  BY <1>1, <1>2

LEMMA Sizes ==
    /\ Packets \in Nat /\ Packets > 0 /\ Gap \in Nat /\ Timeout \in Nat /\ Timeout > 0
    /\ Timeout + Gap \in Nat
    /\ Seqs \subseteq Nat /\ \A s \in Seqs : s < Packets
    /\ \A s \in Nat : s < Packets => s \in Seqs
    /\ IsFiniteSet(Seqs)
<1>1. Packets \in Nat /\ Packets > 0 /\ Gap \in Nat /\ Timeout \in Nat /\ Timeout > 0
  BY ProbeRoundAssumption
<1>2. IsFiniteSet(Seqs)
  BY <1>1, FS_Interval DEF Seqs
<1> QED
  BY <1>1, <1>2 DEF Seqs

\* One more packet answered is one more sample.
LEMMA OneMore ==
    ASSUME NEW G \in SUBSET Seqs, NEW s \in Seqs \ G
    PROVE  /\ Cardinality(G) \in Nat
           /\ Cardinality(G \cup {s}) = Cardinality(G) + 1
BY Sizes, FS_Subset, FS_CardinalityType, FS_AddElement
-----------------------------------------------------------------------------
LEMMA InitIInv == Init => IInv
<1> SUFFICES ASSUME Init PROVE IInv
  OBVIOUS
<1> USE Sizes DEF Init
<1>1. TypeOK
  <2>1. NotSent \in [Seqs -> Nat] /\ Cardinality({}) = 0 /\ << >> \in Seq(Message)
    BY FS_EmptySet DEF NotSent
  <2>2. << >> \in Seq([rtt : Nat, from : Message]) /\ Len(<< >>) = 0
    OBVIOUS
  <2>3. {now, i, deadline, began, arrivals, nonce} \subseteq Nat
    OBVIOUS
  <2>4. Len(ms) = Cardinality(got)
    BY <2>1, <2>2
  <2>5. sendAt \in [Seqs -> Nat] /\ got \subseteq Seqs /\ inbox \in Seq(Message) /\ arrived \subseteq Message
    BY <2>1
  <2>6. ms \in Seq([rtt : Nat, from : Message])
    BY <2>2
  <2> QED
    BY <2>3, <2>4, <2>5, <2>6 DEF TypeOK
<1>2. SamplesTrue /\ Lateness
  BY DEF SamplesTrue, Lateness, Samples
<1>3. Places /\ SentByUs /\ JustIn /\ Counted /\ OnTime /\ NoneMissed
  BY DEF Places, SentByUs, JustIn, Counted, OnTime, NoneMissed, Open, NotSent
<1> QED
  BY <1>1, <1>2, <1>3 DEF IInv

LEMMA BeginKeeps ==
    ASSUME IInv, NEW t \in {"icmp", "tcp"}, Begin(t)
    PROVE  IInv'
<1>1. /\ type' = t /\ nonce' = nonce + 1 /\ nonce \in Nat /\ now \in Nat
      /\ i' = 0 /\ sendAt' = NotSent /\ got' = {} /\ ms' = << >>
      /\ inbox' = << >> /\ began' = now /\ broken' = FALSE /\ arrived' = {}
      /\ pc' \in {IF t = "tcp" THEN "tcp" ELSE "send", "idle"}
      /\ UNCHANGED << now, deadline, sent, arrivals >>
  BY DEF Begin, IInv, TypeOK
<1>2. TypeOK'
  <2>1. NotSent \in [Seqs -> Nat] /\ Cardinality({}) = 0 /\ << >> \in Seq(Message)
    BY FS_EmptySet DEF NotSent
  <2>2. << >> \in Seq([rtt : Nat, from : Message]) /\ Len(<< >>) = 0
    OBVIOUS
  <2>3. {now', i', deadline', began', arrivals', nonce'} \subseteq Nat
    BY <1>1 DEF IInv, TypeOK
  <2>4. Len(ms') = Cardinality(got')
    BY <1>1, <2>1, <2>2
  <2>5. /\ sendAt' \in [Seqs -> Nat] /\ got' \subseteq Seqs /\ inbox' \in Seq(Message)
        /\ arrived' \subseteq Message /\ broken' \in BOOLEAN
    BY <1>1, <2>1
  <2>6. ms' \in Seq([rtt : Nat, from : Message])
    BY <1>1, <2>2
  <2> QED
    BY <1>1, <2>3, <2>4, <2>5, <2>6 DEF TypeOK
<1>3. SamplesTrue' /\ Lateness'
  BY <1>1 DEF SamplesTrue, Lateness, Samples
<1>4. Places' /\ JustIn' /\ Counted' /\ NoneMissed'
  BY <1>1, Sizes DEF Places, JustIn, Counted, NoneMissed, Open
<1>5. SentByUs'
  BY <1>1, Sizes DEF SentByUs, IInv, Open
<1>6. OnTime'
  BY <1>1, Sizes, Times DEF OnTime, NotSent
<1> QED
  BY <1>2, <1>3, <1>4, <1>5, <1>6 DEF IInv

LEMMA Typed ==
    ASSUME IInv
    PROVE  /\ now \in Nat /\ i \in Nat /\ deadline \in Nat /\ began \in Nat /\ nonce \in Nat /\ arrivals \in Nat
           /\ sendAt \in [Seqs -> Nat] /\ got \subseteq Seqs /\ broken \in BOOLEAN
           /\ ms \in Seq([rtt : Nat, from : Message]) /\ Len(ms) = Cardinality(got)
           /\ inbox \in Seq(Message) /\ arrived \subseteq Message
           /\ type \in {"icmp", "tcp"}
           /\ pc \in {"idle", "send", "window", "tail", "tcp", "dial", "sleep"}
BY DEF IInv, TypeOK

LEMMA SendKeeps ==
    ASSUME IInv, Send
    PROVE  IInv'
<1>1. /\ pc = "send" /\ i < Packets /\ i \in Nat /\ i \in Seqs /\ now \in Nat /\ nonce \in Nat
      /\ sendAt' = [sendAt EXCEPT ![i] = now]
      /\ UNCHANGED << now, type, nonce, got, ms, inbox, began, arrived, broken, arrivals >>
  BY Typed, Sizes DEF Send
<1>2. \/ pc' = "window" /\ i' = i /\ deadline' = now + Gap
         /\ sent' = sent \cup {[nonce |-> nonce, seq |-> i, at |-> now]}
      \/ pc' = pc /\ i' = i + 1 /\ deadline' = deadline /\ sent' = sent
  BY DEF Send
<1>3. sendAt' \in [Seqs -> Nat] /\ \A s \in Seqs : sendAt'[s] = IF s = i THEN now ELSE sendAt[s]
  BY <1>1, Typed
<1>4. nonce > 0 /\ \A s \in got : s < i
  BY <1>1 DEF IInv, Places, Counted
<1>5. TypeOK'
  <2>1. {now', i', deadline', began', arrivals', nonce'} \subseteq Nat
    BY <1>1, <1>2, Typed, Sizes
  <2> QED
    BY <2>1, <1>1, <1>2, <1>3, Typed DEF TypeOK
<1>6. \A k \in DOMAIN ms : /\ ms[k].from.seq \in got
                           /\ sendAt'[ms[k].from.seq] = sendAt[ms[k].from.seq]
  <2>1. \A k \in DOMAIN ms : ms[k].from.seq \in got
    BY DEF IInv, Counted
  <2> QED
    BY <2>1, <1>1, <1>3, <1>4, Typed, Sizes
<1>7. SamplesTrue' /\ Lateness'
  BY <1>1, <1>6 DEF IInv, SamplesTrue, Lateness, Samples
<1>8. Places'
  <2>1. type = "icmp" /\ type' = type
    BY <1>1 DEF IInv, Places
  <2> QED
    BY <2>1, <1>1, <1>2, <1>4, Sizes DEF Places
<1>9. \A s \in Nat : /\ s < i => s < i'
                     /\ HadTurn(s) => HadTurn(s)'
  BY <1>1, <1>2 DEF HadTurn
<1>10. SentByUs'
  <2> DEFINE new == [nonce |-> nonce, seq |-> i, at |-> now]
  <2>1. /\ sent \subseteq [nonce : Nat, seq : Seqs, at : Nat]
        /\ \A p \in sent : p.nonce > 0 /\ p.nonce =< nonce
        /\ \A p \in sent : p.nonce = nonce => HadTurn(p.seq)
    BY <1>1 DEF IInv, SentByUs, Open
  <2>2. \A p \in sent : p.nonce = nonce => HadTurn(p.seq)'
    BY <2>1, <1>9, Sizes
  <2>3. CASE pc' = "window"
    <3>1. sent' = sent \cup {new} /\ i' = i
      BY <2>3, <1>1, <1>2
    <3>2. HadTurn(i)'
      BY <2>3, <3>1 DEF HadTurn
    <3>3. new \in [nonce : Nat, seq : Seqs, at : Nat] /\ new.nonce = nonce /\ new.seq = i
      BY <1>1
    <3>4. nonce > 0 /\ nonce =< nonce
      BY <1>1, <1>4
    <3>5. \A p \in sent' : p.nonce = nonce => HadTurn(p.seq)'
      BY <2>2, <3>1, <3>2, <3>3, <1>1 DEF HadTurn
    <3> QED
      BY <2>1, <3>1, <3>3, <3>4, <3>5, <1>1 DEF SentByUs
  <2>4. CASE sent' = sent
    BY <2>1, <2>2, <2>4, <1>1 DEF SentByUs
  <2> QED
    BY <2>3, <2>4, <1>2
<1>11. JustIn'
  BY <1>1, <1>2, <1>9, Sizes DEF IInv, JustIn, Open
<1>12. Counted'
  <2>1. \A s \in got : s < i'
    BY <1>4, <1>9, Typed, Sizes
  <2> QED
    BY <2>1, <1>1, <1>6 DEF Counted
<1>13. OnTime'
  <2>1. /\ now =< began + i * Gap
        /\ \A s \in Seqs : s < i => now =< sendAt[s] + (i - s) * Gap
    BY <1>1 DEF IInv, OnTime
  <2>2. i * Gap \in Nat /\ (i + 1) * Gap = i * Gap + Gap
    BY <1>1, Times, Sizes
  <2>3. \A s \in Seqs : s =< i => now + Gap =< sendAt'[s] + ((i + 1) - s) * Gap
    <3> SUFFICES ASSUME NEW s \in Seqs, s =< i
                 PROVE  now + Gap =< sendAt'[s] + ((i + 1) - s) * Gap
      OBVIOUS
    <3>1. CASE s = i
      <4>1. (i + 1) - s = 1 /\ 1 * Gap = Gap
        BY <3>1, <1>1, Sizes
      <4>2. ((i + 1) - s) * Gap = Gap
        BY <4>1
      <4> QED
        BY <3>1, <4>2, <1>1, <1>3, Sizes
    <3>2. CASE s < i
      <4> DEFINE d == i - s
      <4>1. d \in Nat /\ (i + 1) - s = d + 1
        BY <3>2, <1>1, Sizes
      <4>2. (d + 1) * Gap = d * Gap + Gap /\ d * Gap \in Nat
        BY <4>1, Times, Sizes
      <4>3. ((i + 1) - s) * Gap = (i - s) * Gap + Gap
        BY <4>1, <4>2
      <4>4. now =< sendAt[s] + (i - s) * Gap /\ sendAt'[s] = sendAt[s] /\ sendAt[s] \in Nat
        BY <3>2, <2>1, <1>1, <1>3, Typed, Sizes
      <4> QED
        BY <4>2, <4>3, <4>4, <1>1, Sizes
    <3> QED
      BY <3>1, <3>2, <1>1, Sizes
  <2>6. \A s \in Seqs : sendAt'[s] =< now'
    BY <1>1, <1>3 DEF IInv, OnTime
  <2>4. CASE pc' = "window"
    <3>1. i' = i /\ deadline' = now + Gap /\ began' = began /\ began \in Nat
      BY <2>4, <1>1, <1>2, Typed
    <3>2. deadline' =< began + (i + 1) * Gap
      BY <3>1, <2>1, <2>2, <1>1, Sizes
    <3> QED
      BY <2>3, <2>4, <2>6, <3>1, <3>2 DEF OnTime
  <2>5. CASE pc' = "send"
    <3>1. i' = i + 1 /\ began' = began /\ began \in Nat /\ now' = now
      BY <2>5, <1>1, <1>2, Typed
    <3>2. now =< began + (i + 1) * Gap
      BY <3>1, <2>1, <2>2, <1>1, Sizes
    <3>3. \A s \in Seqs : s < i + 1 => now =< sendAt'[s] + ((i + 1) - s) * Gap
      <4> SUFFICES ASSUME NEW s \in Seqs, s < i + 1
                   PROVE  now =< sendAt'[s] + ((i + 1) - s) * Gap
        OBVIOUS
      <4>1. s =< i /\ s \in Nat
        BY <1>1, Sizes
      <4>2. now + Gap =< sendAt'[s] + ((i + 1) - s) * Gap
        BY <4>1, <2>3
      <4>3. (i + 1) - s \in Nat /\ ((i + 1) - s) * Gap \in Nat
        BY <4>1, <1>1, Times, Sizes
      <4> QED
        BY <4>2, <4>3, <1>1, <1>3, Sizes
    <3> QED
      BY <2>5, <2>6, <3>1, <3>2, <3>3 DEF OnTime
  <2> QED
    BY <2>4, <2>5, <1>1, <1>2
<1>14. NoneMissed'
  BY <1>1, <1>2 DEF IInv, NoneMissed, Accounted
<1> QED
  BY <1>5, <1>7, <1>8, <1>10, <1>11, <1>12, <1>13, <1>14 DEF IInv

LEMMA TailWindowKeeps ==
    ASSUME IInv, TailWindow
    PROVE  IInv'
<1>1. /\ pc = "send" /\ i = Packets /\ pc' = "tail" /\ deadline' = now + Timeout
      /\ UNCHANGED << now, type, nonce, i, sendAt, got, ms, inbox, began, sent, arrived, broken, arrivals >>
  BY DEF TailWindow
<1>2. TypeOK'
  <2>1. deadline' \in Nat
    BY <1>1, Typed, Sizes
  <2> QED
    BY <2>1, <1>1, Typed DEF TypeOK
<1>3. SamplesTrue' /\ Lateness'
  BY <1>1 DEF IInv, SamplesTrue, Lateness, Samples
<1>4. Places'
  BY <1>1, Typed, Sizes DEF IInv, Places
<1>5. SentByUs' /\ JustIn' /\ Counted' /\ NoneMissed'
  BY <1>1 DEF IInv, SentByUs, JustIn, Counted, NoneMissed, Accounted, Open, HadTurn
<1>6. OnTime'
  <2>1. /\ now =< began + Packets * Gap
        /\ \A s \in Seqs : now =< sendAt[s] + (Packets - s) * Gap
    BY <1>1, Sizes DEF IInv, OnTime
  <2>2. Packets * Gap \in Nat /\ \A s \in Seqs : (Packets - s) * Gap \in Nat /\ sendAt[s] \in Nat
    <3>1. \A s \in Seqs : Packets - s \in Nat
      BY Sizes
    <3> QED
      BY <3>1, Times, Sizes, Typed
  <2>3. now + Timeout =< began + Packets * Gap + Timeout
    BY <2>1, <2>2, Sizes, Typed
  <2>4. \A s \in Seqs : now + Timeout =< sendAt[s] + (Packets - s) * Gap + Timeout
    BY <2>1, <2>2, Sizes, Typed
  <2> QED
    BY <2>3, <2>4, <1>1 DEF IInv, OnTime
<1> QED
  BY <1>2, <1>3, <1>4, <1>5, <1>6 DEF IInv

\* A window ends, at its deadline or on a receive error.
LEMMA ReturnKeeps ==
    ASSUME IInv, pc \in {"window", "tail"}, Return,
           UNCHANGED << now, type, nonce, sendAt, got, ms, deadline, began, sent, arrived, arrivals >>,
           broken' = TRUE \/ (now >= deadline /\ broken' = broken)
    PROVE  IInv'
<1>1. \/ pc = "window" /\ pc' = "send" /\ i' = i + 1 /\ inbox' = inbox
      \/ pc = "tail" /\ pc' = "idle" /\ i' = i /\ inbox' = << >>
  BY DEF Return
<1>2. TypeOK'
  <2>1. i' \in Nat
    BY <1>1, Typed
  <2>2. inbox' \in Seq(Message)
    <3>1. << >> \in Seq(Message)
      OBVIOUS
    <3> QED
      BY <1>1, <3>1, Typed
  <2>3. broken' \in BOOLEAN
    BY Typed
  <2> QED
    BY <2>1, <2>2, <2>3, <1>1, Typed DEF TypeOK
<1>3. SamplesTrue' /\ Lateness'
  BY DEF IInv, SamplesTrue, Lateness, Samples
<1>4. Places'
  <2>1. pc = "window" => i < Packets /\ i \in Nat
    BY Typed DEF IInv, Places
  <2> QED
    BY <1>1, <2>1, Sizes DEF IInv, Places
<1>5. \A s \in Nat : HadTurn(s) /\ pc = "window" => HadTurn(s)' /\ s < i + 1
  BY <1>1, Typed DEF HadTurn
<1>6. SentByUs'
  BY <1>1, <1>5, Sizes DEF IInv, SentByUs, Open
<1>7. JustIn'
  <2>1. \A k \in DOMAIN inbox :
          /\ inbox[k].at = now
          /\ inbox[k].reply /\ inbox[k].nonce = nonce => inbox[k].seq \in Seqs /\ HadTurn(inbox[k].seq)
    BY DEF IInv, JustIn
  <2>2. CASE pc = "tail"
    BY <2>2, <1>1 DEF JustIn, Open
  <2>3. CASE pc = "window"
    <3>1. inbox' = inbox /\ pc' = "send"
      BY <2>3, <1>1
    <3>2. \A s \in Seqs : HadTurn(s) => HadTurn(s)'
      BY <2>3, <1>5, Sizes
    <3> QED
      BY <2>1, <3>1, <3>2 DEF JustIn, Open
  <2> QED
    BY <2>2, <2>3
<1>8. Counted'
  <2>1. ASSUME pc = "window", NEW s \in got PROVE s < i + 1
    <3>1. s < i \/ s = i
      BY <2>1 DEF IInv, Counted
    <3>2. s \in Nat /\ i \in Nat
      BY Typed, Sizes
    <3> QED
      BY <3>1, <3>2
  <2> QED
    BY <1>1, <2>1 DEF IInv, Counted
<1>9. OnTime'
  <2>1. CASE pc = "window"
    <3>1. /\ now =< deadline /\ deadline =< began + (i + 1) * Gap
          /\ \A s \in Seqs : s =< i => deadline =< sendAt[s] + ((i + 1) - s) * Gap
      BY <2>1 DEF IInv, Places, OnTime
    <3>2. i + 1 \in Nat /\ (i + 1) * Gap \in Nat
      BY Typed, Times, Sizes
    <3>3. now =< began + (i + 1) * Gap
      BY <3>1, <3>2, Typed
    <3>4. ASSUME NEW s \in Seqs, s < i + 1
          PROVE  now =< sendAt[s] + ((i + 1) - s) * Gap
      <4>1. s =< i /\ (i + 1) - s \in Nat /\ sendAt[s] \in Nat
        BY <3>4, Typed, Sizes
      <4>2. ((i + 1) - s) * Gap \in Nat
        BY <4>1, Times, Sizes
      <4> QED
        BY <3>1, <4>1, <4>2, Typed
    <3> QED
      BY <1>1, <2>1, <3>3, <3>4 DEF IInv, OnTime
  <2>2. CASE pc = "tail"
    BY <1>1, <2>2 DEF IInv, OnTime
  <2> QED
    BY <2>1, <2>2
<1>10. NoneMissed'
  <2>1. CASE broken'
    BY <1>1, <2>1 DEF NoneMissed
  <2>2. CASE ~broken'
    <3>1. /\ now >= deadline /\ ~broken
          /\ \A m \in arrived : m.reply /\ m.nonce = nonce =>
                m.seq \in got \/ \E k \in DOMAIN inbox : inbox[k] = m
      BY <2>2 DEF IInv, NoneMissed, Accounted
    <3>2. \A k \in DOMAIN inbox : inbox[k].at >= deadline
      BY <3>1 DEF IInv, JustIn
    <3>3. \A m \in arrived : m.reply /\ m.nonce = nonce => Accounted(m)'
      BY <1>1, <3>1, <3>2 DEF Accounted
    <3> QED
      BY <1>1, <3>3 DEF NoneMissed
  <2> QED
    BY <2>1, <2>2
<1> QED
  BY <1>2, <1>3, <1>4, <1>6, <1>7, <1>8, <1>9, <1>10 DEF IInv

\* A reply that is read before the deadline.
LEMMA NotTooLate ==
    ASSUME IInv, pc \in {"window", "tail"}, now < deadline,
           NEW s \in Seqs, HadTurn(s)
    PROVE  now - sendAt[s] =< Timeout + (Packets - s) * Gap
<1>1. /\ s \in Nat /\ s < Packets /\ Packets - s \in Nat /\ (Packets - s) * Gap \in Nat
      /\ sendAt[s] \in Nat /\ now \in Nat /\ deadline \in Nat /\ i \in Nat
  <2>1. s \in Nat /\ s < Packets /\ Packets - s \in Nat
    BY Sizes
  <2> QED
    BY <2>1, Times, Sizes, Typed
<1>2. CASE pc = "tail"
  <2>1. deadline =< sendAt[s] + (Packets - s) * Gap + Timeout
    BY <1>2 DEF IInv, OnTime
  <2> QED
    BY <2>1, <1>1, Sizes
<1>3. CASE pc = "window"
  <2>1. s =< i /\ i < Packets
    BY <1>1, <1>3 DEF HadTurn, IInv, Places
  <2>2. deadline =< sendAt[s] + ((i + 1) - s) * Gap
    BY <1>3, <2>1 DEF IInv, OnTime
  <2>3. (i + 1) - s \in Nat /\ (i + 1) - s =< Packets - s
    BY <2>1, <1>1, Sizes
  <2>4. ((i + 1) - s) * Gap =< (Packets - s) * Gap /\ ((i + 1) - s) * Gap \in Nat
    BY <2>3, <1>1, Times, Sizes
  <2> QED
    BY <2>2, <2>4, <1>1, Sizes
<1> QED
  BY <1>2, <1>3

LEMMA ReceiveKeeps ==
    ASSUME IInv, Receive
    PROVE  IInv'
<1> DEFINE m == Head(inbox)
<1>1. /\ pc \in {"window", "tail"} /\ now < deadline /\ inbox # << >>
      /\ inbox' = Tail(inbox) /\ deadline' = deadline
      /\ UNCHANGED << now, type, pc, nonce, i, sendAt, began, sent, arrived, broken, arrivals >>
  BY DEF Receive, Extended
<1>2. /\ inbox \in Seq(Message) /\ Len(inbox) > 0 /\ DOMAIN inbox = 1 .. Len(inbox)
      /\ m = inbox[1] /\ m \in Message /\ inbox' \in Seq(Message)
      /\ DOMAIN inbox' = 1 .. Len(inbox) - 1
      /\ \A k \in DOMAIN inbox' : k + 1 \in DOMAIN inbox /\ inbox'[k] = inbox[k + 1]
  BY <1>1, Typed
<1>3. /\ m.at = now
      /\ m.reply /\ m.nonce = nonce => m.seq \in Seqs /\ HadTurn(m.seq)
  BY <1>2 DEF IInv, JustIn
<1>4. \/ Counts(m) /\ got' = got \cup {m.seq} /\ ms' = Append(ms, [rtt |-> Rtt(m), from |-> m])
      \/ ~Counts(m) /\ got' = got /\ ms' = ms
  BY DEF Receive
<1>5. Places' /\ SentByUs' /\ OnTime'
  BY <1>1 DEF IInv, Places, SentByUs, OnTime, Open, HadTurn
<1>6. JustIn'
  BY <1>1, <1>2 DEF IInv, JustIn, Open, HadTurn
<1>7. NoneMissed'
  <2>1. CASE broken
    BY <1>1, <2>1 DEF NoneMissed
  <2>2. ASSUME ~broken, NEW a \in arrived, a.reply, a.nonce = nonce
        PROVE  Accounted(a)'
    <3>1. a.seq \in got \/ \E k \in DOMAIN inbox : inbox[k] = a
      BY <2>2, <1>1 DEF IInv, NoneMissed, Accounted
    <3>2. got \subseteq got'
      BY <1>4
    <3>3. CASE a.seq \in got
      BY <3>2, <3>3 DEF Accounted
    <3>4. CASE \E k \in DOMAIN inbox : inbox[k] = a
      <4>1. PICK k \in DOMAIN inbox : inbox[k] = a
        BY <3>4
      <4>2. CASE k = 1
        <5>1. a = m
          BY <4>1, <4>2, <1>2
        <5>2. a.seq \in got'
          BY <5>1, <2>2, <1>3, <1>4 DEF Counts
        <5> QED
          BY <5>2 DEF Accounted
      <4>3. CASE k # 1
        <5>1. k - 1 \in DOMAIN inbox' /\ inbox'[k - 1] = a
          BY <4>1, <4>3, <1>1, <1>2
        <5> QED
          BY <5>1 DEF Accounted
      <4> QED
        BY <4>2, <4>3
    <3> QED
      BY <3>1, <3>3, <3>4
  <2>3. pc \notin {"tcp", "dial", "sleep"}
    BY <1>1
  <2> QED
    BY <2>1, <2>2, <2>3, <1>1 DEF NoneMissed
<1>8. CASE ~Counts(m)
  <2>1. got' = got /\ ms' = ms
    BY <1>4, <1>8
  <2>2. TypeOK'
    BY <2>1, <1>1, <1>2, Typed DEF TypeOK
  <2>3. SamplesTrue' /\ Lateness' /\ Counted'
    BY <2>1, <1>1 DEF IInv, SamplesTrue, Lateness, Samples, Counted
  <2> QED
    BY <2>2, <2>3, <1>5, <1>6, <1>7 DEF IInv
<1>9. CASE Counts(m)
  <2> DEFINE new == [rtt |-> Rtt(m), from |-> m]
  <2>1. /\ got' = got \cup {m.seq} /\ ms' = Append(ms, new)
        /\ m.reply /\ m.nonce = nonce /\ m.seq \in Seqs /\ m.seq \notin got /\ HadTurn(m.seq)
    BY <1>3, <1>4, <1>9 DEF Counts
  <2>2. /\ sendAt[m.seq] \in Nat /\ sendAt[m.seq] =< now
        /\ new.rtt = now - sendAt[m.seq] /\ new.from = m
    BY <2>1, Typed DEF Rtt, IInv, OnTime
  <2>3. new \in [rtt : Nat, from : Message]
    BY <2>2, <1>2, Typed
  <2>4. /\ ms' \in Seq([rtt : Nat, from : Message]) /\ Len(ms') = Len(ms) + 1
        /\ DOMAIN ms = 1 .. Len(ms) /\ DOMAIN ms' = 1 .. Len(ms) + 1
        /\ ms'[Len(ms) + 1] = new /\ \A k \in 1 .. Len(ms) : ms'[k] = ms[k]
    BY <2>1, <2>3, Typed
  <2>5. TypeOK'
    <3>1. got' \subseteq Seqs
      BY <2>1, Typed
    <3>2. Len(ms') = Cardinality(got')
      BY <2>1, <2>4, OneMore, Typed
    <3> QED
      BY <3>1, <3>2, <2>4, <1>1, <1>2, Typed DEF TypeOK
  <2>6. Samples' = Samples \cup {new}
    BY <2>4 DEF Samples
  <2>7. SamplesTrue'
    BY <2>1, <2>2, <2>6, <1>1, <1>3 DEF IInv, SamplesTrue
  <2>8. now - sendAt[m.seq] =< Timeout + (Packets - m.seq) * Gap
    BY <2>1, <1>1, NotTooLate
  <2>9. Lateness'
    <3>1. type = "icmp" /\ type' = type
      BY <1>1 DEF IInv, Places
    <3> QED
      BY <2>2, <2>6, <2>8, <3>1 DEF IInv, Lateness
  <2>10. Counted'
    <3>1. pc = "window" => m.seq < i \/ m.seq = i
      BY <2>1 DEF HadTurn
    <3>2. pc = "tail" => m.seq < i
      BY <2>1 DEF HadTurn
    <3>3. \A s \in got' : s < i \/ (s = i /\ pc = "window")
      BY <2>1, <3>1, <3>2, <1>1 DEF IInv, Counted
    <3>4. \A k \in DOMAIN ms' : ms'[k].from.seq \in got'
      BY <2>1, <2>2, <2>4 DEF IInv, Counted
    <3> QED
      BY <3>3, <3>4, <1>1 DEF Counted
  <2> QED
    BY <2>5, <2>7, <2>9, <2>10, <1>5, <1>6, <1>7 DEF IInv
<1> QED
  BY <1>8, <1>9

LEMMA DialKeeps ==
    ASSUME IInv, Dial
    PROVE  IInv'
<1>1. /\ pc = "tcp" /\ pc' = "dial" /\ deadline' = now + Timeout
      /\ sendAt' = [sendAt EXCEPT ![i] = now]
      /\ UNCHANGED << now, type, nonce, i, got, ms, inbox, began, sent, arrived, broken, arrivals >>
  BY DEF Dial
<1>2. i < Packets /\ i \in Seqs /\ i \in Nat /\ \A s \in got : s < i
  <2>1. i < Packets /\ \A s \in got : s < i
    BY <1>1 DEF IInv, Places, Counted
  <2> QED
    BY <2>1, Typed, Sizes
<1>3. sendAt' \in [Seqs -> Nat] /\ \A s \in Seqs : sendAt'[s] = IF s = i THEN now ELSE sendAt[s]
  BY <1>1, Typed
<1>4. TypeOK'
  <2>1. deadline' \in Nat
    BY <1>1, Typed, Sizes
  <2> QED
    BY <2>1, <1>1, <1>3, Typed DEF TypeOK
<1>5. \A k \in DOMAIN ms : sendAt'[ms[k].from.seq] = sendAt[ms[k].from.seq]
  <2>1. \A k \in DOMAIN ms : ms[k].from.seq \in got
    BY DEF IInv, Counted
  <2>2. \A s \in got : s \in Seqs /\ s # i
    BY <1>2, Typed, Sizes
  <2> QED
    BY <2>1, <2>2, <1>3
<1>6. SamplesTrue' /\ Lateness'
  BY <1>1, <1>5 DEF IInv, SamplesTrue, Lateness, Samples
<1>7. Places'
  BY <1>1, <1>2, Typed, Sizes DEF IInv, Places
<1>8. SentByUs' /\ JustIn' /\ NoneMissed'
  BY <1>1 DEF IInv, SentByUs, JustIn, NoneMissed, Accounted, Open
<1>9. Counted'
  BY <1>1, <1>2 DEF IInv, Counted
<1>10. OnTime'
  <2>1. now =< began + i * (Timeout + Gap) /\ i * (Timeout + Gap) \in Nat
    BY <1>1, <1>2, Times, Sizes DEF IInv, OnTime
  <2>2. \A s \in Seqs : sendAt'[s] =< now
    <3>1. now \in Nat /\ \A s \in Seqs : sendAt[s] =< now
      BY Typed DEF IInv, OnTime
    <3> QED
      BY <3>1, <1>3
  <2>3. now + Timeout =< began + i * (Timeout + Gap) + Timeout
    BY <2>1, Typed, Sizes
  <2> QED
    BY <2>2, <2>3, <1>1, <1>2, <1>3 DEF OnTime
<1> QED
  BY <1>4, <1>6, <1>7, <1>8, <1>9, <1>10 DEF IInv

LEMMA DialEndsKeeps ==
    ASSUME IInv, DialEnds
    PROVE  IInv'
<1> DEFINE new == [rtt |-> now - sendAt[i],
                   from |-> [reply |-> TRUE, nonce |-> nonce, seq |-> i, at |-> now]]
<1>1. /\ pc = "dial" /\ pc' = (IF i < Packets - 1 THEN "sleep" ELSE "idle") /\ deadline' = now + Gap
      /\ UNCHANGED << now, type, nonce, i, sendAt, inbox, began, sent, arrived, broken, arrivals >>
  BY DEF DialEnds
<1>2. \/ got' = got \cup {i} /\ ms' = Append(ms, new)
      \/ got' = got /\ ms' = ms
  BY DEF DialEnds
<1>3. /\ i < Packets /\ i \in Seqs /\ i \in Nat /\ now =< deadline
      /\ inbox = << >> /\ arrived = {} /\ \A s \in got : s < i
  <2>1. i < Packets /\ now =< deadline /\ inbox = << >> /\ arrived = {} /\ \A s \in got : s < i
    BY <1>1 DEF IInv, Places, Counted, JustIn, NoneMissed, Open
  <2> QED
    BY <2>1, Typed, Sizes
<1>4. /\ deadline =< began + i * (Timeout + Gap) + Timeout
      /\ deadline = sendAt[i] + Timeout /\ \A s \in Seqs : sendAt[s] =< now
  BY <1>1 DEF IInv, OnTime
<1>5. Places'
  BY <1>1, <1>3, Typed, Sizes DEF IInv, Places
<1>6. SentByUs' /\ JustIn' /\ NoneMissed'
  BY <1>1, <1>3 DEF IInv, SentByUs, JustIn, NoneMissed, Open
<1>7. OnTime'
  <2>1. i * (Timeout + Gap) \in Nat /\ (i + 1) * (Timeout + Gap) = i * (Timeout + Gap) + (Timeout + Gap)
    BY <1>3, Times, Sizes
  <2>2. now + Gap =< began + (i + 1) * (Timeout + Gap)
    BY <2>1, <1>3, <1>4, Typed, Sizes
  <2> QED
    BY <2>2, <1>1, <1>4 DEF OnTime
<1>8. CASE got' = got /\ ms' = ms
  <2>1. TypeOK'
    <3>1. deadline' \in Nat /\ pc' \in {"sleep", "idle"}
      BY <1>1, Typed, Sizes
    <3> QED
      BY <3>1, <1>1, <1>8, Typed DEF TypeOK
  <2>2. SamplesTrue' /\ Lateness'
    BY <1>1, <1>8 DEF IInv, SamplesTrue, Lateness, Samples
  <2>3. Counted'
    BY <1>1, <1>3, <1>8 DEF IInv, Counted
  <2> QED
    BY <2>1, <2>2, <2>3, <1>5, <1>6, <1>7 DEF IInv
<1>9. CASE got' = got \cup {i} /\ ms' = Append(ms, new)
  <2>1. now - sendAt[i] \in Nat /\ now - sendAt[i] =< Timeout
    BY <1>3, <1>4, Typed, Sizes
  <2>2. new \in [rtt : Nat, from : Message]
    BY <2>1, <1>3, Typed, Sizes DEF Message
  <2>3. /\ ms' \in Seq([rtt : Nat, from : Message]) /\ Len(ms') = Len(ms) + 1
        /\ DOMAIN ms = 1 .. Len(ms) /\ DOMAIN ms' = 1 .. Len(ms) + 1
        /\ ms'[Len(ms) + 1] = new /\ \A k \in 1 .. Len(ms) : ms'[k] = ms[k]
    BY <2>2, <1>9, Typed
  <2>4. i \notin got
    BY <1>3
  <2>5. TypeOK'
    <3>1. Len(ms') = Cardinality(got') /\ got' \subseteq Seqs
      BY <2>3, <2>4, <1>3, <1>9, OneMore, Typed
    <3>2. deadline' \in Nat /\ pc' \in {"sleep", "idle"}
      BY <1>1, Typed, Sizes
    <3> QED
      BY <3>1, <3>2, <2>3, <1>1, Typed DEF TypeOK
  <2>6. Samples' = Samples \cup {new}
    <3>1. /\ Samples = {ms[k] : k \in 1 .. Len(ms)}
          /\ Samples' = {ms'[k] : k \in 1 .. Len(ms) + 1}
      BY <2>3 DEF Samples
    <3>2. Len(ms) \in Nat
      BY Typed
    <3> HIDE DEF new
    <3>3. Samples' \subseteq Samples \cup {new}
      BY <2>3, <3>1, <3>2
    <3>4. Samples \cup {new} \subseteq Samples'
      BY <2>3, <3>1, <3>2
    <3> QED
      BY <3>3, <3>4
  <2>7. SamplesTrue'
    BY <2>6, <1>1 DEF IInv, SamplesTrue
  <2>8. type = "tcp" /\ type' = type
    BY <1>1 DEF IInv, Places
  <2>9. new.rtt =< Timeout + 0
    BY <2>1, Sizes
  <2>10. Lateness'
    BY <2>6, <2>8, <2>9 DEF IInv, Lateness
  <2>11. Counted'
    <3>1. \A k \in DOMAIN ms' : ms'[k].from.seq \in got'
      BY <2>3, <1>9 DEF IInv, Counted
    <3> QED
      BY <3>1, <1>1, <1>3, <1>9 DEF Counted
  <2> QED
    BY <2>5, <2>7, <2>10, <2>11, <1>5, <1>6, <1>7 DEF IInv
<1> QED
  BY <1>2, <1>8, <1>9

LEMMA SleepEndsKeeps ==
    ASSUME IInv, SleepEnds
    PROVE  IInv'
<1>1. /\ pc = "sleep" /\ now >= deadline /\ pc' = "tcp" /\ i' = i + 1
      /\ UNCHANGED << now, type, nonce, sendAt, got, ms, deadline, inbox, began, sent, arrived, broken, arrivals >>
  BY DEF SleepEnds
<1>2. TypeOK'
  <2>1. i' \in Nat
    BY <1>1, Typed
  <2> QED
    BY <2>1, <1>1, Typed DEF TypeOK
<1>3. SamplesTrue' /\ Lateness'
  BY <1>1 DEF IInv, SamplesTrue, Lateness, Samples
<1>4. Places'
  BY <1>1 DEF IInv, Places
<1>5. SentByUs' /\ JustIn' /\ NoneMissed'
  BY <1>1 DEF IInv, SentByUs, JustIn, NoneMissed, Accounted, Open
<1>6. Counted'
  <2>1. \A s \in got : s < i + 1
    <3> SUFFICES ASSUME NEW s \in got PROVE s < i + 1
      OBVIOUS
    <3>1. s < i \/ s = i
      BY <1>1 DEF IInv, Counted
    <3>2. s \in Nat /\ i \in Nat
      BY Typed, Sizes
    <3> QED
      BY <3>1, <3>2
  <2> QED
    BY <2>1, <1>1 DEF IInv, Counted
<1>7. OnTime'
  <2>1. /\ now =< deadline /\ deadline =< began + (i + 1) * (Timeout + Gap)
        /\ \A s \in Seqs : sendAt[s] =< now
    BY <1>1 DEF IInv, OnTime, Places
  <2>2. (i + 1) * (Timeout + Gap) \in Nat
    BY Typed, Times, Sizes
  <2>3. now =< began + (i + 1) * (Timeout + Gap)
    BY <2>1, <2>2, Typed
  <2> QED
    BY <2>1, <2>3, <1>1 DEF OnTime
<1> QED
  BY <1>2, <1>3, <1>4, <1>5, <1>6, <1>7 DEF IInv

LEMMA ArriveKeeps ==
    ASSUME IInv, Arrive
    PROVE  IInv'
<1>1. /\ Open /\ arrivals' = arrivals + 1
      /\ UNCHANGED << now, type, pc, nonce, i, sendAt, got, ms, deadline, began, sent, broken >>
  BY DEF Arrive
<1>2. PICK m \in Replies \cup Requests \cup {Stranger} :
         inbox' = Append(inbox, m) /\ arrived' = arrived \cup {m}
  BY DEF Arrive
<1>3. nonce > 0 /\ pc \notin {"idle", "tcp", "dial", "sleep"}
  BY <1>1 DEF IInv, Places, Open
<1>4. m \in Message /\ m.at = now /\ (m.nonce = nonce => m.seq \in Seqs /\ HadTurn(m.seq))
  <2>1. CASE m \in Replies \cup Requests
    <3>1. PICK p \in sent, b \in BOOLEAN : m = [reply |-> b, nonce |-> p.nonce, seq |-> p.seq, at |-> now]
      BY <2>1 DEF Replies, Requests
    <3>2. p \in [nonce : Nat, seq : Seqs, at : Nat] /\ (p.nonce = nonce => HadTurn(p.seq))
      BY <1>1 DEF IInv, SentByUs
    <3> QED
      BY <3>1, <3>2, Typed, Sizes DEF Message
  <2>2. CASE m = Stranger
    BY <2>2, <1>3, Typed DEF Stranger, Message
  <2> QED
    BY <2>1, <2>2
<1>5. /\ inbox' \in Seq(Message) /\ DOMAIN inbox = 1 .. Len(inbox) /\ DOMAIN inbox' = 1 .. Len(inbox) + 1
      /\ Len(inbox) \in Nat /\ inbox'[Len(inbox) + 1] = m /\ \A k \in 1 .. Len(inbox) : inbox'[k] = inbox[k]
  BY <1>2, <1>4, Typed
<1>6. TypeOK'
  <2>1. arrived' \subseteq Message /\ arrivals' \in Nat
    BY <1>1, <1>2, <1>4, Typed
  <2> QED
    BY <2>1, <1>1, <1>5, Typed DEF TypeOK
<1>7. SamplesTrue' /\ Lateness'
  BY <1>1 DEF IInv, SamplesTrue, Lateness, Samples
<1>8. Places' /\ SentByUs' /\ Counted' /\ OnTime'
  BY <1>1 DEF IInv, Places, SentByUs, Counted, OnTime, Open, HadTurn
<1>9. JustIn'
  <2>1. \A s : HadTurn(s)' <=> HadTurn(s)
    BY <1>1 DEF HadTurn
  <2> QED
    BY <2>1, <1>1, <1>4, <1>5 DEF IInv, JustIn, Open
<1>10. NoneMissed'
  <2>1. ASSUME ~broken, NEW a \in arrived', a.reply, a.nonce = nonce
        PROVE  Accounted(a)'
    <3>1. CASE a = m
      <4>1. Len(inbox) + 1 \in DOMAIN inbox' /\ inbox'[Len(inbox) + 1] = a
        BY <3>1, <1>5
      <4> QED
        BY <4>1 DEF Accounted
    <3>2. CASE a \in arrived
      <4>1. a.seq \in got \/ \E k \in DOMAIN inbox : inbox[k] = a
        BY <2>1, <3>2, <1>3 DEF IInv, NoneMissed, Accounted
      <4>2. \A k \in DOMAIN inbox : k \in DOMAIN inbox' /\ inbox'[k] = inbox[k]
        BY <1>5
      <4> QED
        BY <4>1, <4>2, <1>1 DEF Accounted
    <3> QED
      BY <3>1, <3>2, <1>2
  <2> QED
    BY <2>1, <1>1, <1>3 DEF NoneMissed
<1> QED
  BY <1>6, <1>7, <1>8, <1>9, <1>10 DEF IInv

LEMMA TickKeeps ==
    ASSUME IInv, Tick
    PROVE  IInv'
<1>1. /\ now' = now + 1
      /\ UNCHANGED << type, pc, nonce, i, sendAt, got, ms, deadline, inbox, began, broken, sent, arrived, arrivals >>
  BY DEF Tick, progress
<1>2. /\ pc \notin {"send", "tcp"} /\ (pc # "idle" => now < deadline)
      /\ inbox = << >>
  <2>1. ~Open => inbox = << >>
    BY DEF IInv, JustIn
  <2> QED
    BY <2>1 DEF Tick, Open
<1>3. TypeOK'
  <2>1. now' \in Nat
    BY <1>1, Typed
  <2> QED
    BY <2>1, <1>1, Typed DEF TypeOK
<1>4. SamplesTrue' /\ Lateness'
  BY <1>1 DEF IInv, SamplesTrue, Lateness, Samples
<1>5. Places'
  BY <1>1, <1>2, Typed DEF IInv, Places
<1>6. SentByUs' /\ JustIn' /\ Counted' /\ NoneMissed'
  BY <1>1, <1>2 DEF IInv, SentByUs, JustIn, Counted, NoneMissed, Accounted, Open, HadTurn
<1>7. OnTime'
  <2>1. \A s \in Seqs : sendAt[s] =< now + 1
    BY Typed DEF IInv, OnTime
  <2> QED
    BY <2>1, <1>1, <1>2 DEF IInv, OnTime
<1> QED
  BY <1>3, <1>4, <1>5, <1>6, <1>7 DEF IInv

LEMMA StutterKeeps ==
    ASSUME IInv, UNCHANGED vars
    PROVE  IInv'
<1> USE DEF vars
<1>1. TypeOK' /\ SamplesTrue' /\ Lateness'
  BY DEF IInv, TypeOK, SamplesTrue, Lateness, Samples
<1>2. Places' /\ SentByUs' /\ JustIn' /\ Counted' /\ OnTime' /\ NoneMissed'
  BY DEF IInv, Places, SentByUs, JustIn, Counted, OnTime, NoneMissed, Accounted, Open, HadTurn
<1> QED
  BY <1>1, <1>2 DEF IInv

LEMMA StepKeeps ==
    ASSUME IInv, Next
    PROVE  IInv'
<1>1. CASE WindowEnds
  BY <1>1, ReturnKeeps DEF WindowEnds
<1>2. CASE WindowBreaks
  BY <1>2, ReturnKeeps DEF WindowBreaks
<1>3. CASE Begin("icmp") \/ Begin("tcp")
  BY <1>3, BeginKeeps
<1>4. CASE Send \/ TailWindow \/ Receive
  BY <1>4, SendKeeps, TailWindowKeeps, ReceiveKeeps
<1>5. CASE Tcp
  BY <1>5, DialKeeps, DialEndsKeeps, SleepEndsKeeps DEF Tcp
<1>6. CASE Arrive \/ Tick
  BY <1>6, ArriveKeeps, TickKeeps
<1> QED
  BY <1>1, <1>2, <1>3, <1>4, <1>5, <1>6 DEF Next, Icmp, Collect

\* The invariant of every behaviour.
THEOREM Invariant == Spec => []IInv
<1>1. ASSUME IInv, [Next]_vars
      PROVE  IInv'
  BY <1>1, StepKeeps, StutterKeeps
<1> QED
  BY InitIInv, <1>1, PTL DEF Spec
-----------------------------------------------------------------------------
(***************************************************************************)
(* What follows.                                                            *)
(***************************************************************************)
\* Every variable has its type, and no duplicate of a reply is counted (probe.go:172).
THEOREM TypeCorrect == Spec => []TypeOK
BY Invariant, PTL DEF IInv

\* A round counts its own packets' replies only, each with the RTT of its own packet,
\* whichever window received it (probe.go:135-172).
THEOREM OnlyOwnReplies == Spec => []SamplesTrue
BY Invariant, PTL DEF IInv

\* No reply that came in time is missed, unless a receive failed (probe.go:135-136).
THEOREM NoReplyMissed == Spec => []CollectsAll
<1>1. IInv => CollectsAll
  <2> SUFFICES ASSUME IInv, pc = "idle", ~broken,
                      NEW m \in arrived, m.reply, m.nonce = nonce, m.at < deadline
               PROVE  m.seq \in got
    BY DEF CollectsAll
  <2>1. inbox = << >> /\ Accounted(m)
    BY DEF IInv, JustIn, NoneMissed, Open
  <2>2. m.at \in Nat /\ deadline \in Nat
    BY Typed DEF Message
  <2> QED
    BY <2>1, <2>2 DEF Accounted
<1> QED
  BY Invariant, <1>1, PTL

\* How late a reply may be and count: the timeout for a TCP dial (probe.go:235); for
\* ICMP a gap more for the packet itself and for every one after it (107-110).
THEOREM LatenessBound == Spec => []Lateness
BY Invariant, PTL DEF IInv

\* How long a round takes, whatever arrives (probe.go:107-122, 216-245).
THEOREM RoundsAreBounded == Spec => []RoundLength
<1>1. IInv => RoundLength
  <2> SUFFICES ASSUME IInv, pc # "idle"
               PROVE  now =< began + IF Open THEN Packets * Gap + Timeout
                                     ELSE Packets * Timeout + (Packets - 1) * Gap
    BY DEF RoundLength
  <2>1. i \in Nat /\ now \in Nat /\ deadline \in Nat /\ began \in Nat /\ Packets * Gap \in Nat
    BY Typed, Times, Sizes
  <2>2. CASE Open
    <3>1. CASE pc = "send"
      <4>1. i =< Packets /\ now =< began + i * Gap
        BY <3>1 DEF IInv, Places, OnTime
      <4>2. i * Gap =< Packets * Gap /\ i * Gap \in Nat
        BY <4>1, <2>1, Times, Sizes
      <4> QED
        BY <4>1, <4>2, <2>1, <2>2, Sizes
    <3>2. CASE pc = "window"
      <4>1. i + 1 =< Packets /\ now =< deadline /\ deadline =< began + (i + 1) * Gap
        BY <3>2, <2>1, Sizes DEF IInv, Places, OnTime
      <4>2. (i + 1) * Gap =< Packets * Gap /\ (i + 1) * Gap \in Nat
        <5>1. i + 1 \in Nat
          BY <2>1
        <5> QED
          BY <5>1, <4>1, Times, Sizes
      <4> QED
        BY <4>1, <4>2, <2>1, <2>2, Sizes
    <3>3. CASE pc = "tail"
      <4>1. now =< deadline /\ deadline =< began + Packets * Gap + Timeout
        BY <3>3 DEF IInv, Places, OnTime
      <4> QED
        BY <4>1, <2>1, <2>2, Sizes
    <3> QED
      BY <3>1, <3>2, <3>3, <2>2 DEF Open
  <2>3. CASE ~Open
    <3> DEFINE last == Packets - 1
               tg == Timeout + Gap
    <3>1. last \in Nat /\ tg \in Nat /\ Packets = last + 1
      BY Sizes
    <3>2. /\ last * tg = last * Timeout + last * Gap
          /\ Packets * Timeout = last * Timeout + Timeout
          /\ last * tg \in Nat /\ last * Timeout \in Nat /\ last * Gap \in Nat
      BY <3>1, Times, Sizes
    <3>3. \A k \in Nat : k =< last => k * tg =< last * tg /\ k * tg \in Nat
      BY <3>1, Times
    <3>4. \/ i =< last /\ now =< began + i * tg
          \/ i =< last /\ now =< deadline /\ deadline =< began + i * tg + Timeout
          \/ i + 1 =< last /\ now =< deadline /\ deadline =< began + (i + 1) * tg
      <4>1. CASE pc = "tcp"
        BY <4>1, <2>1, Sizes DEF IInv, Places, OnTime
      <4>2. CASE pc = "dial"
        BY <4>2, <2>1, Sizes DEF IInv, Places, OnTime
      <4>3. CASE pc = "sleep"
        BY <4>3, <2>1, Sizes DEF IInv, Places, OnTime
      <4> QED
        BY <4>1, <4>2, <4>3, <2>3, Typed DEF Open
    <3>5. now =< began + last * tg + Timeout
      <4>1. i + 1 \in Nat
        BY <2>1
      <4> HIDE DEF last, tg
      <4> QED
        BY <4>1, <3>1, <3>2, <3>3, <3>4, <2>1, Sizes
    <3> QED
      BY <3>2, <3>5, <2>1, <2>3, Sizes
  <2> QED
    BY <2>2, <2>3
<1> QED
  BY Invariant, <1>1, PTL
=============================================================================
