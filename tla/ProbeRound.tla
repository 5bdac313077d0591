----------------------------- MODULE ProbeRound -----------------------------
(***************************************************************************)
(* One target's rounds as probe.go takes them.  icmpRound sends its packets *)
(* one by one, receives for a gap after each and for the timeout after the  *)
(* last, and counts a reply to any of its packets whenever it comes in;     *)
(* tcpRound dials one connection after the other.                           *)
(*                                                                         *)
(* Time is counted in units, and receiving, sending and the lookup of the   *)
(* address take none.  The network delays, duplicates, reorders and loses   *)
(* replies; a raw socket also gets the replies to earlier rounds and to     *)
(* other targets, and its own requests when the target is this host.        *)
(***************************************************************************)
EXTENDS Naturals, Sequences, FiniteSets

CONSTANTS Packets, Gap, Timeout,   \* ProbeCfg
          Faults,       \* whether the lookup, a send or a receive may fail
          MaxRounds,    \* bound: rounds
          MaxArrivals,  \* bound: ICMP messages received
          MaxTime       \* bound: the clock, between rounds

ASSUME ProbeRoundAssumption ==
    /\ Packets \in Nat \ {0} /\ Gap \in Nat /\ Timeout \in Nat \ {0}
    /\ Faults \in BOOLEAN
    /\ MaxRounds \in Nat /\ MaxArrivals \in Nat /\ MaxTime \in Nat

VARIABLES
    now,
    type,     \* of the target: icmpRound or tcpRound
    pc,       \* between rounds, sending, in a window after a packet, in the tail window;
              \* dialling, or sleeping between dials
    nonce,    \* of the current round: its number
    i,        \* the packet in turn
    sendAt,   \* seq -> when it was handed to Sendto
    got,      \* the seqs whose reply has been counted
    ms,       \* the samples: RTT and (history) the message it was taken from
    deadline, \* of the window, the dial or the sleep
    inbox,    \* the socket's queue
    began,    \* history: when the first packet was due
    sent,     \* history: every packet that left, with its round and time
    arrived,  \* history: messages that reached the socket, in this round
    broken,   \* history: a receive of this round failed
    arrivals

progress == << type, pc, nonce, i, sendAt, got, ms, deadline, inbox, began, broken >>
vars == << now, type, pc, nonce, i, sendAt, got, ms, deadline, inbox, began, sent, arrived, broken, arrivals >>

Seqs == 0 .. Packets - 1
NotSent == [s \in Seqs |-> 0]
Open == pc \in {"send", "window", "tail"}      \* the round has a socket

\* An ICMP message: a reply or a request, to the packet s of round n (0: of another target).
Message == [reply : BOOLEAN, nonce : Nat, seq : Nat, at : Nat]

Init ==
    /\ now = 1 /\ type \in {"icmp", "tcp"} /\ pc = "idle" /\ nonce = 0 /\ i = 0
    /\ sendAt = NotSent /\ got = {} /\ ms = << >>
    /\ deadline = 0 /\ inbox = << >> /\ began = 0
    /\ sent = {} /\ arrived = {} /\ broken = FALSE /\ arrivals = 0

\* A new round, of a target of either type.  When the lookup or the socket fails,
\* probeLoop records the round with every packet lost.
Begin(t) ==
    /\ pc = "idle" /\ nonce < MaxRounds
    /\ type' = t /\ nonce' = nonce + 1
    /\ i' = 0 /\ sendAt' = NotSent /\ got' = {} /\ ms' = << >>
    /\ inbox' = << >> /\ began' = now /\ broken' = FALSE /\ arrived' = {}
    /\ \/ pc' = IF t = "tcp" THEN "tcp" ELSE "send"
       \/ Faults /\ pc' = "idle"
    /\ UNCHANGED << now, deadline, sent, arrivals >>
-----------------------------------------------------------------------------
(***************************************************************************)
(* icmpRound.                                                               *)
(***************************************************************************)
\* Sendto, then the window after the packet.  If it fails there is no window.
Send ==
    /\ pc = "send" /\ i < Packets
    /\ sendAt' = [sendAt EXCEPT ![i] = now]
    /\ \/ /\ sent' = sent \cup {[nonce |-> nonce, seq |-> i, at |-> now]}
          /\ pc' = "window" /\ deadline' = now + Gap
          /\ UNCHANGED i
       \/ /\ Faults
          /\ i' = i + 1
          /\ UNCHANGED << pc, deadline, sent >>
    /\ UNCHANGED << now, type, nonce, got, ms, inbox, began, arrived, broken, arrivals >>

\* The window for the packets in flight.  (Mutated form: as long as the round.)
TailWindow_Long ==
    /\ pc = "send" /\ i = Packets
    /\ pc' = "tail" /\ deadline' = now + Timeout + Packets * Gap
    /\ UNCHANGED << now, type, nonce, i, sendAt, got, ms, inbox, began, sent, arrived, broken, arrivals >>
TailWindow ==
    /\ pc = "send" /\ i = Packets
    /\ pc' = "tail" /\ deadline' = now + Timeout
    /\ UNCHANGED << now, type, nonce, i, sendAt, got, ms, inbox, began, sent, arrived, broken, arrivals >>

\* collect returns: to the next packet, or from the round.
Return ==
    \/ pc = "window" /\ pc' = "send" /\ i' = i + 1 /\ inbox' = inbox
    \/ pc = "tail" /\ pc' = "idle" /\ i' = i /\ inbox' = << >>

\* collect finds that the deadline has passed, whatever is in the socket.
WindowEnds ==
    /\ pc \in {"window", "tail"} /\ now >= deadline
    /\ Return
    /\ UNCHANGED << now, type, nonce, sendAt, got, ms, deadline, began, sent, arrived, broken, arrivals >>

\* A receive error other than a timeout or an interrupt ends the window.
WindowBreaks ==
    /\ Faults /\ pc \in {"window", "tail"} /\ now < deadline
    /\ Return
    /\ broken' = TRUE
    /\ UNCHANGED << now, type, nonce, sendAt, got, ms, deadline, began, sent, arrived, arrivals >>

\* What collect counts.  (Mutated forms: any round's replies; a reply
\* twice; only the reply to the packet in turn.)
Counts_AnyNonce(m) == m.reply /\ m.seq \in Seqs \ got
Counts_Again(m) == m.reply /\ m.nonce = nonce /\ m.seq \in Seqs
Counts_InTurn(m) == m.reply /\ m.nonce = nonce /\ m.seq \in Seqs \ got /\ m.seq = i
Counts(m) == m.reply /\ m.nonce = nonce /\ m.seq \in Seqs \ got

\* Its RTT.
Rtt(m) == now - sendAt[m.seq]

\* How long collect goes on after a message.  (Mutated form: each message extends it.)
Extended_ByMessage == now + IF pc = "window" THEN Gap ELSE Timeout
Extended == deadline

Receive ==
    /\ pc \in {"window", "tail"} /\ now < deadline /\ inbox # << >>
    /\ LET m == Head(inbox)
       IN  IF Counts(m)
           THEN /\ got' = got \cup {m.seq}
                /\ ms' = Append(ms, [rtt |-> Rtt(m), from |-> m])
           ELSE UNCHANGED << got, ms >>
    /\ inbox' = Tail(inbox)
    /\ deadline' = Extended
    /\ UNCHANGED << now, type, pc, nonce, i, sendAt, began, sent, arrived, broken, arrivals >>
-----------------------------------------------------------------------------
(***************************************************************************)
(* tcpRound.                                                                *)
(***************************************************************************)
Dial ==
    /\ pc = "tcp"
    /\ pc' = "dial" /\ deadline' = now + Timeout
    /\ sendAt' = [sendAt EXCEPT ![i] = now]
    /\ UNCHANGED << now, type, nonce, i, got, ms, inbox, began, sent, arrived, broken, arrivals >>

\* The connection is made, refused, or times out; no gap after the last one.
DialEnds ==
    /\ pc = "dial"
    /\ \/ /\ got' = got \cup {i}
          /\ ms' = Append(ms, [rtt |-> now - sendAt[i],
                               from |-> [reply |-> TRUE, nonce |-> nonce, seq |-> i, at |-> now]])
       \/ UNCHANGED << got, ms >>
    /\ pc' = IF i < Packets - 1 THEN "sleep" ELSE "idle"
    /\ deadline' = now + Gap
    /\ UNCHANGED << now, type, nonce, i, sendAt, inbox, began, sent, arrived, broken, arrivals >>

SleepEnds ==
    /\ pc = "sleep" /\ now >= deadline
    /\ pc' = "tcp" /\ i' = i + 1
    /\ UNCHANGED << now, type, nonce, sendAt, got, ms, deadline, inbox, began, sent, arrived, broken, arrivals >>
-----------------------------------------------------------------------------
(***************************************************************************)
(* The network and the clock.                                               *)
(***************************************************************************)
\* A reply to any packet, as often and as late as the network likes; a request, at
\* once, if the target is this host; a reply to somebody else.
Replies == {[reply |-> TRUE, nonce |-> p.nonce, seq |-> p.seq, at |-> now] : p \in sent}
Requests == {[reply |-> FALSE, nonce |-> p.nonce, seq |-> p.seq, at |-> now] : p \in {q \in sent : q.at = now}}
Stranger == [reply |-> TRUE, nonce |-> 0, seq |-> 0, at |-> now]

Arrive ==
    /\ Open /\ arrivals < MaxArrivals
    /\ arrivals' = arrivals + 1
    /\ \E m \in Replies \cup Requests \cup {Stranger} :
          /\ inbox' = Append(inbox, m)
          /\ arrived' = arrived \cup {m}
    /\ UNCHANGED << now, type, pc, nonce, i, sendAt, got, ms, deadline, began, sent, broken >>

Tick ==
    /\ \/ pc \in {"window", "tail"} /\ inbox = << >> /\ now < deadline
       \/ pc \in {"dial", "sleep"} /\ now < deadline
       \/ pc = "idle" /\ now < MaxTime
    /\ now' = now + 1
    /\ UNCHANGED << progress, sent, arrived, arrivals >>

Collect == WindowEnds \/ WindowBreaks \/ Receive

Icmp == Send \/ TailWindow \/ Collect
Tcp == Dial \/ DialEnds \/ SleepEnds

Next == Begin("icmp") \/ Begin("tcp") \/ Icmp \/ Tcp \/ Arrive \/ Tick

Spec == Init /\ [][Next]_vars
-----------------------------------------------------------------------------
(***************************************************************************)
(* Properties.                                                              *)
(***************************************************************************)
Samples == {ms[k] : k \in DOMAIN ms}

\* Every variable has its type, and the number received is that of the packets
\* answered: no duplicate is counted.
TypeOK ==
    /\ {now, i, deadline, began, arrivals, nonce} \subseteq Nat
    /\ type \in {"icmp", "tcp"}
    /\ pc \in {"idle", "send", "window", "tail", "tcp", "dial", "sleep"}
    /\ sendAt \in [Seqs -> Nat] /\ got \subseteq Seqs
    /\ ms \in Seq([rtt : Nat, from : Message])
    /\ Len(ms) = Cardinality(got)
    /\ inbox \in Seq(Message) /\ arrived \subseteq Message
    /\ broken \in BOOLEAN

\* A round counts only replies to packets it sent itself (probe.go:172), not its own
\* requests, late replies to the round before, or those to other targets; and "RTTs
\* are computed from each packet's own send time" (136): from the packet's sending to
\* the reply's arrival, whichever window received it and whatever came in between.
SamplesTrue ==
    \A x \in Samples : /\ x.from.reply /\ x.from.nonce = nonce
                       /\ x.rtt = x.from.at - sendAt[x.from.seq]

\* probe.go:135-136: out of order and late replies are picked up by later windows.
\* A finished round has counted every packet whose reply had come before its last
\* deadline, unless a receive failed.
CollectsAll ==
    pc = "idle" /\ ~broken =>
        \A m \in arrived : m.reply /\ m.nonce = nonce /\ m.at < deadline => m.seq \in got

\* Whatever arrives, a round takes no longer than its windows: a stopped loop is
\* done, and a running one back at its ticker, in this time.
RoundLength ==
    pc # "idle" => now =< began + IF Open THEN Packets * Gap + Timeout
                                  ELSE Packets * Timeout + (Packets - 1) * Gap

\* How late a reply may be and count.  A TCP dial is given the timeout alone
\* (probe.go:235).  An ICMP reply may come in any window left when its packet was sent:
\* a gap for its own packet and for each one after it, and the timeout of the tail
\* (107-110), so that even the last packet has a gap more than the timeout.
Lateness ==
    \A x \in Samples :
        x.rtt =< Timeout + IF type = "tcp" THEN 0 ELSE (Packets - x.from.seq) * Gap
=============================================================================
