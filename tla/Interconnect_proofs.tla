------------------------ MODULE Interconnect_proofs ------------------------
(***************************************************************************)
(* What the interconnect promises, for every table of slaves.              *)
(***************************************************************************)
EXTENDS Interconnect, SequenceTheorems, TLAPS

-----------------------------------------------------------------------------
(***************************************************************************)
(* Vectors over the two masters.                                           *)
(***************************************************************************)
MasterBit(m) == IF m = cpu_0_instruction_master THEN 1 ELSE 2

LEMMA Bits ==
    /\ \A v \in 0..3 : Bit(v, 0) <=> v \in {1, 3}
    /\ \A v \in 0..3 : Bit(v, 1) <=> v \in {2, 3}
<1>1. Pow2[1] = 1 /\ Pow2[2] = 2
  BY DEF Pow2
<1>2. ASSUME NEW v \in 0..3
      PROVE  (Bit(v, 0) <=> v \in {1, 3}) /\ (Bit(v, 1) <=> v \in {2, 3})
  <2>1. CASE v = 0
    BY <1>1, <2>1 DEF Bit
  <2>2. CASE v = 1
    BY <1>1, <2>2 DEF Bit
  <2>3. CASE v = 2
    BY <1>1, <2>3 DEF Bit
  <2>4. CASE v = 3
    BY <1>1, <2>4 DEF Bit
  <2> QED
    BY <2>1, <2>2, <2>3, <2>4
<1> QED
  BY <1>2

LEMMA Vectors ==
    ASSUME NEW b0 \in BOOLEAN, NEW b1 \in BOOLEAN
    PROVE  /\ Vector(b0, b1) \in 0..3
           /\ Vector(b0, b1) \in {1, 3} <=> b0
           /\ Vector(b0, b1) \in {2, 3} <=> b1
BY DEF Vector

\* A request alone is granted, and of two the one the addend points to.
LEMMA Chosen ==
    \A q \in 0..3, a \in 1..2 : chosen[q][a] = IF q = 3 THEN a ELSE q
<1>1. Pow2[1] = 1 /\ Pow2[2] = 2 /\ Pow2[3] = 4 /\ Pow2[4] = 8
  BY DEF Pow2
<1>2. ASSUME NEW q \in 0..3, NEW a \in 1..2
      PROVE  chosen[q][a] =
                Vector(\E i \in {0, 2} : chosen_master_double_vector(q, a, i),
                       \E i \in {1, 3} : chosen_master_double_vector(q, a, i))
  <2>1. a \in 0..3
    OBVIOUS
  <2> QED
    BY <2>1, Zenon DEF chosen
<1>3. ASSUME NEW q \in 0..3, NEW a \in 1..2
      PROVE  chosen[q][a] = IF q = 3 THEN a ELSE q
  <2> USE <1>1 DEF chosen_master_double_vector, Bit, Vector
  <2>1. CASE q = 0
    BY <1>2, <2>1
  <2>2. CASE q = 1 /\ a = 1
    BY <1>2, <2>2
  <2>3. CASE q = 1 /\ a = 2
    BY <1>2, <2>3
  <2>4. CASE q = 2 /\ a = 1
    BY <1>2, <2>4
  <2>5. CASE q = 2 /\ a = 2
    BY <1>2, <2>5
  <2>6. CASE q = 3 /\ a = 1
    BY <1>2, <2>6
  <2>7. CASE q = 3 /\ a = 2
    BY <1>2, <2>7
  <2> QED
    BY <2>1, <2>2, <2>3, <2>4, <2>5, <2>6, <2>7
<1> QED
  BY <1>3

-----------------------------------------------------------------------------
(***************************************************************************)
(* One cycle of arbitration.                                               *)
(***************************************************************************)

\* No transfer is longer than one access: the lock that holds a slave for one
\* that is never closes.
LockInv ==
    /\ slavearbiterlockenable = [s \in Slaves |-> FALSE]
    /\ arb_share_counter = [s \in Slaves |-> 0]

\* The registers that arbitration reads, and the command it serves.
ArbiterOK ==
    /\ LockInv
    /\ cmd \in [Masters -> [op: {"idle", "read", "write"}, slave: Slaves \cup {Unmapped}]]
    /\ \A m \in Masters :
          /\ cmd[m].op = "idle" => cmd[m].slave = Unmapped
          /\ m = cpu_0_instruction_master => cmd[m].slave \in Shared \cup {Unmapped}
    /\ arb_addend \in [Shared -> 1..2]
    /\ saved_chosen_master_vector \in [Shared -> 0..2]
    /\ latency_counter \in [Masters -> 0..1]

LEMMA Two ==
    /\ Masters = {0, 1}
    /\ \A m \in Masters : Other(m) \in Masters /\ Other(m) # m
    /\ \A m1, m2 \in Masters : m1 # m2 => m2 = Other(m1)
    /\ Shared \subseteq Slaves /\ WaitStated \subseteq Slaves
    /\ Latent \subseteq Slaves /\ Stretching \subseteq Slaves
    /\ Unmapped \notin Slaves
BY PortsAssumption DEF Masters, Other, cpu_0_instruction_master, cpu_0_data_master,
   Shared, WaitStated, Latent, Stretching

\* A slave answers in one of three ways.
LEMMA OneKind ==
    ASSUME NEW s \in Slaves
    PROVE  /\ s \in WaitStated \/ s \in Latent \/ s \in Stretching
           /\ s \in WaitStated => s \notin Latent /\ s \notin Stretching
           /\ s \in Latent => s \notin Stretching
<1>1. Ports[s].kind \in {"wait", "latency", "waitrequest"}
  BY PortsAssumption DEF Kinds
<1> QED
  BY <1>1 DEF WaitStated, Latent, Stretching

LEMMA Unlocked ==
    ASSUME LockInv, NEW s \in Slaves, NEW m \in Masters
    PROVE  /\ allow_new_arb_cycle(s)
           /\ qualified_request(s, m) <=> requests(s, m) /\ ~latency_blocks(s, m)
<1>1. \A k : ~arbiterlock(s, k)
  BY DEF LockInv, arbiterlock
<1> QED
  BY <1>1 DEF allow_new_arb_cycle, qualified_request

\* Only the data master reaches a slave that is its own.
LEMMA RequestFacts ==
    ASSUME ArbiterOK, NEW s \in Slaves, NEW m \in Masters, requests(s, m)
    PROVE  /\ cmd[m].slave = s /\ s # Unmapped
           /\ \A t \in Slaves : requests(t, m) <=> t = s
           /\ s \notin Shared => m = cpu_0_data_master
<1>1. cmd[m].slave = s /\ s # Unmapped /\ cmd[m].op # "idle"
  BY Two DEF requests
<1>2. s \notin Shared => m = cpu_0_data_master
  BY <1>1, Two DEF ArbiterOK, Masters
<1> QED
  BY <1>1, <1>2 DEF requests

\* The grant: to one master that is qualified, and where both are, to the one
\* the addend points to.
LEMMA Grants ==
    ASSUME ArbiterOK, NEW s \in Slaves
    PROVE  /\ grant_vector(s) \in 0..2
           /\ \A m \in Masters :
                /\ granted(s, m) => qualified_request(s, m) /\ requests(s, m)
                /\ granted(s, m) <=> grant_vector(s) = MasterBit(m)
                /\ granted(s, m) => ~granted(s, Other(m))
                /\ qualified_request(s, m) => \E k \in Masters : granted(s, k)
                /\ qualified_request(s, m) /\ s \notin Shared => granted(s, m)
                /\ qualified_request(s, m) /\ s \in Shared /\ arb_addend[s] = MasterBit(m)
                      => granted(s, m)
<1> DEFINE q0 == qualified_request(s, 0)
           q1 == qualified_request(s, 1)
           q == master_qreq_vector(s)
           g == grant_vector(s)
<1>1. q0 \in BOOLEAN /\ q1 \in BOOLEAN
  BY DEF qualified_request
<1>2. q \in 0..3 /\ (q \in {1, 3} <=> q0) /\ (q \in {2, 3} <=> q1)
  BY <1>1, Vectors DEF master_qreq_vector, cpu_0_instruction_master, cpu_0_data_master
<1>3. g = IF s \in Shared THEN chosen[q][arb_addend[s]] ELSE q
  BY DEF grant_vector
<1>4. s \in Shared => arb_addend[s] \in 1..2
  BY DEF ArbiterOK
<1>5. (q0 => requests(s, 0)) /\ (q1 => requests(s, 1))
  BY DEF qualified_request
<1>6. s \notin Shared => ~q0
  BY <1>5, RequestFacts, Two DEF cpu_0_data_master
<1>7. g = IF s \in Shared /\ q = 3 THEN arb_addend[s] ELSE q
  BY <1>2, <1>3, <1>4, Chosen
<1>8. s \notin Shared => q # 3
  BY <1>2, <1>6
<1> HIDE DEF q0, q1, q, g
<1>9. g \in 0..2 /\ g \in 0..3
  BY <1>2, <1>4, <1>7, <1>8
<1>10. (granted(s, 0) <=> g = 1) /\ (granted(s, 1) <=> g = 2)
  <2>1. (granted(s, 0) <=> Bit(g, 0)) /\ (granted(s, 1) <=> Bit(g, 1))
    BY DEF granted, g
  <2> QED
    BY <1>9, <2>1, Bits
<1>11. /\ granted(s, 0) => q0
       /\ granted(s, 1) => q1
       /\ q0 \/ q1 => granted(s, 0) \/ granted(s, 1)
       /\ q0 /\ s \in Shared /\ arb_addend[s] = 1 => granted(s, 0)
       /\ q1 /\ s \in Shared /\ arb_addend[s] = 2 => granted(s, 1)
       /\ q1 /\ s \notin Shared => granted(s, 1)
  BY <1>2, <1>4, <1>6, <1>7, <1>8, <1>10
<1>12. ASSUME NEW m \in Masters
       PROVE  /\ granted(s, m) => qualified_request(s, m) /\ requests(s, m)
              /\ granted(s, m) <=> g = MasterBit(m)
              /\ granted(s, m) => ~granted(s, Other(m))
              /\ qualified_request(s, m) => \E k \in Masters : granted(s, k)
              /\ qualified_request(s, m) /\ s \notin Shared => granted(s, m)
              /\ qualified_request(s, m) /\ s \in Shared /\ arb_addend[s] = MasterBit(m)
                    => granted(s, m)
  <2>1. CASE m = 0
    <3>1. Other(0) = 1 /\ MasterBit(0) = 1 /\ 0 \in Masters /\ 1 \in Masters
      BY Two DEF Other, MasterBit, cpu_0_instruction_master
    <3> QED
      BY <1>5, <1>6, <1>9, <1>10, <1>11, <2>1, <3>1 DEF q0
  <2>2. CASE m = 1
    <3>1. Other(1) = 0 /\ MasterBit(1) = 2 /\ 0 \in Masters /\ 1 \in Masters
      BY Two DEF Other, MasterBit, cpu_0_instruction_master
    <3> QED
      BY <1>5, <1>9, <1>10, <1>11, <2>2, <3>1 DEF q1
  <2> QED
    BY <2>1, <2>2, Two
<1> QED
  BY <1>9, <1>12 DEF g

-----------------------------------------------------------------------------
(***************************************************************************)
(* One cycle of a transfer.                                                *)
(***************************************************************************)

\* A master runs when the one slave it addresses is done with it.
LEMMA Running ==
    ASSUME ArbiterOK, NEW s \in Slaves, NEW m \in Masters, requests(s, m)
    PROVE  run(m) <=>
             /\ granted(s, m)
             /\ s \in Stretching => ~waitrequest[s]
             /\ s \in WaitStated /\ Reads(m) => d1_reasons_to_wait[s]
<1>1. granted(s, m) => qualified_request(s, m)
  BY Grants
<1> QED
  BY <1>1, RequestFacts DEF run

\* No slave is addressed by what none decodes, and nothing waits for it.
LEMMA RunningUnmapped ==
    ASSUME ArbiterOK, NEW m \in Masters, cmd[m].slave = Unmapped
    PROVE  run(m) /\ \A s \in Slaves : ~requests(s, m) /\ ~granted(s, m)
<1>1. \A s \in Slaves : ~requests(s, m)
  BY Two DEF requests
<1>2. \A s \in Slaves : ~granted(s, m)
  BY <1>1, Grants
<1> QED
  BY <1>1, <1>2 DEF run

\* A transfer goes on for as long as the master it is granted to is kept waiting.
LEMMA Kept ==
    ASSUME ArbiterOK, NEW s \in Slaves
    PROVE  ~end_xfer(s) <=> \E m \in Masters : granted(s, m) /\ ~run(m)
<1>1. ASSUME NEW m \in Masters, granted(s, m), ~run(m) PROVE ~end_xfer(s)
  <2>1. requests(s, m) /\ qualified_request(s, m)
    BY <1>1, Grants
  <2>2. cmd[m].op \in {"read", "write"}
    BY <2>1 DEF requests, ArbiterOK
  <2>3. \/ s \in Stretching /\ waitrequest[s]
        \/ s \in WaitStated /\ Reads(m) /\ ~d1_reasons_to_wait[s]
    BY <1>1, <2>1, Running
  <2>4. CASE s \in Stretching /\ waitrequest[s]
    BY <1>1, <2>2, <2>4 DEF end_xfer, waits_for_read, waits_for_write,
                            in_a_read_cycle, in_a_write_cycle, Reads
  <2>5. CASE s \in WaitStated /\ Reads(m) /\ ~d1_reasons_to_wait[s]
    BY <1>1, <2>1, <2>5 DEF end_xfer, waits_for_read, in_a_read_cycle, begins_xfer
  <2> QED
    BY <2>3, <2>4, <2>5
<1>2. ASSUME ~end_xfer(s) PROVE \E m \in Masters : granted(s, m) /\ ~run(m)
  <2>1. CASE waits_for_read(s)
    <3>1. PICK m \in Masters : granted(s, m) /\ Reads(m)
      BY <2>1 DEF waits_for_read, in_a_read_cycle
    <3>2. requests(s, m)
      BY <3>1, Grants
    <3> QED
      BY <2>1, <3>1, <3>2, Running DEF waits_for_read, begins_xfer
  <2>2. CASE waits_for_write(s)
    <3>1. PICK m \in Masters : granted(s, m) /\ cmd[m].op = "write"
      BY <2>2 DEF waits_for_write, in_a_write_cycle
    <3>2. requests(s, m)
      BY <3>1, Grants
    <3> QED
      BY <2>2, <3>1, <3>2, Running DEF waits_for_write
  <2> QED
    BY <1>2, <2>1, <2>2 DEF end_xfer
<1> QED
  BY <1>1, <1>2

\* A slave without a latency answers exactly the reads it accepts.
LEMMA Answering ==
    ASSUME ArbiterOK, NEW s \in Slaves, NEW m \in Masters
    PROVE  answers(s, m) <=> s \notin Latent /\ requests(s, m) /\ Reads(m) /\ run(m)
<1>1. ASSUME answers(s, m)
      PROVE  s \notin Latent /\ requests(s, m) /\ Reads(m) /\ run(m)
  <2>1. s \notin Latent /\ granted(s, m) /\ Reads(m) /\ ~waits_for_read(s)
    BY <1>1 DEF answers
  <2>2. requests(s, m) /\ qualified_request(s, m)
    BY <2>1, Grants
  <2>3. in_a_read_cycle(s)
    BY <2>1 DEF in_a_read_cycle
  <2>4. s \in WaitStated => d1_reasons_to_wait[s]
    BY <2>1, <2>2, <2>3 DEF waits_for_read, begins_xfer
  <2>5. s \in Stretching => ~waitrequest[s]
    BY <2>1, <2>3 DEF waits_for_read
  <2> QED
    BY <2>1, <2>2, <2>4, <2>5, Running
<1>2. ASSUME s \notin Latent, requests(s, m), Reads(m), run(m)
      PROVE  answers(s, m)
  <2>1. /\ granted(s, m)
        /\ s \in Stretching => ~waitrequest[s]
        /\ s \in WaitStated => d1_reasons_to_wait[s]
    BY <1>2, Running
  <2>2. ~waits_for_read(s)
    BY <2>1 DEF waits_for_read, begins_xfer
  <2> QED
    BY <1>2, <2>1, <2>2 DEF answers
<1> QED
  BY <1>1, <1>2

-----------------------------------------------------------------------------
(***************************************************************************)
(* The invariant.                                                          *)
(***************************************************************************)

\* At most one answer is on its way to a master, and the registers that tell
\* where it comes from agree.
AnswerInv ==
    \A m \in Masters :
        /\ asked[m] = << >> \/ \E u \in Latent \cup {Unmapped} : asked[m] = <<u>>
        /\ read_but_no_slave_selected[m] <=> asked[m] = <<Unmapped>>
        /\ \A s \in Latent : m \in read_data_valid[s] <=> asked[m] = <<s>>
        /\ latency_counter[m] = 1 <=> \E s \in Latent : asked[m] = <<s>>
        /\ \A s \in Latent : asked[m] = <<s>> => address_of[s] = m

\* A slave in the middle of a transfer will grant it again: its master still
\* asks for it, no answer is on its way there, and the addend points to it.
Holds(s, m) ==
    /\ requests(s, m) /\ asked[m] = << >> /\ latency_counter[m] = 0
    /\ s \in Shared => arb_addend[s] = MasterBit(m)

HoldInv ==
    \A s \in Slaves :
        /\ d1_reasons_to_wait[s] => \E m \in Masters : Holds(s, m)
        /\ s \in Stretching /\ ~waitrequest[s] => d1_reasons_to_wait[s]

\* One that was overtaken comes next.
OvertakenInv ==
    \A m \in Masters :
        /\ overtaken[m] \in {0, 1}
        /\ overtaken[m] = 1 =>
              /\ cmd[m].op # "idle" /\ cmd[m].slave \in Shared
              /\ latency_counter[m] = 0
              /\ arb_addend[cmd[m].slave] = MasterBit(m)

Inv == ArbiterOK /\ AnswerInv /\ HoldInv /\ OvertakenInv

LEMMA HeldGrant ==
    ASSUME ArbiterOK, HoldInv, NEW s \in Slaves, NEW m \in Masters,
           granted(s, m), d1_reasons_to_wait[s]
    PROVE  asked[m] = << >>
<1>1. PICK k \in Masters : Holds(s, k)
  BY DEF HoldInv
<1>2. qualified_request(s, k)
  <2>1. ~latency_blocks(s, k)
    BY <1>1 DEF Holds, latency_blocks
  <2> QED
    BY <1>1, <2>1, Unlocked DEF Holds, ArbiterOK
<1>3. granted(s, k)
  BY <1>1, <1>2, Grants DEF Holds
<1>4. k = m
  BY <1>3, Grants, Two
<1> QED
  BY <1>1, <1>4 DEF Holds

\* A read that is accepted while an answer is on its way is not answered at
\* once: it is a read of a slave with a latency, or of no slave.
LEMMA OneAnswer ==
    ASSUME ArbiterOK, AnswerInv, HoldInv, NEW m \in Masters,
           asked[m] # << >>, Reads(m), run(m)
    PROVE  cmd[m].slave \in Latent \cup {Unmapped}
<1> SUFFICES ASSUME cmd[m].slave \notin Latent \cup {Unmapped} PROVE FALSE
  OBVIOUS
<1> DEFINE s == cmd[m].slave
<1>1. s \in Slaves /\ requests(s, m)
  BY DEF ArbiterOK, Masters, requests, Reads
<1>2. s \notin Latent
  OBVIOUS
<1> HIDE DEF s
<1>3. granted(s, m)
  BY <1>1, Running
<1>4. latency_counter[m] # 1
  <2>1. ~latency_blocks(s, m)
    BY <1>3, Grants, <1>1 DEF qualified_request
  <2> QED
    BY <1>2, <2>1 DEF latency_blocks
<1>5. d1_reasons_to_wait[s]
  <2>1. CASE s \in WaitStated
    BY <1>1, <2>1, Running
  <2>2. CASE s \in Stretching
    BY <1>1, <2>2, Running DEF HoldInv
  <2> QED
    BY <1>1, <1>2, <2>1, <2>2, OneKind
<1> QED
  BY <1>1, <1>3, <1>5, HeldGrant

-----------------------------------------------------------------------------
(***************************************************************************)
(* The clock.                                                              *)
(***************************************************************************)

LEMMA Queues ==
    ASSUME NEW u, NEW v
    PROVE  /\ Append(<< >>, u) = <<u>> /\ Append(<<v>>, u) = <<v, u>>
           /\ Tail(<<v>>) = << >> /\ Tail(<<v, u>>) = <<u>>
           /\ <<v>> # << >> /\ <<v, u>> # << >>
<1>1. Append(<< >>, u) = <<u>>
  OBVIOUS
<1>2. Append(<<v>>, u) = <<v, u>>
  <2>1. <<v>> \in Seq({u, v}) /\ u \in {u, v}
    OBVIOUS
  <2>2. /\ Append(<<v>>, u) \in Seq({u, v})
        /\ Len(Append(<<v>>, u)) = 2
        /\ Append(<<v>>, u)[1] = v /\ Append(<<v>>, u)[2] = u
    BY <2>1
  <2>3. /\ <<v, u>> \in Seq({u, v}) /\ Len(<<v, u>>) = 2
        /\ <<v, u>>[1] = v /\ <<v, u>>[2] = u
    OBVIOUS
  <2> DEFINE p == Append(<<v>>, u)
             q == <<v, u>>
  <2>4. p \in Seq({u, v}) /\ q \in Seq({u, v}) /\ Len(p) = 2 /\ Len(q) = 2
        /\ p[1] = q[1] /\ p[2] = q[2]
    BY <2>2, <2>3
  <2> HIDE DEF p, q
  <2>5. Len(p) = Len(q) /\ \A i \in 1..Len(p) : p[i] = q[i]
    BY <2>4
  <2>6. p = q
    BY <2>4, <2>5, SeqEqual
  <2> QED
    BY <2>6 DEF p, q
<1>3. Tail(<<v>>) = << >>
  OBVIOUS
<1>4. Tail(<<v, u>>) = <<u>>
  OBVIOUS
<1>5. <<v>> # << >> /\ <<v, u>> # << >>
  OBVIOUS
<1> QED
  BY <1>1, <1>2, <1>3, <1>4, <1>5

\* A read is on its way after an edge if it was accepted in the cycle before it
\* and is one that is answered late; any other has been answered.
LEMMA AskedNext ==
    ASSUME ArbiterOK, AnswerInv, HoldInv, Clock, NEW m \in Masters
    PROVE  asked'[m] = IF Reads(m) /\ run(m) /\ cmd[m].slave \in Latent \cup {Unmapped}
                       THEN <<cmd[m].slave>> ELSE << >>
<1> DEFINE u == cmd[m].slave
           accepted == Reads(m) /\ run(m)
<1>1. asked'[m] = IF readdatavalid(m) /\ due(m) # << >> THEN Tail(due(m)) ELSE due(m)
  BY DEF Clock, History
<1>2. due(m) = IF accepted THEN Append(asked[m], u) ELSE asked[m]
  BY DEF due
<1>3. u \in Slaves \cup {Unmapped}
  BY DEF ArbiterOK
<1>4. readdatavalid(m) <=> asked[m] # << >> \/ \E s \in Slaves : answers(s, m)
  BY DEF readdatavalid, AnswerInv
<1>5. (\E s \in Slaves : answers(s, m)) <=> accepted /\ u \in Slaves \ Latent
  <2>1. ASSUME NEW s \in Slaves, answers(s, m) PROVE accepted /\ u \in Slaves \ Latent
    BY <2>1, Answering, RequestFacts
  <2>2. ASSUME accepted, u \in Slaves \ Latent PROVE answers(u, m)
    BY <2>2, Answering DEF requests, Reads
  <2> QED
    BY <2>1, <2>2
<1>6. asked[m] # << >> /\ accepted => u \in Latent \cup {Unmapped}
  BY OneAnswer
<1>7. Unmapped \notin Slaves /\ Latent \subseteq Slaves
  BY Two
<1>8. asked[m] = << >> \/ \E v \in Latent \cup {Unmapped} : asked[m] = <<v>>
  BY DEF AnswerInv
<1> HIDE DEF u, accepted
<1>9. CASE asked[m] = << >>
  <2>1. Append(asked[m], u) = <<u>> /\ Tail(<<u>>) = << >> /\ <<u>> # << >>
    BY <1>9
  <2> QED
    BY <1>1, <1>2, <1>3, <1>4, <1>5, <1>7, <1>9, <2>1 DEF u, accepted
<1>10. CASE asked[m] # << >>
  <2>1. PICK v \in Latent \cup {Unmapped} : asked[m] = <<v>>
    BY <1>8, <1>10
  <2>2. Append(asked[m], u) = <<v, u>> /\ Tail(<<v, u>>) = <<u>> /\ Tail(<<v>>) = << >>
        /\ <<v>> # << >> /\ <<v, u>> # << >>
    BY <2>1, Queues
  <2>3. readdatavalid(m)
    BY <1>4, <1>10
  <2>4. CASE accepted
    <3>1. due(m) = <<v, u>> /\ u \in Latent \cup {Unmapped}
      BY <1>2, <1>6, <1>10, <2>2, <2>4
    <3>2. asked'[m] = <<u>>
      BY <1>1, <2>2, <2>3, <3>1
    <3> QED
      BY <2>4, <3>1, <3>2 DEF u, accepted
  <2>5. CASE ~accepted
    <3>1. due(m) = <<v>>
      BY <1>2, <2>1, <2>5
    <3>2. asked'[m] = << >>
      BY <1>1, <2>2, <2>3, <3>1
    <3> QED
      BY <2>5, <3>2 DEF u, accepted
  <2> QED
    BY <2>4, <2>5
<1> QED
  BY <1>9, <1>10

LEMMA LockNext == LockInv /\ Clock => LockInv'
<1> SUFFICES ASSUME LockInv, Clock PROVE LockInv'
  OBVIOUS
<1>1. ASSUME NEW s \in Slaves PROVE arb_share_counter_next_value(s) = 0
  BY DEF LockInv, arb_share_counter_next_value, arb_share_set_values
<1>2. arb_share_counter' = [s \in Slaves |-> 0]
  BY <1>1 DEF Clock, SlaveShareEdge, LockInv
<1>3. slavearbiterlockenable' = [s \in Slaves |-> FALSE]
  <2>1. ASSUME NEW s \in Slaves
        PROVE  /\ (arb_share_counter_next_value(s) = 1) = FALSE
               /\ slavearbiterlockenable[s] = FALSE
    <3>1. arb_share_counter_next_value(s) # 1
      BY <1>1
    <3>2. slavearbiterlockenable[s] = FALSE
      BY DEF LockInv
    <3> QED
      BY <3>1, <3>2, Zenon
  <2>2. slavearbiterlockenable' = [s \in Slaves |->
            IF /\ end_xfer(s)
               /\ \/ s \in Shared => master_qreq_vector(s) # 0
                  \/ ~non_bursting_master_requests(s)
            THEN arb_share_counter_next_value(s) = 1 ELSE slavearbiterlockenable[s]]
    BY DEF Clock, SlaveShareEdge
  <2> HIDE DEF LockInv
  <2>3. ASSUME NEW s \in Slaves
        PROVE  (IF /\ end_xfer(s)
                   /\ \/ s \in Shared => master_qreq_vector(s) # 0
                      \/ ~non_bursting_master_requests(s)
                THEN arb_share_counter_next_value(s) = 1 ELSE slavearbiterlockenable[s])
               = FALSE
    BY <2>1, Zenon
  <2> QED
    BY <2>2, <2>3, Zenon
<1> QED
  BY <1>2, <1>3 DEF LockInv

\* The addend points past the winner of a transfer that ends, and to the
\* winner of one that goes on.
LEMMA AddendNext ==
    ASSUME ArbiterOK, Clock, NEW s \in Shared
    PROVE  /\ arb_addend'[s] \in 1..2 /\ saved_chosen_master_vector'[s] \in 0..2
           /\ \A m \in Masters : granted(s, m) =>
                arb_addend'[s] = MasterBit(IF end_xfer(s) THEN Other(m) ELSE m)
<1>1. s \in Slaves /\ grant_vector(s) \in 0..2 /\ allow_new_arb_cycle(s)
  BY Two, Grants, Unlocked DEF ArbiterOK, Masters
<1>2. arb_addend[s] \in 1..2 /\ saved_chosen_master_vector[s] \in 0..2
  BY DEF ArbiterOK
<1>3. arb_addend'[s] = next_arb_addend(s)
      /\ saved_chosen_master_vector'[s] =
            IF grant_vector(s) # 0 THEN grant_vector(s) ELSE saved_chosen_master_vector[s]
  BY <1>1 DEF Clock, SlaveGrantEdge
<1>4. grant_vector(s) # 0 =>
        chosen_master_rot_left(s) = IF grant_vector(s) = 1 THEN 2 ELSE 1
  BY <1>1 DEF chosen_master_rot_left, arb_winner
<1>5. next_arb_addend(s) =
        IF grant_vector(s) = 0 THEN arb_addend[s]
        ELSE IF end_xfer(s) THEN (IF grant_vector(s) = 1 THEN 2 ELSE 1) ELSE grant_vector(s)
  BY <1>4 DEF next_arb_addend
<1>6. ASSUME NEW m \in Masters, granted(s, m)
      PROVE  arb_addend'[s] = MasterBit(IF end_xfer(s) THEN Other(m) ELSE m)
  <2>1. grant_vector(s) = MasterBit(m)
    BY <1>1, <1>6, Grants
  <2>2. MasterBit(0) = 1 /\ MasterBit(1) = 2 /\ Other(0) = 1 /\ Other(1) = 0
    BY DEF MasterBit, Other, cpu_0_instruction_master
  <2> QED
    BY <1>3, <1>5, <2>1, <2>2, Two
<1> QED
  BY <1>1, <1>2, <1>3, <1>5, <1>6

\* A master that is kept waiting holds its command.
LEMMA CommandNext ==
    ASSUME ArbiterOK, Clock
    PROVE  /\ cmd' \in [Masters -> [op: {"idle", "read", "write"}, slave: Slaves \cup {Unmapped}]]
           /\ \A m \in Masters :
                /\ cmd'[m].op = "idle" => cmd'[m].slave = Unmapped
                /\ m = cpu_0_instruction_master => cmd'[m].slave \in Shared \cup {Unmapped}
                /\ waits(m) => cmd'[m] = cmd[m]
<1>1. ASSUME NEW m \in Masters, NEW c \in NextCommands(m)
      PROVE  /\ c \in [op: {"idle", "read", "write"}, slave: Slaves \cup {Unmapped}]
             /\ c.op = "idle" => c.slave = Unmapped
             /\ m = cpu_0_instruction_master => c.slave \in Shared \cup {Unmapped}
             /\ waits(m) => c = cmd[m]
  <2>1. CASE waits(m)
    BY <1>1, <2>1 DEF NextCommands, ArbiterOK
  <2>2. CASE ~waits(m)
    <3>1. c \in Commands(m)
      BY <1>1, <2>2 DEF NextCommands
    <3> QED
      BY <2>2, <3>1, Two DEF Commands, Idle
  <2> QED
    BY <2>1, <2>2
<1>2. PICK c0 \in NextCommands(cpu_0_instruction_master), c1 \in NextCommands(cpu_0_data_master) :
        cmd' = [m \in Masters |-> IF m = cpu_0_data_master THEN c1 ELSE c0]
  BY DEF Clock
<1>3. ASSUME NEW m \in Masters PROVE cmd'[m] \in NextCommands(m)
  BY <1>2, Two DEF cpu_0_instruction_master, cpu_0_data_master
<1>4. ASSUME NEW m \in Masters
      PROVE  /\ cmd'[m] \in [op: {"idle", "read", "write"}, slave: Slaves \cup {Unmapped}]
             /\ cmd'[m].op = "idle" => cmd'[m].slave = Unmapped
             /\ m = cpu_0_instruction_master => cmd'[m].slave \in Shared \cup {Unmapped}
             /\ waits(m) => cmd'[m] = cmd[m]
  BY <1>1, <1>3
<1> QED
  BY <1>2, <1>4

LEMMA LatencyNext ==
    ASSUME ArbiterOK, Clock
    PROVE  /\ latency_counter' \in [Masters -> 0..1]
           /\ \A m \in Masters : latency_counter'[m] = 1 <=>
                Reads(m) /\ run(m) /\ cmd[m].slave \in Latent
<1>1. ASSUME NEW m \in Masters
      PROVE  latency_counter'[m] =
                IF run(m) /\ Reads(m) THEN latency_load_value(m)
                ELSE IF latency_counter[m] = 1 THEN latency_counter[m] - 1 ELSE 0
  BY DEF Clock, MasterEdge
<1>2. ASSUME NEW m \in Masters, Reads(m)
      PROVE  latency_load_value(m) = IF cmd[m].slave \in Latent THEN 1 ELSE 0
  BY <1>2 DEF latency_load_value, requests, Reads
<1>3. ASSUME NEW m \in Masters
      PROVE  latency_counter'[m] =
                IF Reads(m) /\ run(m) /\ cmd[m].slave \in Latent THEN 1 ELSE 0
  BY <1>1, <1>2
<1>4. latency_counter' = [m \in Masters |-> latency_counter'[m]]
  BY DEF Clock, MasterEdge
<1> QED
  BY <1>3, <1>4

LEMMA ArbiterNext == ArbiterOK /\ Clock => ArbiterOK'
<1> SUFFICES ASSUME ArbiterOK, Clock PROVE ArbiterOK'
  OBVIOUS
<1>1. arb_addend' \in [Shared -> 1..2] /\ saved_chosen_master_vector' \in [Shared -> 0..2]
  <2>1. /\ arb_addend' = [s \in Shared |-> arb_addend'[s]]
        /\ saved_chosen_master_vector' = [s \in Shared |-> saved_chosen_master_vector'[s]]
    BY DEF Clock, SlaveGrantEdge
  <2> QED
    BY <2>1, AddendNext
<1>2. LockInv'
  BY LockNext DEF ArbiterOK
<1> QED
  BY <1>1, <1>2, CommandNext, LatencyNext DEF ArbiterOK

LEMMA AnswerNext == ArbiterOK /\ AnswerInv /\ HoldInv /\ Clock => AnswerInv'
<1> SUFFICES ASSUME ArbiterOK, AnswerInv, HoldInv, Clock, NEW m \in Masters
             PROVE  /\ asked'[m] = << >> \/ \E u \in Latent \cup {Unmapped} : asked'[m] = <<u>>
                    /\ read_but_no_slave_selected'[m] <=> asked'[m] = <<Unmapped>>
                    /\ \A s \in Latent : m \in read_data_valid'[s] <=> asked'[m] = <<s>>
                    /\ latency_counter'[m] = 1 <=> \E s \in Latent : asked'[m] = <<s>>
                    /\ \A s \in Latent : asked'[m] = <<s>> => address_of'[s] = m
  BY DEF AnswerInv
<1> DEFINE u == cmd[m].slave
           accepted == Reads(m) /\ run(m)
<1>1. asked'[m] = IF accepted /\ u \in Latent \cup {Unmapped} THEN <<u>> ELSE << >>
  BY AskedNext
<1>2. u \in Slaves \cup {Unmapped} /\ Unmapped \notin Slaves /\ Latent \subseteq Slaves
  BY Two DEF ArbiterOK
<1>3. \A s \in Latent : granted(s, m) /\ Reads(m) <=> accepted /\ u = s
  <2>1. ASSUME NEW s \in Latent, granted(s, m), Reads(m) PROVE accepted /\ u = s
    <3>1. requests(s, m)
      BY <1>2, <2>1, Grants
    <3>2. s \notin Stretching /\ s \notin WaitStated
      BY <1>2, OneKind
    <3> QED
      BY <1>2, <2>1, <3>1, <3>2, Running, RequestFacts
  <2>2. ASSUME NEW s \in Latent, accepted, u = s PROVE granted(s, m)
    <3>1. requests(s, m)
      BY <2>2 DEF requests, Reads
    <3> QED
      BY <1>2, <2>2, <3>1, Running
  <2> QED
    BY <2>1, <2>2
<1>4. accepted /\ (\A s \in Slaves : ~granted(s, m)) <=> accepted /\ u = Unmapped
  <2>1. ASSUME accepted, u # Unmapped PROVE \E s \in Slaves : granted(s, m)
    <3>1. u \in Slaves /\ requests(u, m)
      BY <1>2, <2>1 DEF requests, Reads
    <3> QED
      BY <2>1, <3>1, Running
  <2> QED
    BY <2>1, RunningUnmapped
<1>5. read_but_no_slave_selected'[m] <=> accepted /\ u = Unmapped
  BY <1>4 DEF Clock, MasterEdge, is_granted_some_slave
<1>6. \A s \in Latent : m \in read_data_valid'[s] <=> accepted /\ u = s
  BY <1>3 DEF Clock, SlaveReadEdge
<1>7. latency_counter'[m] = 1 <=> accepted /\ u \in Latent
  BY LatencyNext
<1>8. \A s \in Latent : accepted /\ u = s => address_of'[s] = m
  <2>1. ASSUME NEW s \in Latent, granted(s, m) PROVE address_of'[s] = m
    <3>1. address_of'[s] = IF granted(s, cpu_0_data_master)
                           THEN cpu_0_data_master ELSE cpu_0_instruction_master
      BY DEF Clock, SlaveReadEdge
    <3>2. m # cpu_0_data_master => ~granted(s, cpu_0_data_master)
      BY <1>2, <2>1, Grants, Two DEF cpu_0_data_master, Masters
    <3> QED
      BY <2>1, <3>1, <3>2 DEF Masters
  <2> QED
    BY <1>3, <2>1
<1> HIDE DEF u, accepted
<1>9. \A v : <<u>> = <<v>> <=> u = v
  OBVIOUS
<1>10. \A v : <<v>> # << >>
  OBVIOUS
<1> QED
  BY <1>1, <1>2, <1>5, <1>6, <1>7, <1>8, <1>9, <1>10

LEMMA HoldNext == ArbiterOK /\ AnswerInv /\ HoldInv /\ Clock => HoldInv'
<1> SUFFICES ASSUME ArbiterOK, AnswerInv, HoldInv, Clock, NEW s \in Slaves
             PROVE  /\ d1_reasons_to_wait'[s] => \E m \in Masters : Holds(s, m)'
                    /\ s \in Stretching /\ ~waitrequest'[s] => d1_reasons_to_wait'[s]
  BY DEF HoldInv
<1>1. d1_reasons_to_wait'[s] <=> ~end_xfer(s)
  BY DEF Clock, SlaveReadEdge
<1>2. ASSUME ~end_xfer(s) PROVE \E m \in Masters : Holds(s, m)'
  <2>1. PICK m \in Masters : granted(s, m) /\ ~run(m)
    BY <1>2, Kept
  <2>2. requests(s, m)
    BY <2>1, Grants
  <2>3. waits(m)
    BY <2>1, <2>2 DEF waits, requests
  <2>4. requests(s, m)'
    BY <2>2, <2>3, CommandNext DEF requests
  <2>5. asked'[m] = << >>
    BY <2>1, AskedNext
  <2>6. latency_counter'[m] = 0
    BY <2>1, LatencyNext
  <2>7. s \in Shared => arb_addend'[s] = MasterBit(m)
    BY <1>2, <2>1, AddendNext
  <2> QED
    BY <2>4, <2>5, <2>6, <2>7 DEF Holds
<1>3. ASSUME s \in Stretching, ~waitrequest'[s] PROVE ~end_xfer(s)
  <2>1. (in_a_read_cycle(s) \/ in_a_write_cycle(s)) /\ waitrequest[s]
    BY <1>3 DEF Clock, SlaveReadEdge
  <2> QED
    BY <1>3, <2>1 DEF end_xfer, waits_for_read, waits_for_write
<1> QED
  BY <1>1, <1>2, <1>3

LEMMA OvertakenNext == ArbiterOK /\ OvertakenInv /\ Clock => OvertakenInv'
<1> SUFFICES ASSUME ArbiterOK, OvertakenInv, Clock, NEW m \in Masters
             PROVE  /\ overtaken'[m] \in {0, 1}
                    /\ overtaken'[m] = 1 =>
                          /\ cmd'[m].op # "idle" /\ cmd'[m].slave \in Shared
                          /\ latency_counter'[m] = 0
                          /\ arb_addend'[cmd'[m].slave] = MasterBit(m)
  BY DEF OvertakenInv
<1> DEFINE passed == \E s \in Slaves : qualified_request(s, m) /\ ~granted(s, m) /\ end_xfer(s)
<1>1. overtaken'[m] = IF ~waits(m) THEN 0
                      ELSE IF overtaken[m] < OvertakenCap /\ passed
                           THEN overtaken[m] + 1 ELSE overtaken[m]
  BY DEF Clock, History
<1> HIDE DEF passed
<1>2. overtaken[m] \in {0, 1}
  BY DEF OvertakenInv
<1>3. ASSUME waits(m)
      PROVE  cmd'[m] = cmd[m] /\ cmd[m].op # "idle" /\ ~run(m) /\ latency_counter'[m] = 0
  BY <1>3, CommandNext, LatencyNext DEF waits
<1>4. ASSUME waits(m), overtaken[m] = 1
      PROVE  /\ ~passed
             /\ cmd[m].slave \in Shared
             /\ arb_addend'[cmd[m].slave] = MasterBit(m)
  <2> DEFINE s == cmd[m].slave
  <2>1. s \in Shared /\ latency_counter[m] = 0 /\ arb_addend[s] = MasterBit(m)
    BY <1>4 DEF OvertakenInv
  <2>2. s \in Slaves /\ requests(s, m)
    BY <1>3, <1>4, <2>1, Two DEF requests
  <2>3. qualified_request(s, m)
    BY <2>1, <2>2, Unlocked DEF latency_blocks, ArbiterOK
  <2>4. granted(s, m)
    BY <2>1, <2>2, <2>3, Grants
  <2>5. ~end_xfer(s)
    BY <1>3, <1>4, <2>2, <2>4, Kept
  <2>6. ~passed
    BY <2>2, <2>4, RequestFacts DEF passed, qualified_request
  <2> QED
    BY <2>1, <2>4, <2>5, <2>6, AddendNext
<1>5. ASSUME waits(m), passed
      PROVE  cmd[m].slave \in Shared /\ arb_addend'[cmd[m].slave] = MasterBit(m)
  <2>1. PICK s \in Slaves : qualified_request(s, m) /\ ~granted(s, m) /\ end_xfer(s)
    BY <1>5 DEF passed
  <2>2. cmd[m].slave = s
    BY <2>1 DEF qualified_request, requests
  <2>3. s \in Shared
    BY <2>1, Grants
  <2>4. PICK k \in Masters : granted(s, k)
    BY <2>1, Grants
  <2>5. Other(k) = m
    BY <2>1, <2>4, Two
  <2> QED
    BY <2>1, <2>2, <2>3, <2>4, <2>5, AddendNext
<1>6. CASE ~waits(m)
  BY <1>1, <1>6
<1>7. CASE waits(m) /\ overtaken[m] = 1
  BY <1>1, <1>3, <1>4, <1>7
<1>8. CASE waits(m) /\ overtaken[m] = 0 /\ passed
  BY <1>1, <1>3, <1>5, <1>8 DEF OvertakenCap
<1>9. CASE waits(m) /\ overtaken[m] = 0 /\ ~passed
  BY <1>1, <1>9
<1> QED
  BY <1>2, <1>6, <1>7, <1>8, <1>9

-----------------------------------------------------------------------------
(***************************************************************************)
(* The start, and the theorems.                                            *)
(***************************************************************************)

\* The registers as reset_n leaves them satisfy the invariant.
LEMMA Cleared ==
    ASSUME cmd = [m \in Masters |-> Idle],
           d1_reasons_to_wait = [s \in Slaves |-> FALSE],
           arb_share_counter = [s \in Slaves |-> 0],
           slavearbiterlockenable = [s \in Slaves |-> FALSE],
           saved_chosen_master_vector = [s \in Shared |-> 0],
           arb_addend = [s \in Shared |-> 1],
           read_data_valid = [s \in Latent |-> {}],
           latency_counter = [m \in Masters |-> 0],
           read_but_no_slave_selected = [m \in Masters |-> FALSE],
           waitrequest = [s \in Stretching |-> TRUE],
           asked = [m \in Masters |-> << >>],
           overtaken = [m \in Masters |-> 0]
    PROVE  Inv
<1>1. ArbiterOK
  BY Two DEF ArbiterOK, LockInv, Idle
<1>2. AnswerInv
  <2>1. \A u : <<u>> # << >>
    OBVIOUS
  <2> QED
    BY <2>1 DEF AnswerInv
<1>3. HoldInv
  BY Two DEF HoldInv
<1>4. OvertakenInv
  BY DEF OvertakenInv
<1> QED
  BY <1>1, <1>2, <1>3, <1>4 DEF Inv

LEMMA InvInit == Init => Inv
BY Cleared DEF Init

LEMMA InvNext == Inv /\ [Next]_vars => Inv'
<1> SUFFICES ASSUME Inv, [Next]_vars PROVE Inv'
  OBVIOUS
<1>1. CASE Clock
  BY <1>1, ArbiterNext, AnswerNext, HoldNext, OvertakenNext DEF Inv
<1>2. CASE Reset
  <2>1. /\ cmd' = [m \in Masters |-> Idle]
        /\ d1_reasons_to_wait' = [s \in Slaves |-> FALSE]
        /\ LockInv'
        /\ saved_chosen_master_vector' = [s \in Shared |-> 0]
        /\ arb_addend' = [s \in Shared |-> 1]
        /\ read_data_valid' = [s \in Latent |-> {}]
        /\ latency_counter' = [m \in Masters |-> 0]
        /\ read_but_no_slave_selected' = [m \in Masters |-> FALSE]
        /\ waitrequest' = [s \in Stretching |-> TRUE]
        /\ asked' = [m \in Masters |-> << >>]
        /\ overtaken' = [m \in Masters |-> 0]
    BY <1>2 DEF Reset, LockInv
  <2>2. ArbiterOK'
    BY <2>1, Two DEF ArbiterOK, Idle
  <2>3. AnswerInv'
    <3>1. \A u : <<u>> # << >>
      OBVIOUS
    <3> QED
      BY <2>1, <3>1 DEF AnswerInv
  <2>4. HoldInv'
    BY <2>1, Two DEF HoldInv
  <2>5. OvertakenInv'
    BY <2>1 DEF OvertakenInv
  <2> QED
    BY <2>2, <2>3, <2>4, <2>5 DEF Inv
<1>3. CASE UNCHANGED vars
  <2> USE <1>3 DEF vars, slaveRegs, masterRegs
  <2>1. ArbiterOK'
    BY DEF Inv, ArbiterOK, LockInv
  <2>2. AnswerInv'
    BY DEF Inv, AnswerInv
  <2>3. HoldInv'
    BY DEF Inv, HoldInv, Holds, requests
  <2>4. OvertakenInv'
    BY DEF Inv, OvertakenInv
  <2> QED
    BY <2>1, <2>2, <2>3, <2>4 DEF Inv
<1> QED
  BY <1>1, <1>2, <1>3 DEF Next

LEMMA InvAlways == Spec => []Inv
BY InvInit, InvNext, PTL DEF Spec

\* No two masters are ever granted one slave, nor have a saved grant to one:
\* what the simulation-only processes of the arbitrators assert.
THEOREM Exclusion == Spec => []GrantsExclusive
<1>1. ASSUME ArbiterOK PROVE GrantsExclusive
  <2>1. ASSUME NEW s \in Slaves PROVE ~ \A m \in Masters : granted(s, m)
    BY <1>1, Grants, Two
  <2>2. ASSUME NEW s \in Shared PROVE ~ \A m \in Masters : saved_grant(s, m)
    <3>1. arb_winner(s) \in 0..2
      BY <1>1, Grants, Two DEF arb_winner, ArbiterOK
    <3>2. ~(Bit(arb_winner(s), 0) /\ Bit(arb_winner(s), 1))
      BY <3>1, Bits
    <3> QED
      BY <3>2, Two DEF saved_grant
  <2> QED
    BY <2>1, <2>2 DEF GrantsExclusive
<1>2. Inv => GrantsExclusive
  BY <1>1 DEF Inv
<1> QED
  BY <1>2, InvAlways, PTL

\* Round robin: whatever the slaves and the two masters do, a request that is
\* ready is passed by at most one transfer of the other master.
THEOREM Overtaking == Spec => []OvertakenOnce
<1>1. Inv => OvertakenOnce
  BY DEF Inv, OvertakenInv, OvertakenOnce
<1> QED
  BY <1>1, InvAlways, PTL

\* Every read is answered once, in order and with the data of the slave that
\* was read, for every mix of slaves with and without a latency: no answer
\* meets another one on the AND of readdata.
THEOREM Answers == Spec => []ReadsAnswered
<1>1. ASSUME Inv, NEW m \in Masters
      PROVE  /\ readdatavalid(m) =>
                 /\ due(m) # << >>
                 /\ Head(due(m)) # Unmapped => drives(m) = {Head(due(m))}
                 /\ Head(due(m)) \in Latent => address_of[Head(due(m))] = m
             /\ asked[m] # << >> => readdatavalid(m)
  <2> USE <1>1
  <2>1. ArbiterOK /\ AnswerInv
    BY DEF Inv
  <2>2. readdatavalid(m) <=> asked[m] # << >> \/ \E s \in Slaves : answers(s, m)
    BY <2>1 DEF readdatavalid, AnswerInv
  <2>3. \A v, w : /\ <<v>> # << >> /\ <<v, w>> # << >>
                  /\ Head(<<v>>) = v /\ Head(<<v, w>>) = v
                  /\ Append(<< >>, w) = <<w>> /\ Append(<<v>>, w) = <<v, w>>
    <3>1. \A v, w : Head(<<v>>) = v /\ Head(<<v, w>>) = v
      OBVIOUS
    <3> QED
      BY <3>1, Queues
  <2>4. ASSUME NEW s \in Slaves
        PROVE  s \in drives(m) <=>
                 IF s \in Latent THEN asked[m] = <<s>> ELSE qualified_request(s, m) /\ Reads(m)
    BY <2>1 DEF drives, AnswerInv
  <2>5. CASE asked[m] # << >>
    <3>1. PICK v \in Latent \cup {Unmapped} : asked[m] = <<v>>
      BY <2>1, <2>5 DEF AnswerInv
    <3>2. due(m) # << >> /\ Head(due(m)) = v
      BY <2>3, <3>1 DEF due
    <3>3. ASSUME v \in Latent PROVE drives(m) = {v} /\ address_of[v] = m
      <4>1. latency_counter[m] = 1 /\ address_of[v] = m
        BY <2>1, <3>1, <3>3 DEF AnswerInv
      <4>2. ASSUME NEW s \in Slaves \ Latent PROVE ~(qualified_request(s, m) /\ Reads(m))
        BY <4>1, <4>2 DEF qualified_request, latency_blocks
      <4>3. \A s \in Slaves : s \in drives(m) <=> s = v
        <5>1. \A w : <<v>> = <<w>> <=> v = w
          OBVIOUS
        <5> QED
          BY <2>4, <3>1, <3>3, <4>2, <5>1
      <4>4. drives(m) \subseteq Slaves /\ v \in Slaves
        BY <3>3, Two DEF drives
      <4> QED
        BY <4>1, <4>3, <4>4
    <3>4. v # Unmapped => v \in Latent
      OBVIOUS
    <3>5. v \in Latent => v # Unmapped
      BY Two
    <3> QED
      BY <2>2, <2>5, <3>2, <3>3, <3>4, <3>5
  <2>6. CASE asked[m] = << >>
    <3>1. SUFFICES ASSUME readdatavalid(m)
                   PROVE  /\ due(m) # << >>
                          /\ drives(m) = {Head(due(m))}
                          /\ Head(due(m)) \notin Latent
      BY <2>6
    <3>2. PICK s \in Slaves : answers(s, m)
      BY <2>2, <2>6, <3>1
    <3>3. s \notin Latent /\ requests(s, m) /\ Reads(m) /\ run(m) /\ cmd[m].slave = s
      BY <2>1, <3>2, Answering, RequestFacts
    <3>4. due(m) = <<s>>
      BY <2>3, <2>6, <3>3 DEF due
    <3>5. qualified_request(s, m)
      BY <3>3 DEF run
    <3>6. \A t \in Slaves : t \in drives(m) <=> t = s
      <4>1. \A t : <<t>> # asked[m]
        BY <2>3, <2>6
      <4> QED
        BY <2>1, <2>4, <3>3, <3>5, <4>1, RequestFacts DEF qualified_request
    <3>7. drives(m) \subseteq Slaves
      BY DEF drives
    <3> QED
      BY <2>3, <3>3, <3>4, <3>6, <3>7
  <2> QED
    BY <2>5, <2>6
<1>2. Inv => ReadsAnswered
  BY <1>1 DEF ReadsAnswered
<1> QED
  BY <1>2, InvAlways, PTL
=============================================================================
