---------------------------- MODULE Interconnect ----------------------------
(***************************************************************************)
(* The Avalon interconnect of the two Nios II systems: Lab2's uart_com.vhd *)
(* and Lab3's nios_uart_hw.vhd.  Every slave has an arbitrator entity and  *)
(* either master of the processor one of its own; this module is those     *)
(* entities, written once and parameterised by the table of the slaves,    *)
(* Ports (module UartCom has the tables of the two systems).               *)
(*                                                                         *)
(* The operators before the registers' next values are the entities'       *)
(* combinational signals, under the source's names; Clock is one rising    *)
(* edge of clk.  Vectors over the masters are numbers with bit 0 for       *)
(* cpu_0_instruction_master and bit 1 for cpu_0_data_master.  Data and     *)
(* addresses are abstracted to the slave that drives or is addressed.      *)
(***************************************************************************)
EXTENDS Integers, Sequences

CONSTANTS
    Ports,      \* Ports[s]: how slave s answers, and whether both masters reach it
    Unmapped    \* an address no slave decodes

Slaves == DOMAIN Ports

Kinds ==
    {"wait",            \* a read takes one wait state, a write none
     "latency",         \* no wait state; the data of a read comes a clock later
     "waitrequest"}     \* the slave itself holds the transfer, by its waitrequest

ASSUME PortsAssumption ==
    /\ Ports \in [Slaves -> [kind: Kinds, shared: BOOLEAN]]
    /\ Unmapped \notin Slaves

cpu_0_instruction_master == 0
cpu_0_data_master == 1
Masters == {cpu_0_instruction_master, cpu_0_data_master}

Shared == {s \in Slaves : Ports[s].shared}
WaitStated == {s \in Slaves : Ports[s].kind = "wait"}
Latent == {s \in Slaves : Ports[s].kind = "latency"}
Stretching == {s \in Slaves : Ports[s].kind = "waitrequest"}

VARIABLES
    cmd,                        \* what each master drives: read, write, address
    \* a slave's arbitrator
    d1_reasons_to_wait,         \* and d1_end_xfer, its complement
    arb_share_counter, slavearbiterlockenable, reg_firsttransfer,
    last_cycle_granted,         \* the masters granted in the last cycle
    saved_chosen_master_vector, arb_addend,
    read_data_valid,            \* the shift registers of the "latency" slaves
    \* a master's arbitrator
    latency_counter, read_but_no_slave_selected,
    \* the slaves
    waitrequest,                \* the register of a "waitrequest" slave
    address_of,                 \* whose address a "latency" slave registered
    \* history
    asked,                      \* accepted reads not answered yet, oldest first
    overtaken                   \* transfers of the other master that ended at
                                \* the slave where this one's request was ready

slaveRegs == <<d1_reasons_to_wait, arb_share_counter, slavearbiterlockenable,
               reg_firsttransfer, last_cycle_granted,
               saved_chosen_master_vector, arb_addend, read_data_valid>>
masterRegs == <<latency_counter, read_but_no_slave_selected>>
vars == <<cmd, slaveRegs, masterRegs, waitrequest, address_of, asked, overtaken>>

Idle == [op |-> "idle", slave |-> Unmapped]

\* The instruction master only reads, and only the shared slaves decode it.
Commands(m) ==
    IF m = cpu_0_instruction_master
    THEN {Idle} \cup [op: {"read"}, slave: Shared \cup {Unmapped}]
    ELSE {Idle} \cup [op: {"read", "write"}, slave: Slaves \cup {Unmapped}]

Reads(m) == cmd[m].op = "read"
Other(m) == 1 - m

-----------------------------------------------------------------------------
(* One slave's arbitrator. *)

requests(s, m) == cmd[m].op # "idle" /\ cmd[m].slave = s

continuerequest(s, m) ==
    (s \in Shared => m \in last_cycle_granted[s]) /\ requests(s, m)

arbiterlock(s, m) == slavearbiterlockenable[s] /\ continuerequest(s, m)

\* Variant to be refuted: a slave that answers at once does not wait for the
\* data still on its way to the master.
latency_blocksLate(s, m) == Reads(m) /\ latency_counter[m] > 1

\* A read waits while an answer is on its way that it would overtake: any at
\* all, or for a slave with a latency of its own, one further away than that.
latency_blocks(s, m) ==
    Reads(m) /\ latency_counter[m] > (IF s \in Latent THEN 1 ELSE 0)

qualified_request(s, m) ==
    /\ requests(s, m)
    /\ ~latency_blocks(s, m)
    /\ ~(s \in Shared /\ arbiterlock(s, Other(m)))

Pow2 == <<1, 2, 4, 8>>
Bit(v, i) == (v \div Pow2[i + 1]) % 2 = 1
Vector(b0, b1) == (IF b0 THEN 1 ELSE 0) + (IF b1 THEN 2 ELSE 0)

master_qreq_vector(s) ==
    Vector(qualified_request(s, cpu_0_instruction_master),
           qualified_request(s, cpu_0_data_master))

\* Bit i of the doubled request vector and, as a number of five bits, its
\* complement plus the addend: the first request at or above the addend.
chosen_master_double_vector(q, addend, i) ==
    Bit(q + 4 * q, i) /\ Bit((15 - (q + 4 * q)) + addend, i)

\* The first request at or above the addend, wrapping around.
chosen ==
    [q \in 0..3 |-> [addend \in 0..3 |->
        Vector(\E i \in {0, 2} : chosen_master_double_vector(q, addend, i),
               \E i \in {1, 3} : chosen_master_double_vector(q, addend, i))]]

grant_vector(s) ==
    IF s \in Shared THEN chosen[master_qreq_vector(s)][arb_addend[s]]
    ELSE master_qreq_vector(s)

granted(s, m) == Bit(grant_vector(s), m)

begins_xfer(s) == ~d1_reasons_to_wait[s] /\ \E m \in Masters : qualified_request(s, m)

in_a_read_cycle(s) == \E m \in Masters : granted(s, m) /\ Reads(m)
in_a_write_cycle(s) == \E m \in Masters : granted(s, m) /\ cmd[m].op = "write"

waits_for_read(s) ==
    /\ in_a_read_cycle(s)
    /\ \/ s \in WaitStated /\ begins_xfer(s)
       \/ s \in Stretching /\ waitrequest[s]

waits_for_write(s) ==
    in_a_write_cycle(s) /\ s \in Stretching /\ waitrequest[s]

end_xfer(s) == ~(waits_for_read(s) \/ waits_for_write(s))

unreg_firsttransfer(s) ==
    ~ /\ slavearbiterlockenable[s]
      /\ s \in Shared => \E m \in Masters : continuerequest(s, m)

firsttransfer(s) ==
    IF begins_xfer(s) THEN unreg_firsttransfer(s) ELSE reg_firsttransfer[s]

arb_share_set_values == 1

arb_share_counter_next_value(s) ==
    IF firsttransfer(s) THEN arb_share_set_values - 1
    ELSE IF arb_share_counter[s] = 1 THEN arb_share_counter[s] - 1 ELSE 0

\* With one master the grant and request vectors are tied to '1'.
allgrants(s) == s \in Shared => grant_vector(s) # 0
non_bursting_master_requests(s) == \E m \in Masters : requests(s, m)

allow_new_arb_cycle(s) == \A m \in Masters : ~arbiterlock(s, m)

arb_winner(s) ==
    IF allow_new_arb_cycle(s) /\ grant_vector(s) # 0 THEN grant_vector(s)
    ELSE saved_chosen_master_vector[s]

saved_grant(s, m) == Bit(arb_winner(s), m) /\ requests(s, m)

arbitration_holdoff_internal(s) == begins_xfer(s) /\ firsttransfer(s)

\* Variant to be refuted: the bit that is shifted out is or'ed in again.
chosen_master_rot_leftTwoHot(s) == 1 + ((2 * arb_winner(s)) % 4)

chosen_master_rot_left(s) ==
    IF (2 * arb_winner(s)) % 4 # 0 THEN (2 * arb_winner(s)) % 4 ELSE 1

\* Variant to be refuted: the priorities do not rotate.
next_arb_addendFixed(s) == 1

\* Variant to be refuted: the priorities rotate in a wait state, too.
next_arb_addendEarly(s) ==
    IF grant_vector(s) = 0 THEN arb_addend[s] ELSE chosen_master_rot_left(s)

next_arb_addend(s) ==
    IF grant_vector(s) = 0 THEN arb_addend[s]
    ELSE IF end_xfer(s) THEN chosen_master_rot_left(s) ELSE grant_vector(s)

-----------------------------------------------------------------------------
(* One master's arbitrator. *)

\* cpu_0_data_master_run and cpu_0_instruction_master_run: no slave that is
\* addressed keeps the master waiting.
run(m) ==
    \A s \in Slaves : requests(s, m) =>
        /\ qualified_request(s, m)
        /\ granted(s, m)
        /\ s \in Stretching => ~waitrequest[s]
        /\ s \in WaitStated /\ Reads(m) => d1_reasons_to_wait[s]

is_granted_some_slave(m) == \E s \in Slaves : granted(s, m)

\* What a slave without a latency answers a read it accepts with, at once.
answers(s, m) ==
    s \notin Latent /\ granted(s, m) /\ Reads(m) /\ ~waits_for_read(s)

readdatavalid(m) ==
    \/ read_but_no_slave_selected[m]
    \/ \E s \in Latent : m \in read_data_valid[s]
    \/ \E s \in Slaves : answers(s, m)

\* The readdata multiplexer is an AND: these are the slaves it does not mask.
drives(m) ==
    {s \in Slaves :
        IF s \in Latent THEN m \in read_data_valid[s]
        ELSE qualified_request(s, m) /\ Reads(m)}

latency_load_value(m) == IF \E s \in Latent : requests(s, m) THEN 1 ELSE 0

waits(m) == cmd[m].op # "idle" /\ ~run(m)

-----------------------------------------------------------------------------
Init ==
    /\ cmd = [m \in Masters |-> Idle]
    /\ d1_reasons_to_wait = [s \in Slaves |-> FALSE]
    /\ arb_share_counter = [s \in Slaves |-> 0]
    /\ slavearbiterlockenable = [s \in Slaves |-> FALSE]
    /\ reg_firsttransfer = [s \in Slaves |-> TRUE]
    /\ last_cycle_granted = [s \in Shared |-> {}]
    /\ saved_chosen_master_vector = [s \in Shared |-> 0]
    /\ arb_addend = [s \in Shared |-> 1]
    /\ read_data_valid = [s \in Latent |-> {}]
    /\ latency_counter = [m \in Masters |-> 0]
    /\ read_but_no_slave_selected = [m \in Masters |-> FALSE]
    /\ waitrequest = [s \in Stretching |-> TRUE]
    /\ address_of = [s \in Latent |-> cpu_0_instruction_master]
    /\ asked = [m \in Masters |-> << >>]
    /\ overtaken = [m \in Masters |-> 0]

\* The share counter and the lock it would set are registers with an enable.
SlaveShareEdge ==
    /\ arb_share_counter' = [s \in Slaves |->
            IF end_xfer(s) /\ (allgrants(s) \/ ~non_bursting_master_requests(s))
            THEN arb_share_counter_next_value(s) ELSE arb_share_counter[s]]
    /\ slavearbiterlockenable' = [s \in Slaves |->
            IF /\ end_xfer(s)
               /\ \/ s \in Shared => master_qreq_vector(s) # 0
                  \/ ~non_bursting_master_requests(s)
            THEN arb_share_counter_next_value(s) = 1 ELSE slavearbiterlockenable[s]]
    /\ reg_firsttransfer' = [s \in Slaves |->
            IF begins_xfer(s) THEN unreg_firsttransfer(s) ELSE reg_firsttransfer[s]]

SlaveGrantEdge ==
    /\ last_cycle_granted' = [s \in Shared |->
            {m \in Masters :
                \/ saved_grant(s, m)
                \/ /\ ~arbitration_holdoff_internal(s) /\ requests(s, m)
                   /\ m \in last_cycle_granted[s]}]
    /\ saved_chosen_master_vector' = [s \in Shared |->
            IF allow_new_arb_cycle(s) /\ grant_vector(s) # 0 THEN grant_vector(s)
            ELSE saved_chosen_master_vector[s]]
    /\ arb_addend' = [s \in Shared |-> next_arb_addend(s)]

SlaveReadEdge ==
    /\ d1_reasons_to_wait' = [s \in Slaves |-> ~end_xfer(s)]
    /\ read_data_valid' = [s \in Latent |->
            {m \in Masters : granted(s, m) /\ Reads(m)}]
    /\ waitrequest' = [s \in Stretching |->
            ~((in_a_read_cycle(s) \/ in_a_write_cycle(s)) /\ waitrequest[s])]
    /\ address_of' = [s \in Latent |->
            IF granted(s, cpu_0_data_master)
            THEN cpu_0_data_master ELSE cpu_0_instruction_master]

MasterEdge ==
    /\ latency_counter' = [m \in Masters |->
            IF run(m) /\ Reads(m) THEN latency_load_value(m)
            ELSE IF latency_counter[m] = 1 THEN latency_counter[m] - 1 ELSE 0]
    /\ read_but_no_slave_selected' = [m \in Masters |->
            Reads(m) /\ run(m) /\ ~is_granted_some_slave(m)]

\* The reads a master has had accepted, the one of this cycle included.
due(m) == IF Reads(m) /\ run(m) THEN Append(asked[m], cmd[m].slave) ELSE asked[m]

\* The history stops counting here: one above what is promised.
OvertakenCap == 2

History ==
    /\ asked' = [m \in Masters |->
            IF readdatavalid(m) /\ due(m) # << >> THEN Tail(due(m)) ELSE due(m)]
    /\ overtaken' = [m \in Masters |->
            IF ~waits(m) THEN 0
            ELSE IF /\ overtaken[m] < OvertakenCap
                    /\ \E s \in Slaves : /\ qualified_request(s, m)
                                         /\ ~granted(s, m) /\ end_xfer(s)
                 THEN overtaken[m] + 1 ELSE overtaken[m]]

\* The processor keeps to the bus: it holds a command for as long as
\* waitrequest is high, and then may drive any other.
NextCommands(m) == IF waits(m) THEN {cmd[m]} ELSE Commands(m)

\* A rising edge of clk.
Clock ==
    /\ SlaveShareEdge
    /\ SlaveGrantEdge
    /\ SlaveReadEdge
    /\ MasterEdge
    /\ History
    /\ \E c0 \in NextCommands(cpu_0_instruction_master),
          c1 \in NextCommands(cpu_0_data_master) :
        cmd' = [m \in Masters |-> IF m = cpu_0_data_master THEN c1 ELSE c0]

\* reset_n clears the registers of the interconnect and of the processor at
\* once: the reset input, or the debug module's resetrequest.
Reset ==
    /\ cmd' = [m \in Masters |-> Idle]
    /\ d1_reasons_to_wait' = [s \in Slaves |-> FALSE]
    /\ arb_share_counter' = [s \in Slaves |-> 0]
    /\ slavearbiterlockenable' = [s \in Slaves |-> FALSE]
    /\ reg_firsttransfer' = [s \in Slaves |-> TRUE]
    /\ last_cycle_granted' = [s \in Shared |-> {}]
    /\ saved_chosen_master_vector' = [s \in Shared |-> 0]
    /\ arb_addend' = [s \in Shared |-> 1]
    /\ read_data_valid' = [s \in Latent |-> {}]
    /\ latency_counter' = [m \in Masters |-> 0]
    /\ read_but_no_slave_selected' = [m \in Masters |-> FALSE]
    /\ waitrequest' = [s \in Stretching |-> TRUE]
    /\ asked' = [m \in Masters |-> << >>]
    /\ overtaken' = [m \in Masters |-> 0]
    /\ UNCHANGED address_of

Next == Clock \/ Reset

Spec == Init /\ [][Next]_vars

\* The board's oscillator never stops.
FairSpec == Spec /\ WF_vars(Clock)

-----------------------------------------------------------------------------
TypeOK ==
    /\ \A m \in Masters : cmd[m] \in Commands(m)
    /\ d1_reasons_to_wait \in [Slaves -> BOOLEAN]
    /\ arb_share_counter \in [Slaves -> 0..1]
    /\ slavearbiterlockenable \in [Slaves -> BOOLEAN]
    /\ reg_firsttransfer \in [Slaves -> BOOLEAN]
    /\ last_cycle_granted \in [Shared -> SUBSET Masters]
    /\ saved_chosen_master_vector \in [Shared -> 0..2]
    /\ arb_addend \in [Shared -> 1..2]
    /\ read_data_valid \in [Latent -> SUBSET Masters]
    /\ latency_counter \in [Masters -> 0..1]
    /\ read_but_no_slave_selected \in [Masters -> BOOLEAN]
    /\ waitrequest \in [Stretching -> BOOLEAN]
    /\ address_of \in [Latent -> Masters]
    /\ asked \in [Masters -> Seq(Slaves \cup {Unmapped})]
    /\ overtaken \in [Masters -> 0..OvertakenCap]

\* What the simulation-only processes of the arbitrators assert: never more
\* than one grant, and never more than one saved grant, is active at a slave.
GrantsExclusive ==
    \A s \in Slaves :
        /\ ~ \A m \in Masters : granted(s, m)
        /\ s \in Shared => ~ \A m \in Masters : saved_grant(s, m)

\* Every read is answered once, in order, a clock after it is accepted at the
\* latest, and the answer is the data of the slave that was read (for a slave
\* with a latency, at the address of the master that read it): readdata, an
\* AND of everything unmasked, never mixes two of them.
ReadsAnswered ==
    \A m \in Masters :
        /\ readdatavalid(m) =>
            /\ due(m) # << >>
            /\ Head(due(m)) # Unmapped => drives(m) = {Head(due(m))}
            /\ Head(due(m)) \in Latent => address_of[Head(due(m))] = m
        /\ asked[m] # << >> => readdatavalid(m)

\* Round robin: a master whose request is ready at a slave sees at most one
\* transfer of the other master there before its own.
OvertakenOnce == \A m \in Masters : overtaken[m] <= 1

\* No request starves, whatever the other master does.
RequestServed == \A m \in Masters : waits(m) ~> run(m)
=============================================================================
