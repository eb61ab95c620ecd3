------------------------------- MODULE UartCom -------------------------------
(***************************************************************************)
(* The slaves of the two Nios II systems, each as its arbitrator entity    *)
(* generates it: how it answers and whether the instruction master is      *)
(* wired to it.  Lab3's system is Lab2's without the timer.                *)
(***************************************************************************)
EXTENDS TLC

cpu_0_jtag_debug_module == [kind |-> "wait", shared |-> TRUE]
onchip_memory2_0 == [kind |-> "latency", shared |-> TRUE]
jtag_uart_0 == [kind |-> "waitrequest", shared |-> FALSE]
pio_0 == [kind |-> "wait", shared |-> FALSE]
pio_1 == [kind |-> "wait", shared |-> FALSE]
pio_2 == [kind |-> "wait", shared |-> FALSE]
pio_3 == [kind |-> "wait", shared |-> FALSE]
timer_0 == [kind |-> "wait", shared |-> FALSE]

nios_uart_hw ==
    [cpu_0_jtag_debug_module |-> cpu_0_jtag_debug_module,
     onchip_memory2_0 |-> onchip_memory2_0,
     jtag_uart_0 |-> jtag_uart_0,
     pio_0 |-> pio_0, pio_1 |-> pio_1, pio_2 |-> pio_2, pio_3 |-> pio_3]

uart_com == nios_uart_hw @@ [timer_0 |-> timer_0]
=============================================================================
