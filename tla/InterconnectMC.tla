--------------------------- MODULE InterconnectMC ---------------------------
(***************************************************************************)
(* Interconnect for TLC: Lab2's system without pio_1 to pio_3, which are   *)
(* pio_0 at other addresses.  Every kind of slave is there, and two of the *)
(* kind the data master has for itself.                                    *)
(***************************************************************************)
EXTENDS Interconnect, UartCom

MCPorts == [s \in DOMAIN uart_com \ {"pio_1", "pio_2", "pio_3"} |-> uart_com[s]]
=============================================================================
