----------------------------- MODULE MCHostUart -----------------------------
(* Small instances of HostUart for TLC.                                    *)
EXTENDS HostUart

(* 500 ticks per second, as configured: a tick is 2 ms.                    *)
MCDelay == [h \in {"uart_rx_timeout", "sock_recv_timeout"} |->
              IF h = "uart_rx_timeout" THEN 3 ELSE 5]

(* Six settings: bytes as fast as the host can send them, and a mailbox    *)
(* with room for all the worker posts; the build without raw sockets, with *)
(* both timeouts, receive errors and a mailbox that is too small; failing  *)
(* allocations; the socket timeout alone; both ports transmitting; and one *)
(* port to which the worker itself transmits as well.                      *)
Case(raw, flows, size, faulty, sources, window, calls, number) ==
    [raw |-> raw, flow |-> flows, mboxSize |-> size, maxFault |-> faulty,
     sources |-> sources, window |-> window, callbacks |-> calls, maxCallback |-> number]
MCSetup ==
    {Case(TRUE, BOOLEAN, 22, 0, {"rx"}, 7, {}, 0),
     Case(FALSE, {TRUE}, 3, 0, {"rx", "error"}, 1, {"socket_create"}, 1),
     Case(TRUE, {TRUE}, 3, 1, {"rx"}, 2, {}, 0),
     Case(FALSE, {FALSE}, 2, 1, {}, 0, {"socket_create"}, 2),
     Case(TRUE, {FALSE}, 2, 0, {"port0", "port1"}, 0, {}, 0),
     Case(TRUE, {FALSE}, 2, 1, {"port1"}, 0, {"uart_tx"}, 1)}
=============================================================================
