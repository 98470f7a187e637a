---------------------------- MODULE MCKcpControl ----------------------------
(* Configurations for TLC: the default one, the fastest one with windows that *)
(* are not taken, a small mtu with slow and fast resends, and an interval of  *)
(* 0 with an mtu that is not valid.                                           *)
EXTENDS KcpControl

Default == [mtu |-> None, interval |-> None, nodelay |-> None,
            wnd_size |-> None, rx_minrto |-> 10, fast_resend |-> None]

fastest == [nodelay |-> TRUE, interval |-> 10, resend |-> 2, nc |-> TRUE]

SomeConfigs ==
  {Default,
   [Default EXCEPT !.nodelay = fastest, !.wnd_size = [snd |-> 0, rcv |-> 0]],
   [Default EXCEPT !.mtu = 50, !.fast_resend = 1,
                   !.nodelay = [fastest EXCEPT !.interval = -1, !.nc = FALSE],
                   !.wnd_size = [snd |-> 3, rcv |-> 200]],
   [Default EXCEPT !.mtu = 26, !.interval = 0, !.rx_minrto = None],
   [Default EXCEPT !.mtu = 50, !.interval = 0, !.rx_minrto = None]}
=============================================================================
