----------------------------- MODULE MCExchange -----------------------------
(***************************************************************************)
(* One of the UDP exchanges of Exchange or of the TCP programs of          *)
(* TcpExchange: the behaviours of the one module or of the other.          *)
(***************************************************************************)
EXTENDS Exchange, TcpExchange

allVars == <<vars, tcpVars>>

AllTypeOK == TypeOK /\ TcpTypeOK

AllInit == Init /\ TcpInit /\ (program = "none" <=> pair # "none")

AllNext == \/ Next /\ UNCHANGED tcpVars
           \/ TcpNext /\ UNCHANGED vars

LiveSpec == AllInit /\ [][AllNext]_allVars /\ Fairness /\ TcpFairness
=============================================================================
