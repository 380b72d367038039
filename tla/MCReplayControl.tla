--------------------------- MODULE MCReplayControl ---------------------------
(* Logs for TLC: a cfg names one of these sequences per stream.            *)
EXTENDS ReplayControl

Empty == << >>
Can13 == <<1, 3>>
Can22 == <<2, 2>>
Fr2 == <<2>>
Fr3 == <<3>>
Eth3 == <<3>>
=============================================================================
