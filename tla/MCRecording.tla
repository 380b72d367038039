----------------------------- MODULE MCRecording -----------------------------
(* A recording on one TLC run: what is recorded and when (Recording), how it *)
(* reaches the disk and is read again (LogReader), what becomes of an object *)
(* on the way (LogCodec).  They share no variable, so a behaviour runs one.  *)
EXTENDS Recording, LogReader, LogCodec

VARIABLE part

(* E2E rules ask for one thing at a time.                                    *)
MCLateAsks == {<<a>> : a \in Starts \cup Stops}
MCPayloads == {<<>>, <<2>>, <<3, 2, 1>>}

fileVars == <<writerVars, readerVars>>

MCInit ==
  /\ part \in {"recording", "file", "codec"}
  /\ Init /\ FileInit /\ CodecInit
  /\ part # "recording" => preLimit = 0
  /\ part # "file" => fmt = "blf"
  /\ part # "codec" => object = Session(100)

MCNext ==
  \/ part = "recording" /\ Next /\ UNCHANGED <<part, fileVars, codecVars>>
  \/ part = "file" /\ FileNext /\ UNCHANGED <<part, vars, codecVars>>
  \/ part = "codec" /\ CodecNext /\ UNCHANGED <<part, vars, fileVars>>

MCSpec == MCInit /\ [][MCNext]_<<part, vars, fileVars, codecVars>>

(* A replay of a file, whole or cut, delivers all of it in time, and so do   *)
(* the tools (LogReader).                                                    *)
FilesHonest == ReplaysTheFile /\ NextInTime /\ EverythingCrosses
=============================================================================
