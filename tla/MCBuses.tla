------------------------------- MODULE MCBuses -------------------------------
(* What hangs on the buses, on one TLC run: the buses themselves and what is *)
(* attached to them, saved and opened again, the replay blocks, the hardware  *)
(* ports, the description files.  A behaviour runs one of them and leaves    *)
(* the others where they started.                                            *)
EXTENDS ProjectFile, Wires

CONSTANTS Filters, NoFilter, Table, Model, Budget, MaxBlocks, MaxSim, MaxId,
          Gone, Broken, NumBuses, StopsFirst, MaxWrites

VARIABLES part, sim, mode, measuring, blocks, counter,
          disk, writes, frSources, frDbs, frModels, frWatched, frTaken,
          ethSources, ethDbs, ethModels, catalog, ethTaken,
          canPaths, canSums, canTable, canArxml, canListed, canXml, canModel, xmlTaken,
          measured, reads

(* A log of four frames of two nodes, two of them at one stamp.              *)
MCRecorded(log) ==
  <<[t |-> 1, node |-> "n1"], [t |-> 1, node |-> "n2"],
    [t |-> 2, node |-> "n1"], [t |-> 3, node |-> "n1"]>>
Blocks == INSTANCE ReplayBlocks WITH
            Logs <- {"log"}, Paths <- {"log"}, Recorded <- [l \in {"log"} |-> MCRecorded(l)]

(* Description files.  Two FlexRay and Ethernet files declare the PDU p       *)
(* differently, may change their frames, their timing or their cluster, or   *)
(* be gone; two DBC files share a message id, or a name; two ARXML files a PDU. *)
Pdu(n, sigs) == [name |-> n, sigs |-> sigs]
Sig(n, at) == [sig |-> n, at |-> at]
Frame(n, at, pdus) == [name |-> n, at |-> at, pdus |-> pdus]
Holds(p, at) == [pdu |-> p, at |-> at]
Text(timing, cluster, pdus, frames, services) ==
  [timing |-> timing, cluster |-> cluster, pdus |-> pdus, frames |-> frames, services |-> services]
PduP == Pdu("p", <<Sig("s", 0)>>)
PduQ == Pdu("q", <<Sig("t", 4)>>)
MCFiles == [fr |-> {"a", "b"}, eth |-> {"a", "b"}, dbc |-> {"c", "d"}, xml |-> {"x", "y"}]
MCTexts ==
  [a |-> {Text(5, "k", <<PduP>>, <<Frame("f", slot, <<Holds("p", 8)>>)>>, {1}) : slot \in {1, 2}},
   b |-> {Gone, Text(10, "l", <<PduQ>>, <<Frame("g", 3, <<Holds("q", 0)>>)>>, {2}),
          Text(5, "k", <<Pdu("p", <<Sig("s", 4)>>), PduQ>>, <<Frame("g", 2, <<Holds("p", 8), Holds("q", 16)>>)>>, {1, 2})},
   c |-> {Text(0, "", <<Pdu("p", <<Sig("s", at)>>)>>, <<Frame("f", id, <<Holds("p", 0)>>)>>, {}) : at \in {0, 3}, id \in {1, 4}},
   d |-> {Text(0, "", <<PduP, PduQ>>, <<Frame("g", 1, <<Holds("q", 0)>>), Frame("f", 4, <<Holds("p", 0)>>), Frame("h", 2, <<Holds("p", 0)>>)>>, {})},
   x |-> {Text(0, "", <<PduP>>, <<Frame("f", 1, <<Holds("p", 8)>>)>>, {})},
   y |-> {Text(0, "", <<PduQ, PduP>>, <<Frame("e", 3, <<Holds("q", 0), Holds("p", 8)>>)>>, {})}]
MCRefs == {[kind |-> "fr", bus |-> 0, sig |-> "s"], [kind |-> "frName", cluster |-> "k", sig |-> "t"],
           [kind |-> "ethName", cluster |-> "k", frame |-> "g", sig |-> "t"], [kind |-> "msg", name |-> "f"]}
Desc == INSTANCE Descriptions WITH
          FilesOf <- MCFiles, TextsOf <- MCTexts, Refs <- MCRefs, running <- measured

blockVars == <<sim, mode, measuring, blocks, counter>>
descVars == <<disk, writes, frSources, frDbs, frModels, frWatched, frTaken,
              ethSources, ethDbs, ethModels, catalog, ethTaken,
              canPaths, canSums, canTable, canArxml, canListed, canXml, canModel, xmlTaken,
              measured, reads>>
allVars == <<part, projectVars, blockVars, wireVars, descVars>>

\* A protocol's part leaves the files of the others as they are.
Elsewhere ==
  /\ part # "can" => disk["c"] = CHOOSE t \in MCTexts["c"] : TRUE
  /\ part \notin {"fr", "eth"} => disk["a"] = CHOOSE t \in MCTexts["a"] : TRUE
  /\ part \notin {"fr", "eth"} => disk["b"] = Gone

MCInit ==
  /\ part \in {"buses", "blocks", "wires", "fr", "eth", "can"}
  /\ ProjectInit /\ Blocks!Init /\ WiresInit /\ Desc!DescInit /\ Elsewhere

Described ==
  \/ part = "fr" /\ Desc!FrNext
  \/ part = "eth" /\ Desc!EthNext
  \/ part = "can" /\ Desc!CanNext
  \/ part = "can" /\ Desc!MaybeReloadChangedDbcs
  \/ part \in {"fr", "eth", "can"} /\ Desc!WriteFile /\ Elsewhere'
  \/ part \in {"fr", "eth", "can"} /\ Desc!StartRun
  \/ part \in {"fr", "eth", "can"} /\ Desc!StopRun

MCNext ==
  \/ part = "buses" /\ ProjectNext /\ UNCHANGED <<part, blockVars, wireVars, descVars>>
  \/ part = "blocks" /\ Blocks!Next /\ UNCHANGED <<part, projectVars, wireVars, descVars>>
  \/ part = "wires" /\ WiresNext /\ UNCHANGED <<part, projectVars, blockVars, descVars>>
  \/ UNCHANGED <<part, projectVars, blockVars, wireVars>> /\ Described

MCSpec == MCInit /\ [][MCNext]_allVars

(* What hangs on a bus keeps its type, buses know what their files say       *)
(* (Descriptions), and replay blocks play what was recorded, share one       *)
(* budget and lose nothing by it (ReplayBlocks).                             *)
AttachedHonest == [](TypeOK /\ Blocks!TypeOK /\ Desc!DescriptionsHonest) /\ Blocks!BlocksHonest

(* A run starts with every block on that was on (ReplayBlocks).              *)
StartKeepsEnabled == Blocks!StartKeepsEnabled
=============================================================================
