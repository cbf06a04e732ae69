-------------------------------- MODULE MCReader --------------------------------
(***************************************************************************)
(* Reader over the reads of a small job.                                   *)
(***************************************************************************)
EXTENDS Reader, MCReads

CONSTANT MaxCache

(* Every file has the same rows; the last row group may have fewer. *)
MCConfigurations ==
  {[mode |-> m[1], on_demand |-> m[2],
    reads |-> IF m[1] = "index" THEN IndexReads(s) ELSE IterateReads(s),
    perFile |-> s.perFile, batch |-> BatchSize,
    groups |-> S!CeilDiv(s.perFile, r), rows |-> r,
    cacheSize |-> c, epochs |-> MCEpochs] :
   m \in {<<"iterate", FALSE>>, <<"index", FALSE>>, <<"index", TRUE>>}, s \in Shapes,
   r \in 1 .. 2, c \in 0 .. MaxCache}
===============================================================================
