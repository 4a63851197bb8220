------------------------- MODULE MCServerProcess -------------------------
(***************************************************************************)
(* ServerProcess on small instances.                                       *)
(***************************************************************************)
EXTENDS ServerProcess

MCConfigs == [baseARN : BOOLEAN, autoDetect : BOOLEAN, durationOk : BOOLEAN,
              assumeRole : BOOLEAN]

\* Nothing that has a default, and nothing wrong.
MCDefaults ==
  {c \in MCConfigs : c.baseARN /\ c.durationOk /\ ~c.assumeRole}
=============================================================================
