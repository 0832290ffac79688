------------------------------- MODULE MCPure -------------------------------
(***************************************************************************)
(* PureFunctions on bounded inputs.                                        *)
(***************************************************************************)
EXTENDS PureFunctions, SequencesExt

CONSTANTS
  MaxName,    \* bound: characters of an alias or a tool name
  MaxServers, \* bound: servers of a configuration
  MaxText     \* bound: characters of a configuration text

MCNameStrings == BoundedSeq({"a", "_"}, MaxName)

MCConfigurations ==
  BoundedSeq([alias : MCNameStrings, url : {<<>>, <<"u">>}], MaxServers)

MCTexts == BoundedSeq({"$", "{", "}", "V"}, MaxText)

\* The value of a variable looks like the beginning of a reference itself.
MCEnv == (<<"V">> :> <<"$", "{">>)
=============================================================================
