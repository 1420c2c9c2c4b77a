--------------------------- MODULE MCConfigApply ---------------------------
(* Instance of ConfigApply for TLC: one name of each kind, and the file of *)
(* docs/config-as-code.md, which spells the platform "linux".              *)
EXTENDS ConfigApply

CONSTANTS aScript, aPolicy, aGroup, aProgram

Scripts  == {aScript}
Policies == {aPolicy}
Groups   == {aGroup}
Programs == {aProgram}
Bodies   == {"a", "b"}

\* The example of the documentation.
Example ==
  [scripts  |-> [n \in Script |-> [platform |-> "linux", content |-> "a"]],
   policies |-> [n \in Policy |-> [script |-> aScript, conf |-> "a", active |-> TRUE]],
   groups   |-> [n \in Group |-> [color |-> "red", software |-> [y \in Software |-> "forbidden"],
                                  policies |-> Policy]]]
Examples == {Example}
=============================================================================
