-------------------------------- MODULE Values --------------------------------
(* Values that stand for the absence of something, shared by the modules.  *)
CONSTANTS None,     \* nothing: a parameter, list, graph, program not given
          Linked,   \* the time of a modulator that plays as long as its parent
          Rejected  \* no program came out of the builder

ASSUME ValuesAssumption == None # Linked /\ None # Rejected
=============================================================================
