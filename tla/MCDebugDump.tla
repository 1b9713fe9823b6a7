----------------------------- MODULE MCDebugDump -----------------------------
(* Instances of DebugDump for TLC: four registers, one configuration, and  *)
(* images and addresses that move the pc.                                  *)
EXTENDS DebugDump

MCConfig == {[memory_size |-> 8, reset_pc |-> 4, endian |-> "BIG", clear |-> TRUE]}
MCBuffer == {[isNull |-> FALSE, bytes |-> <<1>>]}
MCImage  == {[data |-> b, load_address |-> 0, set_pc_to_entry |-> TRUE,
              entry_point |-> 8] : b \in MCBuffer}
=============================================================================
