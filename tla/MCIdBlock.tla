------------------------------ MODULE MCIdBlock ------------------------------
(* A Turin host whose firmware leaves the CPUID of the report zero, and a host
   newer than the table of generations. *)
EXTENDS IdBlock

MCHosts == { [cpu |-> <<26, 17>>, version |-> 5, zeroed |-> TRUE],
             [cpu |-> <<26, 18>>, version |-> 5, zeroed |-> FALSE] }
=============================================================================
