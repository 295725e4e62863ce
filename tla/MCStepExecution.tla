---------------------------- MODULE MCStepExecution ----------------------------
(* Instances of StepExecution: three managers, of which two have the same    *)
(* support, and ramdisks that differ in what a rebuild may change.           *)
EXTENDS StepExecution

NamesDiffer == <<"vendor", "peer", "generic">>

None3 == [s \in Steps |-> NotListed]
Base == [support |-> <<2, 2, 1>>, version |-> <<1, 1, 1>>,
         has |-> <<{"erase"}, {"erase", "flash"}, {"erase", "flash"}>>,
         priority |-> <<[None3 EXCEPT !["erase"] = 1],
                        [None3 EXCEPT !["erase"] = 2, !["flash"] = 0],
                        [None3 EXCEPT !["erase"] = 3, !["flash"] = 1]>>]

FourImages ==
  {Base,
   [Base EXCEPT !.version[1] = 2],                \* another vendor manager
   [Base EXCEPT !.version[3] = 2],                \* another generic manager
   [Base EXCEPT !.support[1] = 0]}                \* no vendor manager

=============================================================================
