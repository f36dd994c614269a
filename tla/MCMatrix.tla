------------------------------ MODULE MCMatrix -------------------------------
(***************************************************************************)
(* Two jobs of one configuration and two versions of the sources: one job  *)
(* meets its clock target in the first version only; the second version    *)
(* decides wrongly.  Results committed before are of this checkout or of   *)
(* another one.                                                            *)
(***************************************************************************)
EXTENDS HardwareCheck

MCConfigOf == [j \in Job |-> "a2"]
MCMeets == {<<"good", "j1">>}
MCOver == {<<v, "j2">> : v \in Version}
MCJobs == <<"j1", "j2">>
MCDecisions == <<"a2">>
=============================================================================
