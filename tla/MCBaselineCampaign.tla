------------------------- MODULE MCBaselineCampaign -------------------------
(***************************************************************************)
(* BaselineCampaign on two GPUs, one matrix file lost at any time: two     *)
(* baselines on two matrices in one campaign, and two campaigns in one     *)
(* directory with one baseline on a large and two small matrices, or on    *)
(* two matrices with one GPU named twice.                                  *)
(***************************************************************************)
EXTENDS BaselineCampaign

MCFileSize == <<3, 1, 1>>

MCPlans ==
  {[matrices |-> {1, 2}, baselines |-> <<"cusparse_double", "dasp_half">>,
    gpus |-> <<1, 2>>, runs |-> 1],
   [matrices |-> {1, 2, 3}, baselines |-> <<"dasp_half">>, gpus |-> <<1, 2>>, runs |-> 2],
   [matrices |-> {1, 2}, baselines |-> <<"dasp_half">>, gpus |-> <<1, 1>>, runs |-> 2]}
=============================================================================
