----------------------------- MODULE MCCpuSched -----------------------------
(***************************************************************************)
(* Every file of up to four processes with the arrival times and bursts    *)
(* below, under each policy: processes that arrive together, while another *)
(* one runs, after an idle gap, and after the sum of all bursts.           *)
(***************************************************************************)
EXTENDS CpuSched

MCPolicies == {"FCFS", "SJF", "STCF"}
MCArrivals == {0, 1, 3}
MCBursts == {1, 2, 4}
=============================================================================
