----------------------------- MODULE MCDeadMan -----------------------------
(* Two VMs with short times, and one VM with the code's own, in minutes.    *)
(* The rest of that VM's fleet is the time a beat may still take when the   *)
(* VM is armed: ssh tries another one, which answers late, up to 12 times.  *)
EXTENDS DeadMan
=============================================================================
