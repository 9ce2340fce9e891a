------------------------------- MODULE MCGPU -------------------------------
(* Two cards, the readings 0 and 7, and the clock files below. *)
EXTENDS GPU

line(active, mhz) == [active |-> active, empty |-> FALSE, mhz |-> mhz]

\* No active state, one after an empty marker, and an active line that is no
\* number before one that is.
DPMFiles ==
    {<<line(FALSE, 300), line(TRUE, 1000)>>,
     <<line(FALSE, 300)>>,
     <<[active |-> TRUE, empty |-> TRUE, mhz |-> Nil], line(TRUE, 300)>>,
     <<line(TRUE, Nil), line(TRUE, 300)>>}

MCContents ==
    [f \in File |->
        CASE f = "pp_dpm_sclk" -> DPMFiles \cup {Nil}
          [] f = "pp_dpm_mclk" -> {<<line(TRUE, 1000)>>, Nil}
          [] f \in {"gpu_busy_percent", "mem_info_vram_total"} -> {Nil, 0, 7}
          [] f = "power1_input" -> {Nil, 3}
          [] OTHER -> {Nil, 7}]

MCIORegOutputs == [util : {Nil, 0, 7}, mem : {Nil, 0}]

MCMaxChanges == [b \in Backend |-> IF b = "linux" THEN 2 ELSE 4]

machine(v0, h0, v1, h1) ==
    [c \in {0, 1} |-> IF c = 0 THEN [vendor |-> v0, hwmon |-> h0] ELSE [vendor |-> v1, hwmon |-> h1]]

MCMachines ==
    {machine("amd", 0, "amd", Nil), machine("other", Nil, "amd", 0), machine(Nil, 0, "other", 0)}

MCCard == <<0, 1>>
=============================================================================
