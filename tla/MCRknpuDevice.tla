--------------------------- MODULE MCRknpuDevice ----------------------------
(***************************************************************************)
(* RknpuDevice with OPPs of the voltage table in FEATURES.md (MHz and mV). *)
(***************************************************************************)
EXTENDS RknpuDevice

MCFreqs == {200, 1000}
MCVoltage == [f \in MCFreqs |-> IF f = 1000 THEN 1050 ELSE 825]
MCScmiRate == [f \in MCFreqs |-> IF f = 200 THEN 198 ELSE f]

=============================================================================
