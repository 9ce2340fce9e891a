----------------------------- MODULE MCExporter -----------------------------
(***************************************************************************)
(* Model-checking instances of Exporter.  MCExporter.cfg: every            *)
(* configuration, two requests.  MCExporterProxy.cfg: one request.         *)
(***************************************************************************)
EXTENDS Exporter
=============================================================================
