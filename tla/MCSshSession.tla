----------------------------- MODULE MCSshSession -----------------------------
(* SshSession with every configuration, also those load_config would refuse.  *)
EXTENDS SshSession

EveryConfig == AuthConfigs
=============================================================================
