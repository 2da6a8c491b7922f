-------------------------- MODULE MCRegistryUpload --------------------------
(* RegistryUpload with numbers for its constants.                            *)
EXTENDS RegistryUpload
=============================================================================
