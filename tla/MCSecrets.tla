----------------------------- MODULE MCSecrets -----------------------------
EXTENDS Secrets
=============================================================================
