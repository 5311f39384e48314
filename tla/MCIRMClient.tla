---- MODULE MCIRMClient ----
EXTENDS IRMClient
====
