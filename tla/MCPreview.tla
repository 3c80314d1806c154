------------------------------ MODULE MCPreview ------------------------------
\* Instance: hashes are numbers above None.
EXTENDS Preview
=============================================================================
