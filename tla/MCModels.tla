------------------------------ MODULE MCModels ------------------------------
\* Two epochs and no request that fails.
EXTENDS ModelsPage

=============================================================================
