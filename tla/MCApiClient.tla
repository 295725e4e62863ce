----------------------------- MODULE MCApiClient -----------------------------
\* Two API URLs for the model checker.
EXTENDS ApiClient

MCUrls == <<"a", "b">>

=============================================================================
