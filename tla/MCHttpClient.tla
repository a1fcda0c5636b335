---------------------------- MODULE MCHttpClient ----------------------------
(* Model-checking instance of HttpClient.                                     *)
EXTENDS HttpClient
=============================================================================
