--------------------------- MODULE MCHTTPRequests ---------------------------
(* Origins of two schemes, two hosts and the server's own; a listed origin *)
(* with a slash, with which the server does not start.                     *)
EXTENDS HTTPRequests

Origin(scheme, host, slash) == [scheme |-> scheme, host |-> host, slash |-> slash]

MCConfigs ==
  [allowedOrigins : {{}, {Origin("https", "a", FALSE)}, {Origin("https", "a", TRUE)}},
   authToken : {"", "t"}, oauth : BOOLEAN]

MCRequests ==
  [method : {"GET", "POST"},
   origin : {Origin("", "", FALSE), Origin("", "null", FALSE), Origin("https", "a", FALSE),
             Origin("https", "a", TRUE), Origin("http", "a", FALSE), Origin("https", "server", FALSE)},
   fetchSite : {"", "same-origin", "cross-site"},
   host : {"server"},
   auth : {[scheme |-> "", token |-> ""], [scheme |-> "Bearer", token |-> "t"],
           [scheme |-> "bearer", token |-> "jwt"], [scheme |-> "Basic", token |-> "t"]}]

=============================================================================
