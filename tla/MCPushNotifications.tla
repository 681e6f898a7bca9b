------------------------- MODULE MCPushNotifications -------------------------
\* An instance of PushNotifications for TLC: one scheme has two handlers that
\* implement send, the other one that does not.
EXTENDS PushNotifications, TLC

CONSTANTS http, custom, h1, h2, h3

MCHandlers == (http :> <<h1, h2>>) @@ (custom :> <<h3>>)
=============================================================================
