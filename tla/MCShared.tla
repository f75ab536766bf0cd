------------------------------ MODULE MCShared ------------------------------
(* What goroutines share: a request and its clones, or the registers.  A   *)
(* behaviour is one of the one or of the other.                            *)
EXTENDS RequestSharing, Registers

CONSTANTS n1, n2

VARIABLE subject

MCContents == {RegisterModifier(n1, TRUE, TRUE),
               RegisterModifier(n1, FALSE, TRUE) \o RegisterModifier(n2, TRUE, FALSE)}
MCDefault == [ns \in Namespace |-> IF ns = "sd" THEN "fixed" ELSE NoValue]

NoRequest == /\ fan = "merge" /\ forced = FALSE /\ above = "deep" /\ clientBody = NoBody
             /\ backend = [c \in Call |->
                             [method |-> "GET", passQuery |-> {}, passHeaders |-> {},
                              graphql |-> [type |-> "none", method |-> "POST"]]]
             /\ next = 1
             /\ at = [c \in Call |-> "idle"]
             /\ req = [c \in Call |-> [query |-> Original, headers |-> Original, body |-> Original,
                                       params |-> Original, url |-> NotSent, method |-> ""]]
             /\ queries = [r \in Ref |-> [client |-> {}, graphql |-> {}]]
             /\ headers = [r \in Ref |-> [client |-> {}, length |-> 0]]
             /\ bodies = [r \in Ref |-> NoBody]
             /\ sent = [c \in Call |-> NotSent]

SharedInit == \/ subject = "request" /\ Init /\ NoRegistration
                                     /\ plugin = [j \in 1..Plugins |-> Broken]
              \/ subject = "registers" /\ RegistersInit /\ NoRequest

SharedNext == \/ subject = "request" /\ Next /\ UNCHANGED <<subject, registerVars>>
              \/ subject = "registers" /\ RegistersNext /\ UNCHANGED <<subject, vars>>

SharedSpec == SharedInit /\ [][SharedNext]_<<subject, vars, registerVars>>
=============================================================================
