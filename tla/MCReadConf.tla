------------------------------ MODULE MCReadConf ------------------------------
(* Files of at most three lines over five keys: an array, a string, the     *)
(* name, the topic, and a key that nobody looks for.                        *)
EXTENDS ReadConf

MCKeys == {"ca_path", "pg_username", "client_id", "topic", "other"}
MCTexts == {"gokart/", "/power", "short", "t36", "t37", "t60", "cut"}
MCLength == [t \in MCTexts |->
               CASE t = "gokart/" -> 7
                 [] t = "/power" -> 6
                 [] t = "short" -> 1
                 [] t = "t36" -> 36
                 [] t = "t37" -> 37
                 [] t = "t60" -> 60
                 [] t = "cut" -> 4]
MCCutKey == [k \in MCKeys |-> "cut"]
===============================================================================
