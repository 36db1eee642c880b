------------------------- MODULE NotificationPreferences -------------------------
(***************************************************************************)
(* What each user wants to be notified of, and how:                           *)
(* dao/notification_preference.py and the methods of                          *)
(* models/notification_preference.py.  A preference without a row has its     *)
(* defaults, and its row is created by whatever first needs it, reading       *)
(* included.  The updating handlers go on to call an audit method that does   *)
(* not exist and are rolled back; reading one preference works.               *)
(***************************************************************************)
EXTENDS Requests

CONSTANTS
    Person,     \* users
    Category,   \* categories of notifications
    Choice      \* sets of columns that one update assigns, as records

-------------------------------------------------------------------------------
(* Tables; a row is named by <<user, category>>, which is unique *)

NotificationCategory ==
    {"security", "tickets", "proposals", "invoices", "projects", "workflows", "system"}
NotificationChannel == {"channel_email", "channel_slack", "channel_in_app"}
NotificationFrequency == {"immediate", "daily_digest", "weekly_digest", "none"}

NotificationPreference ==
    [channel_email : BOOLEAN, channel_slack : BOOLEAN, channel_in_app : BOOLEAN,
     frequency : NotificationFrequency, is_enabled : BOOLEAN]

DEFAULT_PREFERENCES ==
    [c \in NotificationCategory |->
        [channel_email |-> TRUE, channel_slack |-> FALSE, channel_in_app |-> TRUE,
         frequency |-> IF c = "system" THEN "daily_digest" ELSE "immediate",
         is_enabled |-> TRUE]]

HasRow(p, c) == <<p, c>> \in DOMAIN db.preferences

\* get_or_create_preference
Preference(p, c) == IF HasRow(p, c) THEN db.preferences[<<p, c>>] ELSE DEFAULT_PREFERENCES[c]

-------------------------------------------------------------------------------
(* Requests *)

ReadPreference(w, p, c) ==
    /\ ~HasRow(p, c)
    /\ Hold(w, [preferences |-> [k \in {<<p, c>>} |-> Insert(DEFAULT_PREFERENCES[c])]])

CreateDefaultPreferences(w, p) ==
    Hold(w, [preferences |-> [k \in {p} \X Category |-> Insert(DEFAULT_PREFERENCES[k[2]])]])

Allowed_Email(c, cols) ==       \* mutant: the master switch is not looked at
    ~(c = "security" /\ "channel_email" \in DOMAIN cols /\ ~cols.channel_email)
\* Security e-mails cannot be turned off, by their channel or by the category.
Allowed(c, cols) ==
    c = "security" => /\ "is_enabled" \in DOMAIN cols => cols.is_enabled
                      /\ "channel_email" \in DOMAIN cols => cols.channel_email

Set(p, c, cols) ==
    [k \in {<<p, c>>} |-> IF HasRow(p, c)
                          THEN Assign(db.preferences[k], cols)
                          ELSE Insert(Written(DEFAULT_PREFERENCES[c], Update(cols)))]

UpdatePreference(w, p, c, cols) ==
    Allowed(c, cols) /\ Hold(w, [preferences |-> Set(p, c, cols)])

\* Several categories in one transaction; one that is refused refuses them all.
UpdateAllPreferences(w, p, c, cols, d, other) ==
    /\ c # d /\ Allowed(c, cols) /\ Allowed(d, other)
    /\ Hold(w, [preferences |-> Both(Set(p, c, cols), Set(p, d, other))])

DeleteUserPreferences(w, p) ==
    Hold(w, [preferences |-> Each({k \in DOMAIN db.preferences : k[1] = p}, Delete)])

-------------------------------------------------------------------------------
(* Decisions *)

ShouldNotify_Frequency(p, c, channel) ==     \* mutant: "none" is not a frequency
    \/ c = "security" /\ channel = "channel_email"
    \/ Preference(p, c).is_enabled /\ Preference(p, c)[channel]
\* should_notify of the DAO
ShouldNotify(p, c, channel) ==
    \/ c = "security" /\ channel = "channel_email"
    \/ LET row == Preference(p, c)
       IN  row.is_enabled /\ row.frequency # "none" /\ row[channel]

\* get_preferences_as_dict: what the user is shown
Shown(p) == [c \in Category |-> Preference(p, c)]

\* should_send_email, should_send_slack and should_send_in_app of a row
ShouldSend(c, row, channel) ==
    IF c = "security" /\ channel = "channel_email"
    THEN TRUE
    ELSE IF ~row.is_enabled \/ row.frequency = "none" THEN FALSE ELSE row[channel]

-------------------------------------------------------------------------------
Init == Start({"preferences"})

Next ==
    \E w \in Worker :
        \/ \E p \in Person :
               \/ CreateDefaultPreferences(w, p) \/ DeleteUserPreferences(w, p)
               \/ \E c \in Category :
                      \/ ReadPreference(w, p, c)
                      \/ \E cols \in Choice :
                             \/ UpdatePreference(w, p, c, cols)
                             \/ \E d \in Category, other \in Choice :
                                    UpdateAllPreferences(w, p, c, cols, d, other)
        \/ Commit(w) \/ Rollback(w)

Spec == Init /\ [][Next]_dbvars

-------------------------------------------------------------------------------
(* Properties *)

\* Rows have their column types.
TypeOK ==
    /\ DOMAIN db.preferences \subseteq Person \X Category
    /\ \A k \in DOMAIN db.preferences : db.preferences[k] \in NotificationPreference

\* Whatever a user chose, one category at a time or several at once: security e-mails
\* are on in what the user is shown, and what is shown is what decides
\* (update_preference, get_preferences_as_dict, should_notify and the model's methods,
\* each of which has the rule of its own).
ShownIsUsed ==
    \A p \in Person, c \in Category :
        /\ c = "security" => Shown(p)[c].is_enabled /\ Shown(p)[c].channel_email
        /\ \A channel \in NotificationChannel :
               ShouldNotify(p, c, channel) = ShouldSend(c, Shown(p)[c], channel)
=================================================================================
