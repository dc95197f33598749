------------------------------- MODULE Access -------------------------------
(***************************************************************************)
(* Who sees what: the identity middleware (IdentitySync), the units        *)
(* (UnitRegistry) and the calendars (CalendarRegistry) in one system.      *)
(*                                                                         *)
(* The code resolves membership twice.  The handler behind the middleware  *)
(* asks with the groups of its own request (ListUnitsByUserGroups,         *)
(* IsUnitMember); the visible calendars are a join over the groups that    *)
(* some sync has stored (user_idp_groups), which other requests of the     *)
(* same user replace while the handler runs.                               *)
(*                                                                         *)
(* UnitAdmin and CalendarAdmin implement the two registries, so their      *)
(* calls are one step here.  A unit takes its calendars along.             *)
(***************************************************************************)
EXTENDS IdentitySync

CONSTANTS
    UnitIds,           \* ids of units
    UnitContents,      \* [slug, info, groups]: what a form says of a unit
    CalendarIds,       \* ids of calendars
    CalendarContents,  \* [visibility, viewers]: what a call says of a calendar
    None               \* no unit, no calendar

Visibilities == {"association", "unit", "custom"}

UnitTypes ==
    [slug : {c.slug : c \in UnitContents}, info : {c.info : c \in UnitContents},
     groups : SUBSET Groups]

CalendarTypes == [unit : UnitIds, visibility : Visibilities, viewers : SUBSET UnitIds]

ASSUME AccessAssumption ==
    /\ UnitContents \subseteq UnitTypes
    /\ CalendarContents \subseteq [visibility : Visibilities, viewers : SUBSET UnitIds]
    /\ None \notin UnitTypes \cup CalendarTypes

VARIABLES
    units,          \* the unit under each id
    unitsBorn,      \* ids that a unit has ever had
    calendars,      \* the calendar under each id
    calendarsBorn,  \* ids that a calendar has ever had
    heard,          \* history: groups that a handler's user has sent meanwhile
    calm            \* history: no other sync of the user has overlapped

registries == <<units, unitsBorn, calendars, calendarsBorn>>
access == <<vars, registries, heard, calm>>

Registry == INSTANCE UnitRegistry WITH
    Ids <- UnitIds, Contents <- UnitContents, registry <- units, born <- unitsBorn

Planner == INSTANCE CalendarRegistry WITH
    Units <- UnitIds, Ids <- CalendarIds, Contents <- CalendarContents,
    units <- Registry!Live, registry <- calendars, born <- calendarsBorn

-----------------------------------------------------------------------------
(* Visible calendars by the stored groups *)

\* Mutant: the join over the viewers is an outer join of the user's groups.
ListVisibleCalendarsForUser_AnyViewer(user) ==
    {id \in Planner!Live :
        \/ calendars[id].visibility = "association"
        \/ /\ calendars[id].visibility = "unit"
           /\ \E g \in units[calendars[id].unit].groups : g \in user_idp_groups[user]
        \/ calendars[id].visibility = "custom" /\ calendars[id].viewers # {}}

ListVisibleCalendarsForUser(user) ==
    {id \in Planner!Live :
        \/ calendars[id].visibility = "association"
        \/ /\ calendars[id].visibility = "unit"
           /\ \E g \in units[calendars[id].unit].groups : g \in user_idp_groups[user]
        \/ /\ calendars[id].visibility = "custom"
           /\ \E unit \in calendars[id].viewers, g \in user_idp_groups[user] :
                g \in units[unit].groups}

ListAllCalendars == Planner!Live

ListVisibleCalendars(user, isAdmin) ==
    IF isAdmin THEN ListAllCalendars ELSE ListVisibleCalendarsForUser(user)

\* The RequestUser that the handler of r finds in its context.
IsAdmin(r) == AdminGroup \in Range(req[r].groups)
Visible(r) == ListVisibleCalendars(req[r].user, IsAdmin(r))

-----------------------------------------------------------------------------

Handling(r) == req[r].state = "next"

\* History: while a handler runs, heard grows by the groups of every sync of
\* its user; calm lasts until the first of them, and needs that the sync of
\* the request itself was alone.
Remember ==
    /\ heard' = [r \in Requests |->
                    IF ~ Handling(r)' THEN {} ELSE heard[r] \cup burst'[req'[r].user].sent]
    /\ calm' = [r \in Requests |->
                    /\ Handling(r)'
                    /\ IF Handling(r) THEN calm[r] /\ Quiet(req[r].user)'
                       ELSE burst'[req'[r].user].size = "one"]

AccessInit ==
    /\ Init
    /\ Registry!Init
    /\ calendars = [id \in CalendarIds |-> None]
    /\ calendarsBorn = {}
    /\ heard = [r \in Requests |-> {}]
    /\ calm = [r \in Requests |-> FALSE]

\* A step of the middleware.
Synchronise == Next /\ Remember /\ UNCHANGED registries

SaveUnit ==
    /\ \E id \in UnitIds, content \in UnitContents :
            Registry!Create(id, content) \/ Registry!Update(id, content)
    /\ UNCHANGED <<vars, calendars, calendarsBorn, heard, calm>>

\* DELETE FROM units with all its cascades.
DeleteUnit ==
    /\ \E id \in Registry!Live : Registry!Delete(id) /\ Planner!DeleteUnit(id)
    /\ UNCHANGED <<vars, heard, calm>>

ChangeCalendar ==
    /\ UNCHANGED <<vars, units, unitsBorn, heard, calm>>
    /\ \E id \in CalendarIds :
        \/ \E content \in CalendarContents :
            \/ \E unit \in UnitIds : Planner!Create(id, unit, content)
            \/ Planner!Update(id, content)
        \/ Planner!Delete(id)

AccessNext == Synchronise \/ SaveUnit \/ DeleteUnit \/ ChangeCalendar

AccessSpec == AccessInit /\ [][AccessNext]_access

-----------------------------------------------------------------------------
(* Properties *)

\* The tables refer to each other: calendars and their viewers belong to
\* units that exist, whatever was deleted in between.
TablesAgree ==
    /\ TypeOK
    /\ \A id \in Registry!Live : units[id].groups \subseteq Groups
    /\ \A id \in Planner!Live :
        calendars[id].unit \in Registry!Live /\ calendars[id].viewers \subseteq Registry!Live
    /\ heard \in [Requests -> SUBSET Groups]
    /\ calm \in [Requests -> BOOLEAN]

\* What the groups allow, by IsUnitMember.
Allowed(groups) ==
    {id \in Planner!Live :
        CASE calendars[id].visibility = "association" -> TRUE
          [] calendars[id].visibility = "unit" -> Registry!IsUnitMember(calendars[id].unit, groups)
          [] OTHER -> \E unit \in calendars[id].viewers : Registry!IsUnitMember(unit, groups)}

\* A handler never lists a calendar to a user who is not an association admin
\* unless some group allows it that the user has sent with this request or
\* with one that ran at the same time: the groups of an earlier session do
\* not show through, whatever sync is cut off halfway meanwhile.
ListedIsPresented ==
    \A r \in Requests : Handling(r) /\ ~ IsAdmin(r) => Visible(r) \subseteq Allowed(heard[r])

\* As long as no other request of the user is being synchronised, both
\* resolutions of membership agree: the calendars listed from the stored
\* groups are those that the request's own groups allow, and every unit in
\* the request's navigation shows its members their calendars.
StoredGroupsAgree ==
    \A r \in Requests :
        calm[r] /\ ~ IsAdmin(r) =>
            /\ Visible(r) = Allowed(Range(req[r].groups))
            /\ \A id \in Planner!Live :
                /\ calendars[id].visibility = "unit"
                /\ calendars[id].unit \in Registry!ListUnitsByUserGroups(Range(req[r].groups))
                => id \in Visible(r)

=============================================================================
