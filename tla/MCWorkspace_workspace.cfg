CONSTANTS
    MaxOrgs = 2
    MaxProjects = 2
    PageSize = 1
    MaxChanges = 3
    None = None
    Asked = Asked
SPECIFICATION FairSpec
INVARIANTS TypeOK OwnCreationsOpen OwnDeletionsStayShut DeletionWasTyped
PROPERTY NavigationEnds
